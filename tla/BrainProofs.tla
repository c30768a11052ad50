----------------------------- MODULE BrainProofs -----------------------------
(* Theorems about Brain, for every set of agents, of files and of calls that *)
(* may be under way at once, and every number of calls and starts.          *)
EXTENDS Brain, TLAPS

Files == Brain \cup House

Calls == [op : Ops \cup {"none"}, at : Ats \cup {"none"}, agent : Agents \cup {None},
          file : Files \cup {None}, ver : Versions, todo : Seq(Files), seen : Prompts]

Writing == {"write", "fill", "unlinked"}

(* Where a call can be, and what it works on there. *)
Formed(c) ==
    /\ c.op = "none" => c.at = "none"
    /\ c.op = "panel" => c.at \in {"mkdir", "ensure", "get", "load"} \cup Writing
    /\ c.op = "save" => c.at \in {"invalidate", "drop", "emit"} \cup Writing /\ c.file \in Brain
    /\ c.op = "save" /\ c.at \in Writing => c.ver = Absent
    /\ c.op = "update_self" => c.at \in {"emit"} \cup Writing
    /\ c.op = "summary" => c.at \in {"lock_lead", "infer", "emit"} \cup Writing
    /\ c.op = "reflect" => c.at \in {"load", "rewrite"} \cup Writing
    /\ c.op = "broadcast" => c.at \in {"lock_lead", "compose"} \cup Writing /\ c.file \in House
    /\ c.op = "resolve" => c.at \in {"lock_dm", "mkdir", "ensure", "lock_lead", "compose"} \cup Writing
    /\ c.op = "resolve" /\ c.at = "lock_lead" => c.agent = "lead"
    /\ c.op = "reset" => c.at \in {"agents", "company"}
    /\ c.at \in Writing /\ c.op # "broadcast" => c.file \in Brain
    /\ c.op \notin {"none", "summary", "reset"} => c.agent \in Agents
    /\ c.at \in {"emit"} \cup Writing => c.agent \in Agents
    /\ c.at # "compose" => c.todo \in Seq(Brain)

(* A broadcast that has not begun to compose; a save that has written. *)
Pending(c) == c.op = "broadcast" /\ c.at # "compose"
Saved(c) == c.op = "save" /\ c.at \in {"invalidate", "drop", "emit"}
Dropped(c) == c.op = "save" /\ c.at = "emit"

HoldsLead(c) ==
    \/ c.op = "broadcast" /\ c.at = "compose"
    \/ c.op = "summary" /\ c.at # "lock_lead"
HoldsDM(c) == c.op = "resolve" /\ c.at # "lock_dm"

InTodo(c, f) == \E i \in 1..Len(c.todo) : c.todo[i] = f

StateOK ==
    /\ disk \in [Agents -> [Brain -> Versions]]
    /\ dirs \subseteq Agents
    /\ house \in [House -> Versions]
    /\ written \in Nat
    /\ registry \subseteq Agents
    /\ prompt \in Prompts
    /\ dm \in [Agents -> Prompts \cup {NoEntry}]
    /\ met \subseteq Agents
    /\ kept \in [Agents -> [Brain -> Versions]]
    /\ failed \in BOOLEAN
    /\ count \in 0..MaxCalls

CallsOK == call \in [Slots -> Calls] /\ \A s \in Slots : Formed(call[s])

(* Who composes, or writes a summary, holds the lock for it, and nobody else *)
(* does.                                                                   *)
LocksOK ==
    /\ leadMu \in Slots \cup {None} /\ dmAgentsMu \in Slots \cup {None}
    /\ \A s \in Slots :
          /\ HoldsLead(call[s]) <=> leadMu = s
          /\ HoldsDM(call[s]) <=> dmAgentsMu = s

(* A broadcast that composes has read the present content of each company   *)
(* file, or the file is deleted, or another is still to compose.            *)
HouseOK ==
    /\ \A s \in Slots : call[s].op = "broadcast" /\ call[s].at = "compose" =>
          \A f \in House :
              \/ InTodo(call[s], f)
              \/ house[f] \in {Absent, call[s].seen[f]}
              \/ \E t \in Slots : Pending(call[t])
    /\ HouseReachesLead

(* A version v of a file is as new as a version w; what is truncated or not *)
(* there is not an older one.                                              *)
Newer(v, w) == v \in {Absent, Empty} \/ v >= w

(* No file is older than its last save, nor than a save still under way. *)
DiskOK ==
    /\ \A a \in Agents, f \in Brain : kept[a][f] <= written /\ Newer(disk[a][f], kept[a][f])
    /\ \A s \in Slots : Saved(call[s]) =>
          call[s].ver <= written /\ Newer(disk[call[s].agent][call[s].file], call[s].ver)

(* What a save that has dropped the agent wrote is in the version v. *)
Covers(v, a, f) ==
    /\ Newer(v, kept[a][f])
    /\ \A t \in Slots :
          Dropped(call[t]) /\ call[t].agent = a /\ call[t].file = f => Newer(v, call[t].ver)

(* The same of the prompts: of those made, and of those that are being made *)
(* for what they have read; a save counts once it has dropped the agent.    *)
PromptOK ==
    /\ \A a \in Agents \ {"lead"} : dm[a] # NoEntry => \A f \in Brain : Covers(dm[a][f], a, f)
    /\ \A s \in Slots : call[s].op = "resolve" /\ call[s].at = "compose" =>
          \A f \in Brain : InTodo(call[s], f) \/ Covers(call[s].seen[f], call[s].agent, f)

BrainInv == StateOK /\ CallsOK /\ LocksOK /\ HouseOK /\ DiskOK /\ PromptOK

-----------------------------------------------------------------------------
LEMMA TodoShrinks ==
    ASSUME NEW S, NEW q \in Seq(S), q # <<>>, NEW f,
           \E i \in 1..Len(q) : q[i] = f, f # Head(q)
    PROVE  \E i \in 1..Len(Tail(q)) : Tail(q)[i] = f
<1>1. PICK i \in 1..Len(q) : q[i] = f
  OBVIOUS
<1>2. i # 1
  BY <1>1
<1>3. i - 1 \in 1..Len(Tail(q)) /\ Tail(q)[i - 1] = f
  BY <1>1, <1>2
<1> QED
  BY <1>3

LEMMA Apart == ASSUME NEW f \in House PROVE f \notin Brain
BY BrainAssumption DEF Brain, House

LEMMA VersionsAre ==
    /\ Versions \subseteq Int /\ Nat \subseteq Versions
    /\ Absent \in Versions /\ Empty \in Versions /\ Default \in Versions
    /\ \A v \in Versions : v >= Absent /\ Newer(v, Absent)
BY DEF Versions, Absent, Empty, Default, Newer

LEMMA BlankCall ==
    ASSUME NEW op \in Ops \cup {"none"}, NEW at \in Ats \cup {"none"}, NEW a \in Agents \cup {None},
           NEW f \in Files \cup {None}
    PROVE  /\ Call(op, at, a, f) \in Calls
           /\ Call(op, at, a, f).op = op /\ Call(op, at, a, f).at = at /\ Call(op, at, a, f).agent = a
           /\ Call(op, at, a, f).file = f /\ Call(op, at, a, f).ver = Absent /\ Call(op, at, a, f).todo = <<>>
<1>1. Unread \in Prompts /\ Absent \in Versions
  BY VersionsAre DEF Unread, Prompts
<1>2. <<>> \in Seq(Files)
  OBVIOUS
<1> QED
  BY <1>1, <1>2 DEF Call, Calls

LEMMA Blank ==
    /\ NoCall \in Calls /\ Formed(NoCall) /\ NoCall.op = "none" /\ NoCall.at = "none"
    /\ ~HoldsLead(NoCall) /\ ~HoldsDM(NoCall) /\ ~Saved(NoCall) /\ ~Dropped(NoCall) /\ ~Pending(NoCall)
<1>1. <<>> \in Seq(Brain)
  OBVIOUS
<1>2. NoCall \in Calls /\ NoCall.op = "none" /\ NoCall.at = "none" /\ NoCall.todo = <<>>
  BY BlankCall DEF NoCall
<1> QED
  BY <1>1, <1>2 DEF Formed, Writing, HoldsLead, HoldsDM, Saved, Dropped, Pending

LEMMA FileSeqs ==
    /\ BrainFiles \in Seq(Brain) /\ BrainFiles \in Seq(Files)
    /\ HouseFiles \o BrainFiles \in Seq(Files)
<1>1. BrainFiles \in Seq(Brain) /\ HouseFiles \in Seq(House)
  BY BrainAssumption DEF Brain, House
<1>2. BrainFiles \in Seq(Files) /\ HouseFiles \in Seq(Files)
  BY <1>1 DEF Files
<1> QED
  BY <1>1, <1>2

LEMMA ComposedIs ==
    ASSUME NEW d \in [Brain -> Versions], NEW h \in [House -> Versions]
    PROVE  Composed(d, h) \in Prompts /\ \A f \in House : Composed(d, h)[f] = h[f]
BY Apart DEF Composed, Prompts

LEMMA InitBrain == Init => BrainInv
<1> SUFFICES ASSUME Init PROVE BrainInv
  OBVIOUS
<1>1. /\ disk \in [Agents -> [Brain -> Versions]] /\ house \in [House -> Versions]
      /\ kept \in [Agents -> [Brain -> Versions]]
      /\ \A a \in Agents, f \in Brain : kept[a][f] = Absent
  BY VersionsAre DEF Init
<1>2. prompt \in Prompts /\ \A f \in House : prompt[f] = house[f]
  <2>1. disk["lead"] \in [Brain -> Versions] /\ prompt = Composed(disk["lead"], house)
    BY <1>1, BrainAssumption DEF Init
  <2> QED
    BY <1>1, <2>1, ComposedIs
<1>3. StateOK
  <2>1. dirs \subseteq Agents /\ registry \subseteq Agents /\ met \subseteq Agents /\ failed \in BOOLEAN
    BY BrainAssumption DEF Init
  <2>2. written \in Nat
    BY DEF Init, Default
  <2>3. count \in 0..MaxCalls
    BY BrainAssumption DEF Init
  <2>4. dm \in [Agents -> Prompts \cup {NoEntry}]
    BY DEF Init
  <2> QED
    BY <1>1, <1>2, <2>1, <2>2, <2>3, <2>4 DEF StateOK
<1>4. \A s \in Slots : call[s] = NoCall
  BY DEF Init
<1>5. CallsOK
  BY <1>4, Blank DEF Init, CallsOK
<1>6. LocksOK
  BY <1>4, Blank, BrainAssumption DEF Init, LocksOK
<1>7. HouseOK
  BY <1>2, <1>4, Blank DEF HouseOK, HouseReachesLead
<1>8. DiskOK
  <2>1. written = Default /\ Absent <= Default
    BY DEF Init, Default, Absent
  <2>2. \A a \in Agents, f \in Brain : Newer(disk[a][f], kept[a][f])
    BY <1>1, VersionsAre
  <2> QED
    BY <1>1, <1>4, <2>1, <2>2, Blank DEF DiskOK
<1>9. PromptOK
  BY <1>4, Blank DEF Init, PromptOK
<1> QED
  BY <1>3, <1>5, <1>6, <1>7, <1>8, <1>9 DEF BrainInv

-----------------------------------------------------------------------------
(* Steps that write nothing and compose nothing.                            *)

(* A broadcast stays one, a call that composes does not move, no save gets  *)
(* to the drop, and none is over its write but one whose file is gone.      *)
Stays(c, d) ==
    /\ c.op = "broadcast" => d.op = "broadcast"
    /\ Pending(c) => Pending(d)
    /\ d.at = "compose" => d = c
    /\ Dropped(d) => d = c
    /\ Saved(d) => \/ d.ver = Absent /\ d.agent \in Agents /\ d.file \in Brain
                   \/ Saved(c) /\ d.ver = c.ver /\ d.agent = c.agent /\ d.file = c.file

(* Files may be deleted meanwhile. *)
LEMMA Quiet ==
    ASSUME BrainInv, StateOK', CallsOK', LocksOK',
           UNCHANGED <<written, prompt, kept, dm, failed>>,
           \A a \in Agents, f \in Brain : disk'[a][f] \in {disk[a][f], Absent},
           \A f \in House : house'[f] \in {house[f], Absent},
           \A t \in Slots : Stays(call[t], call'[t])
    PROVE  BrainInv'
<1>1. HouseOK'
  <2>1. \A t \in Slots : Pending(call[t]) => Pending(call'[t])
    BY DEF Stays
  <2>2. ASSUME NEW t \in Slots, call'[t].op = "broadcast", call'[t].at = "compose", NEW f \in House
        PROVE  \/ InTodo(call'[t], f)
               \/ house'[f] \in {Absent, call'[t].seen[f]}
               \/ \E u \in Slots : Pending(call'[u])
    <3>1. call'[t] = call[t]
      BY <2>2 DEF Stays
    <3>2. \/ InTodo(call[t], f)
          \/ house[f] \in {Absent, call[t].seen[f]}
          \/ \E u \in Slots : Pending(call[u])
      BY <2>2, <3>1 DEF BrainInv, HouseOK
    <3> QED
      BY <2>1, <3>1, <3>2
  <2>3. HouseReachesLead'
    <3>1. (\A t \in Slots : call'[t].op # "broadcast") => \A t \in Slots : call[t].op # "broadcast"
      BY DEF Stays
    <3> QED
      BY <3>1 DEF BrainInv, HouseOK, HouseReachesLead
  <2> QED
    BY <2>2, <2>3 DEF HouseOK
<1>2. DiskOK'
  <2>1. ASSUME NEW a \in Agents, NEW f \in Brain
        PROVE  kept'[a][f] <= written' /\ Newer(disk'[a][f], kept'[a][f])
    BY DEF BrainInv, DiskOK, Newer
  <2>2. ASSUME NEW t \in Slots, Saved(call'[t])
        PROVE  call'[t].ver <= written' /\ Newer(disk'[call'[t].agent][call'[t].file], call'[t].ver)
    <3>1. CASE call'[t].ver = Absent /\ call'[t].agent \in Agents /\ call'[t].file \in Brain
      <4>1. disk'[call'[t].agent][call'[t].file] \in Versions
        BY <3>1 DEF StateOK
      <4>2. Absent <= written'
        BY DEF BrainInv, StateOK, Absent
      <4> QED
        BY <3>1, <4>1, <4>2, VersionsAre
    <3>2. CASE /\ Saved(call[t]) /\ call'[t].ver = call[t].ver
               /\ call'[t].agent = call[t].agent /\ call'[t].file = call[t].file
      <4>1. call[t].agent \in Agents /\ call[t].file \in Brain
        BY <3>2 DEF Saved, BrainInv, CallsOK, Formed
      <4>2. call[t].ver <= written /\ Newer(disk[call[t].agent][call[t].file], call[t].ver)
        BY <3>2 DEF BrainInv, DiskOK
      <4> QED
        BY <3>2, <4>1, <4>2 DEF Newer
    <3> QED
      BY <2>2, <3>1, <3>2 DEF Stays
  <2> QED
    BY <2>1, <2>2 DEF DiskOK
<1>3. PromptOK'
  <2>2. ASSUME NEW a \in Agents \ {"lead"}, dm'[a] # NoEntry, NEW f \in Brain
        PROVE  Covers(dm[a][f], a, f)'
    <3>1. Covers(dm[a][f], a, f)
      BY <2>2 DEF BrainInv, PromptOK
    <3>2. dm'[a][f] = dm[a][f]
      OBVIOUS
    <3> QED
      BY <3>1, <3>2 DEF Covers, Stays
  <2>3. ASSUME NEW t \in Slots, call'[t].op = "resolve", call'[t].at = "compose", NEW f \in Brain
        PROVE  InTodo(call'[t], f) \/ Covers(call[t].seen[f], call[t].agent, f)'
    <3>1. call'[t] = call[t]
      BY <2>3 DEF Stays
    <3>2. InTodo(call[t], f) \/ Covers(call[t].seen[f], call[t].agent, f)
      BY <2>3, <3>1 DEF BrainInv, PromptOK
    <3> QED
      BY <3>1, <3>2 DEF Covers, Stays
  <2> QED
    BY <2>2, <2>3 DEF PromptOK
<1> QED
  BY <1>1, <1>2, <1>3 DEF BrainInv

(* Who holds the locks after a step of one call. *)
LEMMA LocksMove ==
    ASSUME BrainInv, NEW s \in Slots, NEW c, call' = [call EXCEPT ![s] = c],
           \/ leadMu' = leadMu /\ (HoldsLead(c) <=> HoldsLead(call[s]))
           \/ leadMu = None /\ leadMu' = s /\ HoldsLead(c)
           \/ HoldsLead(call[s]) /\ leadMu' = None /\ ~HoldsLead(c),
           \/ dmAgentsMu' = dmAgentsMu /\ (HoldsDM(c) <=> HoldsDM(call[s]))
           \/ dmAgentsMu = None /\ dmAgentsMu' = s /\ HoldsDM(c)
           \/ HoldsDM(call[s]) /\ dmAgentsMu' = None /\ ~HoldsDM(c)
    PROVE  LocksOK'
<1>1. call'[s] = c /\ \A t \in Slots \ {s} : call'[t] = call[t]
  BY DEF BrainInv, CallsOK
<1>2. leadMu \in Slots \cup {None} /\ dmAgentsMu \in Slots \cup {None} /\ None \notin Slots
  BY BrainAssumption DEF BrainInv, LocksOK
<1>3. leadMu' \in Slots \cup {None} /\ \A t \in Slots : HoldsLead(call'[t]) <=> leadMu' = t
  <2>1. \A t \in Slots : HoldsLead(call[t]) <=> leadMu = t
    BY DEF BrainInv, LocksOK
  <2>2. CASE leadMu' = leadMu /\ (HoldsLead(c) <=> HoldsLead(call[s]))
    BY <1>1, <1>2, <2>1, <2>2
  <2>3. CASE leadMu = None /\ leadMu' = s /\ HoldsLead(c)
    BY <1>1, <1>2, <2>1, <2>3
  <2>4. CASE HoldsLead(call[s]) /\ leadMu' = None /\ ~HoldsLead(c)
    BY <1>1, <1>2, <2>1, <2>4
  <2> QED
    BY <2>2, <2>3, <2>4
<1>4. dmAgentsMu' \in Slots \cup {None} /\ \A t \in Slots : HoldsDM(call'[t]) <=> dmAgentsMu' = t
  <2>1. \A t \in Slots : HoldsDM(call[t]) <=> dmAgentsMu = t
    BY DEF BrainInv, LocksOK
  <2>2. CASE dmAgentsMu' = dmAgentsMu /\ (HoldsDM(c) <=> HoldsDM(call[s]))
    BY <1>1, <1>2, <2>1, <2>2
  <2>3. CASE dmAgentsMu = None /\ dmAgentsMu' = s /\ HoldsDM(c)
    BY <1>1, <1>2, <2>1, <2>3
  <2>4. CASE HoldsDM(call[s]) /\ dmAgentsMu' = None /\ ~HoldsDM(c)
    BY <1>1, <1>2, <2>1, <2>4
  <2> QED
    BY <2>2, <2>3, <2>4
<1> QED
  BY <1>3, <1>4 DEF LocksOK

(* One call moves on. *)
LEMMA QuietCall ==
    ASSUME BrainInv, NEW s \in Slots, NEW c \in Calls, Formed(c), call' = [call EXCEPT ![s] = c],
           LocksOK', Stays(call[s], c),
           UNCHANGED <<disk, house, written, prompt, kept, dm, failed>>,
           dirs' \subseteq Agents, registry' \subseteq Agents, met' \subseteq Agents,
           count' \in 0..MaxCalls
    PROVE  BrainInv'
<1>1. call'[s] = c /\ \A t \in Slots \ {s} : call'[t] = call[t]
  BY DEF BrainInv, CallsOK
<1>2. StateOK'
  BY DEF BrainInv, StateOK
<1>3. CallsOK'
  BY <1>1 DEF BrainInv, CallsOK
<1>4. ASSUME NEW t \in Slots PROVE Stays(call[t], call'[t])
  BY <1>1 DEF Stays
<1> QED
  BY <1>2, <1>3, <1>4, Quiet

(* The call's operation goes on under the locks it had. *)
LEMMA GoesOn ==
    ASSUME BrainInv, NEW s \in Slots, NEW c \in Calls, Formed(c), call' = [call EXCEPT ![s] = c],
           c.op = call[s].op, c.at # "compose", call[s].at # "compose",
           c.op = "summary" => c.at # "lock_lead" /\ call[s].at # "lock_lead",
           c.op = "resolve" => c.at # "lock_dm" /\ call[s].at # "lock_dm",
           ~Dropped(c),
           Saved(c) => \/ c.ver = Absent
                       \/ Saved(call[s]) /\ c.ver = call[s].ver /\ c.agent = call[s].agent /\ c.file = call[s].file,
           UNCHANGED <<disk, house, written, prompt, kept, dm, failed, lockVars, met, count>>,
           dirs' \subseteq Agents, registry' \subseteq Agents
    PROVE  BrainInv'
<1> USE DEF lockVars
<1>1. (HoldsLead(c) <=> HoldsLead(call[s])) /\ (HoldsDM(c) <=> HoldsDM(call[s]))
  BY DEF HoldsLead, HoldsDM
<1>2. LocksOK'
  BY <1>1, LocksMove
<1>3. Stays(call[s], c)
  BY DEF Stays, Pending, Saved, Formed
<1>4. met' \subseteq Agents /\ count' \in 0..MaxCalls
  BY DEF BrainInv, StateOK
<1> QED
  BY <1>2, <1>3, <1>4, QuietCall

(* A call that is over, and was neither a broadcast nor under a lock. *)
LEMMA EndsFree ==
    ASSUME BrainInv, NEW s \in Slots, End(s), call[s].op # "broadcast",
           ~HoldsLead(call[s]), ~HoldsDM(call[s]),
           UNCHANGED <<disk, house, written, prompt, kept, dm, failed, lockVars, count>>,
           dirs' \subseteq Agents, registry' \subseteq Agents, met' \subseteq Agents
    PROVE  BrainInv'
<1> USE DEF lockVars
<1>1. call' = [call EXCEPT ![s] = NoCall]
  BY DEF End
<1>2. LocksOK'
  BY <1>1, Blank, LocksMove
<1>3. Stays(call[s], NoCall)
  BY Blank DEF Stays, Pending
<1>4. count' \in 0..MaxCalls
  BY DEF BrainInv, StateOK
<1> QED
  BY <1>1, <1>2, <1>3, <1>4, Blank, QuietCall

LEMMA StateIs ==
    ASSUME BrainInv, NEW s \in Slots
    PROVE  /\ call[s] \in Calls /\ Formed(call[s]) /\ CallsOK /\ StateOK
           /\ dirs \subseteq Agents /\ registry \subseteq Agents /\ met \subseteq Agents
BY DEF BrainInv, CallsOK, StateOK

(* What Goto and ReadNext make of a call. *)
LEMMA GotoIs ==
    ASSUME CallsOK, NEW s \in Slots, NEW at \in Ats, Goto(s, at)
    PROVE  \E c \in Calls :
              /\ call' = [call EXCEPT ![s] = c] /\ c.at = at /\ c.op = call[s].op
              /\ c.agent = call[s].agent /\ c.file = call[s].file /\ c.ver = call[s].ver
              /\ c.todo = call[s].todo /\ c.seen = call[s].seen
<1>1. call[s] \in Calls
  BY DEF CallsOK
<1>2. [call[s] EXCEPT !.at = at] \in Calls
  BY <1>1 DEF Calls
<1>3. call' = [call EXCEPT ![s] = [call[s] EXCEPT !.at = at]]
  BY DEF Goto
<1> QED
  BY <1>1, <1>2, <1>3 DEF Calls

LEMMA ReadNextIs ==
    ASSUME CallsOK, NEW s \in Slots, NEW at \in Ats, NEW q \in Seq(Files), ReadNext(s, at, q)
    PROVE  \E c \in Calls :
              /\ call' = [call EXCEPT ![s] = c] /\ c.at = at /\ c.op = call[s].op
              /\ c.agent = call[s].agent /\ c.file = call[s].file /\ c.ver = call[s].ver
              /\ c.todo = q /\ c.seen = call[s].seen
<1>1. call[s] \in Calls
  BY DEF CallsOK
<1>2. [call[s] EXCEPT !.at = at, !.todo = q] \in Calls
  BY <1>1 DEF Calls
<1>3. call' = [call EXCEPT ![s] = [call[s] EXCEPT !.at = at, !.todo = q]]
  BY DEF ReadNext
<1> QED
  BY <1>1, <1>2, <1>3 DEF Calls

-----------------------------------------------------------------------------
(* Calls begin.                                                             *)

LEMMA SoulPersona ==
    /\ <<"soul", "persona">> \in Seq(Brain)
    /\ {<<>>, <<"soul">>, <<"persona">>, <<"soul", "persona">>} \subseteq Seq(Brain)
<1>1. "soul" \in Brain /\ "persona" \in Brain
  BY BrainAssumption DEF Brain
<1>2. <<>> \in Seq(Brain)
  OBVIOUS
<1>3. <<"soul">> \in Seq(Brain)
  BY <1>1
<1>4. <<"persona">> \in Seq(Brain)
  BY <1>1
<1>5. <<"soul", "persona">> \in Seq(Brain)
  BY <1>1
<1> QED
  BY <1>2, <1>3, <1>4, <1>5

LEMMA BrainSeqs == Seq(Brain) \subseteq Seq(Files)
BY DEF Files

LEMMA BeginKeeps ==
    ASSUME BrainInv, NEW s \in Slots, Begin(s)
    PROVE  BrainInv'
<1> USE DEF fileVars, cacheVars, lockVars
<1> DEFINE Fresh(c) == /\ c \in Calls /\ Formed(c) /\ ~HoldsLead(c) /\ ~HoldsDM(c)
                       /\ c.at # "compose" /\ ~Saved(c) /\ ~Dropped(c)
<1>1. PICK c : BeginCall(s, c) /\ Fresh(c)
  <2>0. <<>> \in Seq(Brain)
    OBVIOUS
  <2>1. ASSUME NEW a \in Agents
        PROVE  Fresh(Call("panel", "mkdir", a, None))
    <3> DEFINE c == Call("panel", "mkdir", a, None)
    <3>1. /\ c \in Calls /\ c.op = "panel" /\ c.at = "mkdir" /\ c.agent = a /\ c.file = None
          /\ c.ver = Absent /\ c.todo = <<>>
      BY BlankCall, BrainAssumption DEF Ops, Ats, Files
    <3> HIDE DEF c
    <3>2. Fresh(c)
      BY <2>0, <3>1, BrainAssumption DEF Formed, Writing, HoldsLead, HoldsDM, Saved, Dropped
    <3> QED
      BY <3>2 DEF c
  <2>2. ASSUME NEW a \in Agents
        PROVE  Fresh(Call("resolve", "lock_dm", a, None))
    <3> DEFINE c == Call("resolve", "lock_dm", a, None)
    <3>1. /\ c \in Calls /\ c.op = "resolve" /\ c.at = "lock_dm" /\ c.agent = a /\ c.file = None
          /\ c.ver = Absent /\ c.todo = <<>>
      BY BlankCall, BrainAssumption DEF Ops, Ats, Files
    <3> HIDE DEF c
    <3>2. Fresh(c)
      BY <2>0, <3>1, BrainAssumption DEF Formed, Writing, HoldsLead, HoldsDM, Saved, Dropped
    <3> QED
      BY <3>2 DEF c
  <2>3. ASSUME NEW a \in Agents, NEW f \in Brain
        PROVE  Fresh(Call("save", "write", a, f))
    <3> DEFINE c == Call("save", "write", a, f)
    <3>1. /\ c \in Calls /\ c.op = "save" /\ c.at = "write" /\ c.agent = a /\ c.file = f
          /\ c.ver = Absent /\ c.todo = <<>>
      BY BlankCall, BrainAssumption DEF Ops, Ats, Files
    <3> HIDE DEF c
    <3>2. Fresh(c)
      BY <2>0, <3>1, BrainAssumption DEF Formed, Writing, HoldsLead, HoldsDM, Saved, Dropped
    <3> QED
      BY <3>2 DEF c
  <2>4. ASSUME NEW a \in Agents, NEW f \in Brain
        PROVE  Fresh(Call("update_self", "write", a, f))
    <3> DEFINE c == Call("update_self", "write", a, f)
    <3>1. /\ c \in Calls /\ c.op = "update_self" /\ c.at = "write" /\ c.agent = a /\ c.file = f
          /\ c.ver = Absent /\ c.todo = <<>>
      BY BlankCall, BrainAssumption DEF Ops, Ats, Files
    <3> HIDE DEF c
    <3>2. Fresh(c)
      BY <2>0, <3>1, BrainAssumption DEF Formed, Writing, HoldsLead, HoldsDM, Saved, Dropped
    <3> QED
      BY <3>2 DEF c
  <2>5. ASSUME NEW f \in House
        PROVE  Fresh(Call("broadcast", "write", "lead", f))
    <3> DEFINE c == Call("broadcast", "write", "lead", f)
    <3>1. /\ c \in Calls /\ c.op = "broadcast" /\ c.at = "write" /\ c.agent = "lead" /\ c.file = f
          /\ c.ver = Absent /\ c.todo = <<>>
      BY BlankCall, BrainAssumption DEF Ops, Ats, Files
    <3> HIDE DEF c
    <3>2. Fresh(c)
      BY <2>0, <3>1, BrainAssumption DEF Formed, Writing, HoldsLead, HoldsDM, Saved, Dropped
    <3> QED
      BY <3>2 DEF c
  <2>6. Fresh(Call("summary", "lock_lead", None, None))
    <3> DEFINE c == Call("summary", "lock_lead", None, None)
    <3>1. /\ c \in Calls /\ c.op = "summary" /\ c.at = "lock_lead" /\ c.agent = None /\ c.file = None
          /\ c.ver = Absent /\ c.todo = <<>>
      BY BlankCall, BrainAssumption DEF Ops, Ats, Files
    <3> HIDE DEF c
    <3>2. Fresh(c)
      BY <2>0, <3>1, BrainAssumption DEF Formed, Writing, HoldsLead, HoldsDM, Saved, Dropped
    <3> QED
      BY <3>2 DEF c
  <2>7. Fresh(Call("reset", "agents", None, None))
    <3> DEFINE c == Call("reset", "agents", None, None)
    <3>1. /\ c \in Calls /\ c.op = "reset" /\ c.at = "agents" /\ c.agent = None /\ c.file = None
          /\ c.ver = Absent /\ c.todo = <<>>
      BY BlankCall, BrainAssumption DEF Ops, Ats, Files
    <3> HIDE DEF c
    <3>2. Fresh(c)
      BY <2>0, <3>1, BrainAssumption DEF Formed, Writing, HoldsLead, HoldsDM, Saved, Dropped
    <3> QED
      BY <3>2 DEF c
  <2>8. ASSUME NEW a \in Agents
        PROVE  Fresh([Call("reflect", "load", a, None) EXCEPT !.todo = <<"soul", "persona">>])
    <3> DEFINE b == Call("reflect", "load", a, None)
               q == <<"soul", "persona">>
               c == [b EXCEPT !.todo = q]
    <3>1. b \in Calls /\ b.op = "reflect" /\ b.at = "load" /\ b.agent = a
      BY BlankCall DEF Ops, Ats
    <3>2. q \in Seq(Brain) /\ q \in Seq(Files)
      BY SoulPersona, BrainSeqs
    <3> HIDE DEF b, q
    <3>3. c \in Calls /\ c.op = "reflect" /\ c.at = "load" /\ c.agent = a /\ c.todo = q
      BY <3>1, <3>2 DEF Calls
    <3> HIDE DEF c
    <3>4. Fresh(c)
      BY <3>2, <3>3 DEF Formed, Writing, HoldsLead, HoldsDM, Saved, Dropped
    <3> QED
      BY <3>4 DEF b, q, c
  <2>9. met \subseteq Agents /\ dirs \subseteq Agents
    BY DEF BrainInv, StateOK
  <2> HIDE DEF Fresh
  <2> QED
    BY <2>1, <2>2, <2>3, <2>4, <2>5, <2>6, <2>7, <2>8, <2>9
       DEF Begin, Panel, Save, UpdateSelf, Summary, Reflect, Broadcast, Resolve, Reset
<1>2. /\ call[s] = NoCall /\ call' = [call EXCEPT ![s] = c]
      /\ count < MaxCalls /\ count' = count + 1
      /\ UNCHANGED <<disk, dirs, house, written, registry, prompt, dm, leadMu, dmAgentsMu, met, kept, failed>>
  BY <1>1 DEF BeginCall
<1>3. LocksOK'
  BY <1>1, <1>2, Blank, LocksMove
<1>4. Stays(call[s], c)
  BY <1>1, <1>2, Blank DEF Stays
<1>5. /\ dirs' \subseteq Agents /\ registry' \subseteq Agents /\ met' \subseteq Agents
      /\ count' \in 0..MaxCalls
  BY <1>2, BrainAssumption DEF BrainInv, StateOK
<1> QED
  BY <1>1, <1>2, <1>3, <1>4, <1>5, QuietCall

-----------------------------------------------------------------------------
(* The steps that only read, look, take a lock or let it go.                *)

LEMMA MakeDirKeeps ==
    ASSUME BrainInv, NEW s \in Slots, MakeDir(s)
    PROVE  BrainInv'
<1> USE DEF fileVars, cacheVars, lockVars
<1>1. /\ call[s].at = "mkdir" /\ dirs' = dirs \cup {call[s].agent} /\ ReadNext(s, "ensure", BrainFiles)
      /\ UNCHANGED <<disk, house, written, registry, prompt, dm, leadMu, dmAgentsMu, met, kept, failed, count>>
  BY DEF MakeDir
<1>2. call[s].op \in {"panel", "resolve"} /\ call[s].agent \in Agents
  BY <1>1, StateIs DEF Formed, Writing, Calls, Ops
<1>3. PICK c \in Calls :
         /\ call' = [call EXCEPT ![s] = c] /\ c.at = "ensure" /\ c.op = call[s].op
         /\ c.agent = call[s].agent /\ c.todo = BrainFiles
  <2>1. "ensure" \in Ats
    BY DEF Ats
  <2> QED
    BY <1>1, <2>1, StateIs, FileSeqs, ReadNextIs
<1>4. Formed(c) /\ ~Saved(c) /\ ~Dropped(c)
  BY <1>2, <1>3, FileSeqs DEF Formed, Writing, Saved, Dropped
<1>5. dirs' \subseteq Agents /\ registry' \subseteq Agents
  BY <1>1, <1>2, StateIs
<1> QED
  BY <1>1, <1>2, <1>3, <1>4, <1>5, GoesOn

LEMMA WriteIfAbsentKeeps ==
    ASSUME BrainInv, NEW s \in Slots, WriteIfAbsent(s)
    PROVE  BrainInv'
<1> USE DEF fileVars, cacheVars, lockVars
<1> DEFINE f == Head(call[s].todo)
           rest == Tail(call[s].todo)
           next == [call[s] EXCEPT !.todo = rest]
           toWrite == [next EXCEPT !.at = "write", !.file = f]
<1>1. /\ call[s].at = "ensure" /\ call[s].todo # <<>>
      /\ call' = [call EXCEPT ![s] = IF disk[call[s].agent][f] # Absent THEN next ELSE toWrite]
      /\ UNCHANGED <<disk, dirs, house, written, registry, prompt, dm, leadMu, dmAgentsMu, met, kept, failed, count>>
  BY DEF WriteIfAbsent
<1>2. call[s].op \in {"panel", "resolve"} /\ call[s].agent \in Agents /\ call[s].todo \in Seq(Brain)
  BY <1>1, StateIs DEF Formed, Writing, Calls, Ops
<1>3. f \in Brain /\ rest \in Seq(Brain) /\ rest \in Seq(Files)
  BY <1>1, <1>2, BrainSeqs
<1> HIDE DEF f, rest
<1>4. /\ next \in Calls /\ next.op = call[s].op /\ next.at = "ensure" /\ next.agent = call[s].agent
      /\ next.todo = rest
  BY <1>1, <1>3, StateIs DEF Calls
<1> HIDE DEF next
<1>5. /\ toWrite \in Calls /\ toWrite.op = call[s].op /\ toWrite.at = "write"
      /\ toWrite.agent = call[s].agent /\ toWrite.file = f /\ toWrite.todo = rest
  BY <1>3, <1>4 DEF Calls, Ats, Files
<1> HIDE DEF toWrite
<1>6. Formed(next) /\ Formed(toWrite)
  BY <1>2, <1>3, <1>4, <1>5 DEF Formed, Writing
<1>7. ~Saved(next) /\ ~Saved(toWrite) /\ ~Dropped(next) /\ ~Dropped(toWrite)
  BY <1>4, <1>5 DEF Saved, Dropped
<1>8. dirs' \subseteq Agents /\ registry' \subseteq Agents
  BY <1>1, StateIs
<1>9. CASE call' = [call EXCEPT ![s] = next]
  BY <1>1, <1>4, <1>6, <1>7, <1>8, <1>9, GoesOn
<1>10. CASE call' = [call EXCEPT ![s] = toWrite]
  BY <1>1, <1>5, <1>6, <1>7, <1>8, <1>10, GoesOn
<1> QED
  BY <1>1, <1>9, <1>10

(* What is written to a deleted file is lost. *)
LEMMA FillUnlinkedKeeps ==
    ASSUME BrainInv, NEW s \in Slots, FillUnlinked(s)
    PROVE  BrainInv'
<1> USE DEF fileVars, cacheVars, lockVars
<1>1. /\ call[s].at = "unlinked" /\ Goto(s, AfterWrite(call[s].op))
      /\ UNCHANGED <<disk, dirs, house, written, registry, prompt, dm, leadMu, dmAgentsMu, met, kept, failed, count>>
  BY DEF FillUnlinked
<1>2. call[s].op \in {"panel", "save", "update_self", "summary", "reflect", "broadcast", "resolve"}
  BY <1>1, StateIs DEF Formed, Writing, Calls, Ops
<1>3. PICK at \in {"invalidate", "emit", "lock_lead", "rewrite", "ensure"} :
         /\ at = AfterWrite(call[s].op)
         /\ at = "invalidate" <=> call[s].op = "save"
         /\ at = "emit" <=> call[s].op \in {"update_self", "summary"}
         /\ at = "lock_lead" <=> call[s].op = "broadcast"
         /\ at = "rewrite" <=> call[s].op = "reflect"
  BY <1>2 DEF AfterWrite
<1>4. PICK c \in Calls :
         /\ call' = [call EXCEPT ![s] = c] /\ c.at = at /\ c.op = call[s].op
         /\ c.agent = call[s].agent /\ c.file = call[s].file /\ c.ver = call[s].ver /\ c.todo = call[s].todo
  BY <1>1, <1>3, StateIs, GotoIs DEF Ats
<1>5. Formed(c)
  BY <1>1, <1>2, <1>3, <1>4, StateIs DEF Formed, Writing
<1>6. c.op = "save" => c.ver = Absent
  BY <1>1, <1>4, StateIs DEF Formed, Writing
<1>7. c.at # "compose" /\ ~Dropped(c) /\ (c.op = "summary" => c.at # "lock_lead")
      /\ (c.op = "resolve" => c.at # "lock_dm")
  BY <1>3, <1>4 DEF Dropped
<1>8. dirs' \subseteq Agents /\ registry' \subseteq Agents
  BY <1>1, StateIs
<1> QED
  BY <1>1, <1>4, <1>5, <1>6, <1>7, <1>8, GoesOn DEF Saved

(* A call that fails: a summary goes on with the error, the others end.     *)
LEMMA FailsKeeps ==
    ASSUME BrainInv, NEW s \in Slots, Fails(s)
    PROVE  BrainInv'
<1> USE DEF fileVars, cacheVars, lockVars
<1>1. /\ call[s].op \notin {"broadcast", "resolve"} /\ call[s].at \in {"compose", "load", "write"}
      /\ IF call[s].op = "summary" THEN Goto(s, "infer") ELSE End(s)
      /\ UNCHANGED <<disk, dirs, house, written, registry, prompt, dm, leadMu, dmAgentsMu, met, kept, failed, count>>
  BY DEF Fails, Unreadable, Unwritable
<1>2. dirs' \subseteq Agents /\ registry' \subseteq Agents /\ met' \subseteq Agents
  BY <1>1, StateIs
<1>3. CASE call[s].op = "summary"
  <2>1. PICK c \in Calls :
           /\ call' = [call EXCEPT ![s] = c] /\ c.at = "infer" /\ c.op = "summary" /\ c.todo = call[s].todo
    <3>1. "infer" \in Ats
      BY DEF Ats
    <3> QED
      BY <1>1, <1>3, <3>1, StateIs, GotoIs
  <2>2. call[s].at = "write"
    BY <1>1, <1>3, StateIs DEF Formed, Writing
  <2>3. Formed(c) /\ ~Saved(c) /\ ~Dropped(c)
    BY <2>1, <2>2, StateIs DEF Formed, Writing, Saved, Dropped
  <2> QED
    BY <1>1, <1>2, <1>3, <2>1, <2>2, <2>3, GoesOn
<1>4. CASE call[s].op # "summary"
  <2>1. End(s) /\ ~HoldsLead(call[s]) /\ ~HoldsDM(call[s])
    BY <1>1, <1>4 DEF HoldsLead, HoldsDM
  <2> QED
    BY <1>1, <1>2, <2>1, EndsFree
<1> QED
  BY <1>3, <1>4

LEMMA PanelKeeps ==
    ASSUME BrainInv, NEW s \in Slots, PanelEnsured(s) \/ Get(s) \/ Store(s)
    PROVE  BrainInv'
<1> USE DEF fileVars, cacheVars, lockVars
<1>1. /\ call[s].op = "panel" /\ call[s].at # "compose" /\ met' \subseteq Agents
      /\ UNCHANGED <<disk, dirs, house, written, prompt, dm, leadMu, dmAgentsMu, met, kept, failed, count>>
  BY StateIs DEF PanelEnsured, Get, Store, At, Formed, Writing, Ensured
<1>2. dirs' \subseteq Agents /\ registry' \subseteq Agents
  <2>1. call[s].agent \in Agents
    BY <1>1, StateIs DEF Formed
  <2> QED
    BY <1>1, <2>1, StateIs DEF PanelEnsured, Get, Store
<1>3. CASE End(s)
  BY <1>1, <1>2, <1>3, EndsFree DEF HoldsLead, HoldsDM
<1>4. ASSUME NEW c \in Calls, call' = [call EXCEPT ![s] = c], c.op = "panel", c.at \in {"get", "load"},
             c.agent = call[s].agent, c.todo \in Seq(Brain)
      PROVE  BrainInv'
  <2>1. Formed(c) /\ ~Saved(c) /\ ~Dropped(c)
    BY <1>1, <1>4, StateIs DEF Formed, Writing, Saved, Dropped
  <2> QED
    BY <1>1, <1>2, <1>4, <2>1, GoesOn
<1>5. CASE PanelEnsured(s)
  <2>1. Goto(s, "get") /\ "get" \in Ats /\ call[s].todo \in Seq(Brain)
    BY <1>1, <1>5, StateIs DEF PanelEnsured, Ats, Formed
  <2> QED
    BY <1>1, <1>4, <2>1, StateIs, GotoIs
<1>6. CASE ReadNext(s, "load", BrainFiles)
  <2>1. "load" \in Ats
    BY DEF Ats
  <2> QED
    BY <1>1, <1>4, <1>6, <2>1, FileSeqs, StateIs, ReadNextIs
<1> QED
  BY <1>3, <1>5, <1>6 DEF Get, Store

LEMMA SaveMovesKeeps ==
    ASSUME BrainInv, NEW s \in Slots,
           SaveInvalidates(s) \/ (EmitBrainUpdate(s) /\ call[s].op # "save")
    PROVE  BrainInv'
<1> USE DEF fileVars, cacheVars, lockVars
<1>1. /\ UNCHANGED <<disk, dirs, house, written, prompt, dm, leadMu, dmAgentsMu, met, kept, failed, count>>
      /\ registry' = registry \ {call[s].agent}
  BY DEF SaveInvalidates, EmitBrainUpdate, Invalidate
<1>2. dirs' \subseteq Agents /\ registry' \subseteq Agents /\ met' \subseteq Agents
  BY <1>1, StateIs
<1>3. CASE SaveInvalidates(s)
  <2>1. Goto(s, "drop") /\ call[s].op = "save" /\ call[s].at = "invalidate" /\ "drop" \in Ats
    BY <1>3 DEF SaveInvalidates, At, Ats
  <2>2. PICK c \in Calls :
           /\ call' = [call EXCEPT ![s] = c] /\ c.at = "drop" /\ c.op = "save"
           /\ c.agent = call[s].agent /\ c.file = call[s].file /\ c.ver = call[s].ver /\ c.todo = call[s].todo
    BY <2>1, StateIs, GotoIs
  <2>3. Formed(c) /\ ~Dropped(c) /\ Saved(call[s])
    BY <2>1, <2>2, StateIs DEF Formed, Writing, Dropped, Saved
  <2> QED
    BY <1>1, <1>2, <2>1, <2>2, <2>3, GoesOn
<1>4. CASE EmitBrainUpdate(s) /\ call[s].op # "save"
  <2>1. /\ call[s].at = "emit"
        /\ IF call[s].op = "summary" THEN Goto(s, "infer") ELSE End(s)
    BY <1>4 DEF EmitBrainUpdate
  <2>2. call[s].op \in {"update_self", "summary"}
    BY <1>4, <2>1, StateIs DEF Formed, Writing, Calls, Ops
  <2>3. CASE call[s].op = "summary"
    <3>1. Goto(s, "infer") /\ "infer" \in Ats
      BY <2>1, <2>3 DEF Ats
    <3>2. PICK c \in Calls :
             /\ call' = [call EXCEPT ![s] = c] /\ c.at = "infer" /\ c.op = "summary" /\ c.todo = call[s].todo
      BY <2>3, <3>1, StateIs, GotoIs
    <3>3. Formed(c) /\ ~Saved(c) /\ ~Dropped(c)
      BY <2>1, <3>2, StateIs DEF Formed, Writing, Saved, Dropped
    <3> QED
      BY <1>1, <1>2, <2>1, <2>3, <3>2, <3>3, GoesOn
  <2>4. CASE call[s].op = "update_self"
    BY <1>1, <1>2, <2>1, <2>4, EndsFree DEF HoldsLead, HoldsDM
  <2> QED
    BY <2>2, <2>3, <2>4
<1> QED
  BY <1>3, <1>4

LEMMA SummaryKeeps ==
    ASSUME BrainInv, NEW s \in Slots, SummaryLocks(s) \/ SummaryWrites(s) \/ SummaryEnds(s)
    PROVE  BrainInv'
<1> USE DEF fileVars, cacheVars, lockVars
<1>1. /\ call[s].op = "summary"
      /\ UNCHANGED <<disk, dirs, house, written, registry, prompt, dm, dmAgentsMu, met, kept, failed, count>>
  BY DEF SummaryLocks, SummaryWrites, SummaryEnds, At
<1>2. dirs' \subseteq Agents /\ registry' \subseteq Agents /\ met' \subseteq Agents /\ count' \in 0..MaxCalls
  BY <1>1 DEF BrainInv, StateOK
<1>3. ~HoldsDM(call[s]) /\ ~Pending(call[s]) /\ call[s].op # "broadcast"
  BY <1>1 DEF HoldsDM, Pending
<1>4. CASE SummaryLocks(s)
  <2>1. leadMu = None /\ leadMu' = s /\ Goto(s, "infer") /\ call[s].at = "lock_lead" /\ "infer" \in Ats
    BY <1>4 DEF SummaryLocks, At, Ats
  <2>2. PICK c \in Calls :
           /\ call' = [call EXCEPT ![s] = c] /\ c.at = "infer" /\ c.op = "summary" /\ c.todo = call[s].todo
    BY <1>1, <2>1, StateIs, GotoIs
  <2>3. Formed(c) /\ HoldsLead(c) /\ ~HoldsDM(c) /\ ~Saved(c) /\ ~Dropped(c)
    BY <2>1, <2>2, StateIs DEF Formed, Writing, Saved, Dropped, HoldsLead, HoldsDM
  <2>4. LocksOK'
    BY <1>1, <1>3, <2>1, <2>2, <2>3, LocksMove
  <2>5. Stays(call[s], c)
    BY <1>3, <2>2, <2>3 DEF Stays
  <2> QED
    BY <1>1, <1>2, <2>2, <2>3, <2>4, <2>5, QuietCall
<1>5. CASE SummaryWrites(s)
  <2>1. PICK a \in Agents, f \in Brain : call' = [call EXCEPT ![s] = Call("summary", "write", a, f)]
    BY <1>5, StateIs DEF SummaryWrites
  <2>2. call[s].at = "infer" /\ leadMu' = leadMu
    BY <1>5 DEF SummaryWrites, At
  <2> DEFINE c == Call("summary", "write", a, f)
  <2>3. c \in Calls /\ c.op = "summary" /\ c.at = "write" /\ c.agent = a /\ c.file = f /\ c.todo = <<>>
    BY BlankCall DEF Ops, Ats, Files
  <2> HIDE DEF c
  <2>4. <<>> \in Seq(Brain)
    OBVIOUS
  <2>5. Formed(c) /\ ~Saved(c) /\ ~Dropped(c)
    BY <2>3, <2>4 DEF Formed, Writing, Saved, Dropped
  <2>6. call' = [call EXCEPT ![s] = c]
    BY <2>1 DEF c
  <2> QED
    BY <1>1, <1>2, <2>2, <2>3, <2>5, <2>6, GoesOn
<1>6. CASE SummaryEnds(s)
  <2>1. leadMu' = None /\ End(s) /\ call[s].at = "infer"
    BY <1>6 DEF SummaryEnds, At
  <2>2. HoldsLead(call[s]) /\ call' = [call EXCEPT ![s] = NoCall]
    BY <1>1, <2>1 DEF HoldsLead, End
  <2>3. LocksOK'
    BY <1>1, <1>3, <2>1, <2>2, Blank, LocksMove
  <2>4. Stays(call[s], NoCall)
    BY <1>3, Blank DEF Stays
  <2> QED
    BY <1>1, <1>2, <2>2, <2>3, <2>4, Blank, QuietCall
<1> QED
  BY <1>4, <1>5, <1>6

LEMMA ReflectKeeps ==
    ASSUME BrainInv, NEW s \in Slots, Reflected(s) \/ Rewrite(s)
    PROVE  BrainInv'
<1> USE DEF fileVars, cacheVars, lockVars
<1>1. /\ call[s].op = "reflect" /\ call[s].at \in {"load", "rewrite"}
      /\ UNCHANGED <<disk, dirs, house, written, registry, prompt, dm, leadMu, dmAgentsMu, met, kept, failed, count>>
  BY DEF Reflected, Rewrite, At
<1>2. /\ dirs' \subseteq Agents /\ registry' \subseteq Agents /\ met' \subseteq Agents
      /\ call[s].agent \in Agents /\ call[s].todo \in Seq(Brain)
  BY <1>1, StateIs DEF Formed
<1>3. ASSUME NEW c \in Calls, call' = [call EXCEPT ![s] = c], c.op = "reflect",
             c.at \in {"rewrite", "write"}, c.agent = call[s].agent,
             c.todo \in Seq(Brain), c.at = "write" => c.file \in Brain
      PROVE  BrainInv'
  <2>1. Formed(c) /\ ~Saved(c) /\ ~Dropped(c)
    BY <1>2, <1>3 DEF Formed, Writing, Saved, Dropped
  <2> QED
    BY <1>1, <1>2, <1>3, <2>1, GoesOn
<1>4. CASE Reflected(s)
  <2>1. PICK q \in {<<>>, <<"soul">>, <<"persona">>, <<"soul", "persona">>} : ReadNext(s, "rewrite", q)
    BY <1>4 DEF Reflected
  <2>2. q \in Seq(Brain) /\ q \in Seq(Files)
    BY <2>1, SoulPersona, BrainSeqs
  <2>3. PICK c \in Calls :
              /\ call' = [call EXCEPT ![s] = c] /\ c.at = "rewrite" /\ c.op = "reflect"
              /\ c.agent = call[s].agent /\ c.todo = q
    <3>1. "rewrite" \in Ats
      BY DEF Ats
    <3> QED
      BY <1>1, <2>1, <2>2, <3>1, StateIs, ReadNextIs
  <2> QED
    BY <1>3, <2>2, <2>3
<1>5. CASE Rewrite(s)
  <2>1. CASE call[s].todo = <<>>
    BY <1>1, <1>2, <1>5, <2>1, EndsFree DEF Rewrite, HoldsLead, HoldsDM
  <2>2. CASE call[s].todo # <<>>
    <3> DEFINE h == Head(call[s].todo)
               rest == Tail(call[s].todo)
               c == [call[s] EXCEPT !.at = "write", !.file = h, !.todo = rest]
    <3>1. h \in Brain /\ rest \in Seq(Brain) /\ rest \in Seq(Files)
      BY <1>2, <2>2, BrainSeqs
    <3>2. call' = [call EXCEPT ![s].at = "write", ![s].file = h, ![s].todo = rest]
      BY <1>5, <2>2 DEF Rewrite
    <3>3. call' = [call EXCEPT ![s] = c]
      BY <3>2
    <3> HIDE DEF h, rest
    <3>4. c \in Calls /\ c.op = "reflect" /\ c.at = "write" /\ c.agent = call[s].agent
          /\ c.todo = rest /\ c.file = h
      BY <1>1, <3>1, StateIs DEF Calls, Ats, Files
    <3> QED
      BY <1>3, <3>1, <3>3, <3>4
  <2> QED
    BY <2>1, <2>2
<1> QED
  BY <1>4, <1>5

(* A direct message finds its agent, or takes the lock to make it. *)
LEMMA FoundKeeps ==
    ASSUME BrainInv, NEW s \in Slots, Found(s) \/ NotFound(s)
    PROVE  BrainInv'
<1> USE DEF fileVars, cacheVars, lockVars
<1>1. /\ call[s].op = "resolve" /\ call[s].at = "lock_dm" /\ dmAgentsMu = None
      /\ UNCHANGED <<disk, dirs, house, written, registry, prompt, dm, leadMu, kept, failed, count>>
  BY DEF Found, NotFound, At
<1>2. /\ call[s].agent \in Agents /\ call[s].todo \in Seq(Brain) /\ met \subseteq Agents
      /\ dirs' \subseteq Agents /\ registry' \subseteq Agents /\ count' \in 0..MaxCalls
  BY <1>1 DEF BrainInv, StateOK, CallsOK, Formed
<1>3. ~HoldsLead(call[s]) /\ ~HoldsDM(call[s]) /\ ~Pending(call[s])
  BY <1>1 DEF HoldsLead, HoldsDM, Pending
<1>4. CASE Found(s)
  <2>1. End(s) /\ met' \subseteq Agents /\ UNCHANGED dmAgentsMu
    BY <1>2, <1>4 DEF Found
  <2> QED
    BY <1>1, <1>2, <1>3, <2>1, EndsFree
<1>5. CASE NotFound(s)
  <2>1. PICK at \in {"lock_lead", "mkdir"} :
           /\ Goto(s, at) /\ (at = "lock_lead" => call[s].agent = "lead")
           /\ dmAgentsMu' = s /\ met' = met
    BY <1>5 DEF NotFound
  <2>2. PICK c \in Calls :
           /\ call' = [call EXCEPT ![s] = c] /\ c.at = at /\ c.op = "resolve"
           /\ c.agent = call[s].agent /\ c.todo = call[s].todo
    BY <1>1, <2>1, StateIs, GotoIs DEF Ats
  <2>3. Formed(c) /\ HoldsDM(c) /\ ~HoldsLead(c) /\ ~Saved(c) /\ ~Dropped(c) /\ c.at # "compose"
    BY <1>2, <2>1, <2>2 DEF Formed, Writing, HoldsDM, HoldsLead, Saved, Dropped
  <2>4. LocksOK'
    BY <1>1, <1>3, <2>1, <2>2, <2>3, LocksMove
  <2>5. Stays(call[s], c)
    BY <1>1, <1>3, <2>3 DEF Stays
  <2> QED
    BY <1>1, <1>2, <2>1, <2>2, <2>3, <2>4, <2>5, QuietCall
<1> QED
  BY <1>4, <1>5

-----------------------------------------------------------------------------
(* A reset deletes files, some of them open.                                *)

LEMMA ResetKeeps ==
    ASSUME BrainInv, NEW s \in Slots, RemoveAgents(s) \/ RemoveCompany(s)
    PROVE  BrainInv'
<1> USE DEF fileVars, cacheVars, lockVars
<1>1. /\ call[s].op = "reset" /\ UNCHANGED <<written, registry, prompt, dm, leadMu, dmAgentsMu, met, kept, failed, count>>
  BY DEF RemoveAgents, RemoveCompany, At
<1>2. /\ disk' \in [Agents -> [Brain -> Versions]] /\ dirs' \subseteq Agents /\ house' \in [House -> Versions]
      /\ \A a \in Agents, f \in Brain : disk'[a][f] \in {disk[a][f], Absent}
      /\ \A f \in House : house'[f] \in {house[f], Absent}
  <2>1. disk \in [Agents -> [Brain -> Versions]] /\ dirs \subseteq Agents /\ house \in [House -> Versions]
    BY DEF BrainInv, StateOK
  <2>2. CASE RemoveAgents(s)
    BY <2>1, <2>2, VersionsAre DEF RemoveAgents
  <2>3. CASE RemoveCompany(s)
    BY <2>1, <2>3, VersionsAre DEF RemoveCompany
  <2> QED
    BY <2>2, <2>3
<1>3. StateOK'
  BY <1>1, <1>2 DEF BrainInv, StateOK
<1>4. PICK d, files : /\ d = [call[s] EXCEPT !.at = "company"] \/ d = NoCall
                      /\ call' = [t \in Slots |->
                                    IF t = s THEN d
                                    ELSE IF call[t].at = "fill" /\ call[t].file \in files
                                      THEN [call[t] EXCEPT !.at = "unlinked"] ELSE call[t]]
  <2> DEFINE Out(d, files) == [t \in Slots |->
                                 IF t = s THEN d
                                 ELSE IF call[t].at = "fill" /\ call[t].file \in files
                                   THEN [call[t] EXCEPT !.at = "unlinked"] ELSE call[t]]
  <2>1. RemoveAgents(s) => call' = Out([call[s] EXCEPT !.at = "company"], Brain)
    BY DEF RemoveAgents, Unlinks
  <2>2. RemoveCompany(s) => call' = Out(NoCall, {"company"})
    BY DEF RemoveCompany, Unlinks
  <2>3. \E d, files : /\ d = [call[s] EXCEPT !.at = "company"] \/ d = NoCall
                     /\ call' = Out(d, files)
    <3>1. CASE RemoveAgents(s)
      <4> WITNESS [call[s] EXCEPT !.at = "company"], Brain
      <4> QED
        BY <2>1, <3>1
    <3>2. CASE RemoveCompany(s)
      <4> WITNESS NoCall, {"company"}
      <4> QED
        BY <2>2, <3>2
    <3> QED
      BY <3>1, <3>2
  <2> QED
    BY <2>3
<1>5. d \in Calls /\ Formed(d) /\ d.op \in {"reset", "none"} /\ d.at # "compose"
  <2>1. CASE d = NoCall
    BY <2>1, Blank
  <2>2. CASE d = [call[s] EXCEPT !.at = "company"]
    <3>1. call[s].todo \in Seq(Brain)
      BY <1>1, StateIs DEF Formed
    <3>2. d \in Calls /\ d.op = "reset" /\ d.at = "company" /\ d.todo = call[s].todo
      BY <1>1, <2>2, StateIs DEF Calls, Ats
    <3> QED
      BY <3>1, <3>2 DEF Formed, Writing
  <2> QED
    BY <1>4, <2>1, <2>2
<1>6. ASSUME NEW t \in Slots \ {s}
      PROVE  \/ call'[t] = call[t]
             \/ /\ call[t].at = "fill" /\ call'[t] \in Calls /\ call'[t].at = "unlinked" /\ call'[t].op = call[t].op
                /\ call'[t].agent = call[t].agent /\ call'[t].file = call[t].file
                /\ call'[t].ver = call[t].ver /\ call'[t].todo = call[t].todo
  <2>1. call[t] \in Calls
    BY StateIs
  <2>2. CASE call[t].at = "fill" /\ call[t].file \in files
    <3>1. call'[t] = [call[t] EXCEPT !.at = "unlinked"]
      BY <1>4, <2>2
    <3> QED
      BY <2>1, <2>2, <3>1 DEF Calls, Ats
  <2>3. CASE ~(call[t].at = "fill" /\ call[t].file \in files)
    BY <1>4, <2>3
  <2> QED
    BY <2>2, <2>3
<1>7. ASSUME NEW t \in Slots
      PROVE  /\ call'[t] \in Calls /\ Formed(call'[t]) /\ Stays(call[t], call'[t])
             /\ HoldsLead(call'[t]) <=> HoldsLead(call[t])
             /\ HoldsDM(call'[t]) <=> HoldsDM(call[t])
  <2>1. CASE t = s
    <3>1. call'[t] = d
      BY <1>4, <2>1
    <3> QED
      BY <1>1, <1>5, <2>1, <3>1 DEF Stays, Pending, Saved, Dropped, HoldsLead, HoldsDM
  <2>2. CASE t # s /\ call'[t] = call[t]
    BY <2>2, StateIs DEF Stays
  <2>3. CASE t # s /\ call'[t] # call[t]
    <3>1. /\ call[t].at = "fill" /\ call'[t] \in Calls /\ call'[t].at = "unlinked" /\ call'[t].op = call[t].op
          /\ call'[t].agent = call[t].agent /\ call'[t].file = call[t].file
          /\ call'[t].ver = call[t].ver /\ call'[t].todo = call[t].todo
      BY <1>6, <2>3
    <3>2. Formed(call'[t])
      BY <3>1, StateIs DEF Formed, Writing
    <3> QED
      BY <3>1, <3>2 DEF Stays, Pending, Saved, Dropped, HoldsLead, HoldsDM
  <2> QED
    BY <2>1, <2>2, <2>3
<1>8. CallsOK'
  <2>1. call' = [t \in Slots |-> call'[t]]
    BY <1>4
  <2> QED
    BY <1>7, <2>1 DEF CallsOK
<1>9. LocksOK'
  BY <1>1, <1>7 DEF BrainInv, LocksOK
<1> QED
  BY <1>1, <1>2, <1>3, <1>7, <1>8, <1>9, Quiet

-----------------------------------------------------------------------------
(* Composing: the files are read one at a time, under a lock.               *)

(* The file on disk covers every save. *)
LEMMA DiskCovers ==
    ASSUME BrainInv, NEW a \in Agents, NEW f \in Brain
    PROVE  Covers(disk[a][f], a, f)
BY DEF BrainInv, DiskOK, Covers, Saved, Dropped

LEMMA ComposeKeeps ==
    ASSUME BrainInv, NEW s \in Slots, NEW c \in Calls, Formed(c),
           call' = [call EXCEPT ![s] = c], c.at = "compose",
           c.op \in {"broadcast", "resolve"}, call[s].op = c.op,
           UNCHANGED <<disk, dirs, house, written, registry, prompt, dm, met, kept, failed, count>>, LocksOK',
           c.op = "broadcast" =>
              \A f \in House : InTodo(c, f) \/ house[f] \in {Absent, c.seen[f]}
                               \/ \E t \in Slots \ {s} : Pending(call[t]),
           c.op = "resolve" =>
              \A f \in Brain : InTodo(c, f) \/ Covers(c.seen[f], c.agent, f)
    PROVE  BrainInv'
<1>1. call'[s] = c /\ \A t \in Slots \ {s} : call'[t] = call[t]
  BY DEF BrainInv, CallsOK
<1>2. StateOK'
  BY DEF BrainInv, StateOK
<1>3. CallsOK'
  BY <1>1 DEF BrainInv, CallsOK
<1>4. HouseOK'
  <2>1. ASSUME NEW t \in Slots, call'[t].op = "broadcast", call'[t].at = "compose", NEW f \in House
        PROVE  \/ InTodo(call'[t], f)
               \/ house[f] \in {Absent, call'[t].seen[f]}
               \/ \E u \in Slots : Pending(call'[u])
    <3>1. CASE t = s
      BY <1>1, <2>1, <3>1
    <3>2. CASE t # s
      <4>1. call'[t] = call[t]
        BY <1>1, <3>2
      <4>2. HoldsLead(call'[t]) /\ leadMu' = t
        BY <2>1 DEF HoldsLead, LocksOK
      <4>3. c.op # "broadcast"
        BY <1>1, <3>2, <4>2 DEF HoldsLead, LocksOK
      <4>4. ~Pending(call[s])
        BY <4>3 DEF Pending
      <4> QED
        BY <1>1, <2>1, <4>1, <4>4 DEF BrainInv, HouseOK
    <3> QED
      BY <3>1, <3>2
  <2>2. HouseReachesLead'
    <3>1. (\A t \in Slots : call'[t].op # "broadcast") => \A t \in Slots : call[t].op # "broadcast"
      BY <1>1
    <3> QED
      BY <3>1 DEF BrainInv, HouseOK, HouseReachesLead
  <2> QED
    BY <2>1, <2>2 DEF HouseOK
<1>5. DiskOK'
  <2>1. \A t \in Slots : Saved(call'[t]) => call'[t] = call[t]
    BY <1>1 DEF Saved
  <2> QED
    BY <2>1 DEF BrainInv, DiskOK
<1>6. PromptOK'
  <2>1. \A t \in Slots : Dropped(call'[t]) => call'[t] = call[t]
    BY <1>1 DEF Dropped
  <2>2. ASSUME NEW a \in Agents \ {"lead"}, dm'[a] # NoEntry, NEW f \in Brain
        PROVE  Covers(dm[a][f], a, f)'
    BY <2>1, <2>2 DEF BrainInv, PromptOK, Covers
  <2>3. ASSUME NEW t \in Slots, call'[t].op = "resolve", call'[t].at = "compose", NEW f \in Brain
        PROVE  InTodo(call'[t], f) \/ Covers(call[t].seen[f], call[t].agent, f)'
    <3>1. InTodo(call'[t], f) \/ Covers(call'[t].seen[f], call'[t].agent, f)
      <4>1. CASE t = s
        BY <1>1, <2>3, <4>1
      <4>2. CASE t # s
        <5>1. call'[t] = call[t]
          BY <1>1, <4>2
        <5> QED
          BY <2>3, <5>1 DEF BrainInv, PromptOK
      <4> QED
        BY <4>1, <4>2
    <3> QED
      BY <2>1, <3>1 DEF Covers
  <2> QED
    BY <2>2, <2>3 DEF PromptOK
<1> QED
  BY <1>2, <1>3, <1>4, <1>5, <1>6 DEF BrainInv

LEMMA AllTodo ==
    ASSUME NEW c, c.todo = HouseFiles \o BrainFiles, NEW f \in Files
    PROVE  InTodo(c, f)
<1>1. HouseFiles \in Seq(Files) /\ BrainFiles \in Seq(Files)
  BY FileSeqs, BrainAssumption DEF House, Files
<1>2. CASE f \in House
  <2>1. PICK i \in DOMAIN HouseFiles : HouseFiles[i] = f
    BY <1>2 DEF House, ToSet
  <2>2. i \in 1..Len(c.todo) /\ c.todo[i] = f
    BY <1>1, <2>1
  <2> QED
    BY <2>2 DEF InTodo
<1>3. CASE f \in Brain
  <2>1. PICK i \in DOMAIN BrainFiles : BrainFiles[i] = f
    BY <1>3 DEF Brain, ToSet
  <2>2. Len(HouseFiles) + i \in 1..Len(c.todo) /\ c.todo[Len(HouseFiles) + i] = f
    BY <1>1, <2>1
  <2> QED
    BY <2>2 DEF InTodo
<1> QED
  BY <1>2, <1>3 DEF Files

(* A broadcast takes the Lead's lock, or an agent is made for a direct      *)
(* message: all files are still to be read.                                *)
LEMMA StartComposing ==
    ASSUME BrainInv, NEW s \in Slots, BroadcastLocks(s) \/ Spawn(s)
    PROVE  BrainInv'
<1> USE DEF fileVars, cacheVars, lockVars
<1>1. /\ call[s].op \in {"broadcast", "resolve"} /\ ReadNext(s, "compose", HouseFiles \o BrainFiles)
      /\ call[s].op = "broadcast" => leadMu = None /\ leadMu' = s /\ dmAgentsMu' = dmAgentsMu
      /\ call[s].op = "resolve" => call[s].at = "ensure" /\ leadMu' = leadMu /\ dmAgentsMu' = dmAgentsMu
      /\ UNCHANGED <<disk, dirs, house, written, registry, prompt, dm, met, kept, failed, count>>
  BY DEF BroadcastLocks, TakeLead, Spawn, Ensured, At
<1>2. PICK c \in Calls :
              /\ call' = [call EXCEPT ![s] = c] /\ c.at = "compose" /\ c.op = call[s].op
              /\ c.agent = call[s].agent /\ c.file = call[s].file
              /\ c.todo = HouseFiles \o BrainFiles
  <2> DEFINE all == HouseFiles \o BrainFiles
  <2>1. "compose" \in Ats
    BY DEF Ats
  <2>2. ReadNext(s, "compose", all) /\ all \in Seq(Files)
    BY <1>1, FileSeqs
  <2> HIDE DEF all
  <2>3. \E c \in Calls :
              /\ call' = [call EXCEPT ![s] = c] /\ c.at = "compose" /\ c.op = call[s].op
              /\ c.agent = call[s].agent /\ c.file = call[s].file /\ c.ver = call[s].ver
              /\ c.todo = all /\ c.seen = call[s].seen
    BY <2>1, <2>2, StateIs, ReadNextIs
  <2> QED
    BY <2>3 DEF all
<1>3. Formed(c)
  BY <1>1, <1>2, StateIs DEF Formed, Writing
<1>4. LocksOK'
  <2>1. CASE call[s].op = "broadcast"
    BY <1>1, <1>2, <2>1, LocksMove DEF HoldsLead, HoldsDM
  <2>2. CASE call[s].op = "resolve"
    BY <1>1, <1>2, <2>2, LocksMove DEF HoldsLead, HoldsDM
  <2> QED
    BY <1>1, <2>1, <2>2
<1>5. \A f \in Files : InTodo(c, f)
  BY <1>2, AllTodo
<1> QED
  BY <1>1, <1>2, <1>3, <1>4, <1>5, ComposeKeeps DEF Files

(* The next file is read. *)
LEMMA ReadFileKeeps ==
    ASSUME BrainInv, NEW s \in Slots, ReadFile(s)
    PROVE  BrainInv'
<1> USE DEF fileVars, cacheVars, lockVars
<1> DEFINE q == call[s].todo
           f == Head(q)
           v == IF f \in House THEN house[f] ELSE disk[call[s].agent][f]
           seen == IF call[s].at = "compose" THEN [call[s].seen EXCEPT ![f] = v] ELSE call[s].seen
           c == [call[s] EXCEPT !.todo = Tail(q), !.seen = seen]
<1>1. /\ call[s].at \in {"compose", "load"} /\ q # <<>>
      /\ UNCHANGED <<disk, dirs, house, written, registry, prompt, dm, leadMu, dmAgentsMu, met, kept, failed, count>>
  BY DEF ReadFile
<1>2. call' = [call EXCEPT ![s] = c]
  <2>1. call' = [call EXCEPT ![s].todo = Tail(q), ![s].seen = IF call[s].at = "compose"
                                                               THEN [@ EXCEPT ![f] = v] ELSE @]
    BY DEF ReadFile
  <2> QED
    BY <2>1
<1>3. q \in Seq(Files) /\ (call[s].at = "load" => q \in Seq(Brain))
  BY StateIs DEF Calls, Formed
<1>4. f \in Files /\ Tail(q) \in Seq(Files) /\ (call[s].at = "load" => Tail(q) \in Seq(Brain))
  BY <1>1, <1>3
<1>5. call[s].agent \in Agents /\ call[s].op \in {"panel", "reflect", "broadcast", "resolve"}
  BY <1>1, StateIs DEF Formed, Writing, Calls, Ops
<1>6. v \in Versions
  <2>1. disk \in [Agents -> [Brain -> Versions]] /\ house \in [House -> Versions]
    BY StateIs DEF StateOK
  <2> QED
    BY <1>4, <1>5, <2>1 DEF Files
<1> HIDE DEF f, v
<1>7. seen \in Prompts
  <2>1. call[s].seen \in Prompts
    BY StateIs DEF Calls
  <2> QED
    BY <1>4, <1>6, <2>1 DEF Prompts, Files
<1> HIDE DEF seen
<1>8. /\ c \in Calls /\ c.at = call[s].at /\ c.op = call[s].op /\ c.agent = call[s].agent
      /\ c.file = call[s].file /\ c.ver = call[s].ver /\ c.todo = Tail(q) /\ c.seen = seen
  BY <1>4, <1>7, StateIs DEF Calls
<1> HIDE DEF c
<1>9. Formed(c)
  BY <1>1, <1>4, <1>8, StateIs DEF Formed, Writing
<1>10. CASE call[s].at = "load"
  <2>1. call[s].op \in {"panel", "reflect"}
    BY <1>5, <1>10, StateIs DEF Formed, Writing
  <2>2. ~Saved(c) /\ ~Dropped(c)
    BY <1>8, <2>1 DEF Saved, Dropped
  <2>3. dirs' \subseteq Agents /\ registry' \subseteq Agents
    BY <1>1, StateIs
  <2> QED
    BY <1>1, <1>2, <1>8, <1>9, <1>10, <2>1, <2>2, <2>3, GoesOn
<1>11. CASE call[s].at = "compose"
  <2>1. call[s].op \in {"broadcast", "resolve"}
    BY <1>5, <1>11, StateIs DEF Formed, Writing
  <2>2. LocksOK'
    <3>1. (HoldsLead(c) <=> HoldsLead(call[s])) /\ (HoldsDM(c) <=> HoldsDM(call[s]))
      BY <1>8 DEF HoldsLead, HoldsDM
    <3> QED
      BY <1>1, <1>2, <3>1, LocksMove
  <2>3. \A g : InTodo(call[s], g) /\ g # f => InTodo(c, g)
    <3> SUFFICES ASSUME NEW g, InTodo(call[s], g), g # f PROVE InTodo(c, g)
      OBVIOUS
    <3>1. \E i \in 1..Len(q) : q[i] = g
      BY DEF InTodo
    <3>2. \E i \in 1..Len(Tail(q)) : Tail(q)[i] = g
      BY <1>1, <1>3, <3>1, TodoShrinks DEF f
    <3> QED
      BY <1>8, <3>2 DEF InTodo
  <2>4. c.seen[f] = v /\ \A g \in Files : g # f => c.seen[g] = call[s].seen[g]
    <3>1. call[s].seen \in [Files -> Versions] /\ c.seen = [call[s].seen EXCEPT ![f] = v]
      BY <1>8, <1>11, StateIs DEF Calls, Prompts, Files, seen
    <3> QED
      BY <1>4, <3>1
  <2>5. ASSUME c.op = "broadcast", NEW g \in House
        PROVE  InTodo(c, g) \/ house[g] \in {Absent, c.seen[g]} \/ \E t \in Slots \ {s} : Pending(call[t])
    <3>1. CASE g = f
      BY <2>4, <3>1 DEF v
    <3>2. CASE g # f
      <4>1. \/ InTodo(call[s], g)
            \/ house[g] \in {Absent, call[s].seen[g]}
            \/ \E t \in Slots : Pending(call[t])
        BY <1>8, <1>11, <2>5 DEF BrainInv, HouseOK
      <4>2. ~Pending(call[s]) /\ g \in Files
        BY <1>11 DEF Pending, Files
      <4> QED
        BY <2>3, <2>4, <3>2, <4>1, <4>2
    <3> QED
      BY <3>1, <3>2
  <2>6. ASSUME c.op = "resolve", NEW g \in Brain
        PROVE  InTodo(c, g) \/ Covers(c.seen[g], c.agent, g)
    <3>1. CASE g = f
      <4>1. c.seen[g] = disk[c.agent][g]
        BY <1>8, <2>4, <3>1, Apart DEF v
      <4> QED
        BY <1>5, <1>8, <4>1, DiskCovers
    <3>2. CASE g # f
      <4>1. InTodo(call[s], g) \/ Covers(call[s].seen[g], call[s].agent, g)
        BY <1>8, <1>11, <2>6 DEF BrainInv, PromptOK
      <4> QED
        BY <1>8, <2>3, <2>4, <3>2, <4>1 DEF Files
    <3> QED
      BY <3>1, <3>2
  <2> QED
    BY <1>1, <1>2, <1>8, <1>9, <1>11, <2>1, <2>2, <2>5, <2>6, ComposeKeeps
<1> QED
  BY <1>1, <1>10, <1>11

(* The call of a slot is over. *)
LEMMA Ended ==
    ASSUME CallsOK, NEW s \in Slots, End(s)
    PROVE  /\ CallsOK' /\ call' = [call EXCEPT ![s] = NoCall]
           /\ call'[s] = NoCall /\ \A t \in Slots \ {s} : call'[t] = call[t]
BY Blank DEF CallsOK, End

(* The Lead's new prompt is in use, or could not be composed. *)
LEMMA BroadcastEndsKeeps ==
    ASSUME BrainInv, NEW s \in Slots, CultureUpdate(s) \/ CannotUpdate(s)
    PROVE  BrainInv'
<1> USE DEF fileVars, cacheVars, lockVars
<1>1. /\ call[s].op = "broadcast" /\ leadMu' = None /\ End(s)
      /\ \/ /\ call[s].at = "compose" /\ call[s].todo = <<>>
            /\ prompt' = call[s].seen /\ failed' = FALSE
         \/ prompt' = prompt /\ failed' = TRUE
      /\ UNCHANGED <<disk, dirs, house, written, registry, kept, dm, met, dmAgentsMu, count>>
  BY DEF CultureUpdate, CannotUpdate, At
<1>2. call[s].at = "compose"
  <2>1. CASE CultureUpdate(s)
    BY <2>1 DEF CultureUpdate, At
  <2>2. CASE CannotUpdate(s)
    BY <1>1, <2>2, StateIs DEF CannotUpdate, Unreadable, Formed, Writing
  <2> QED
    BY <2>1, <2>2
<1>3. /\ CallsOK' /\ call' = [call EXCEPT ![s] = NoCall]
      /\ call'[s] = NoCall /\ \A t \in Slots \ {s} : call'[t] = call[t]
  BY <1>1, StateIs, Ended
<1>4. HoldsLead(call[s]) /\ ~HoldsDM(call[s])
  BY <1>1, <1>2 DEF HoldsLead, HoldsDM
<1>5. LocksOK'
  BY <1>1, <1>3, <1>4, Blank, LocksMove
<1>6. StateOK'
  <2>1. call[s].seen \in Prompts /\ StateOK
    BY StateIs DEF Calls
  <2> QED
    BY <1>1, <2>1 DEF StateOK
<1>7. HouseOK'
  <2>1. \A t \in Slots : ~(call'[t].op = "broadcast" /\ call'[t].at = "compose")
    <3>1. \A t \in Slots : ~HoldsLead(call'[t])
      BY <1>1, <1>5, BrainAssumption DEF LocksOK
    <3> QED
      BY <3>1 DEF HoldsLead
  <2>2. ASSUME \A t \in Slots : call'[t].op # "broadcast", ~failed', NEW f \in House
        PROVE  house'[f] \in {Absent, prompt'[f]}
    <3>1. \A t \in Slots : ~Pending(call[t])
      BY <1>2, <1>3, <2>2 DEF Pending
    <3>2. ~InTodo(call[s], f) /\ prompt' = call[s].seen
      BY <1>1, <2>2 DEF InTodo
    <3> QED
      BY <1>1, <1>2, <3>1, <3>2 DEF BrainInv, HouseOK
  <2> QED
    BY <2>1, <2>2 DEF HouseOK, HouseReachesLead
<1>8. DiskOK'
  BY <1>1, <1>3, Blank DEF BrainInv, DiskOK
<1>9. PromptOK'
  <2>1. /\ \A t \in Slots : Dropped(call'[t]) => call'[t] = call[t]
        /\ \A t \in Slots : call'[t].op = "resolve" => call'[t] = call[t]
    BY <1>3, Blank
  <2>2. ASSUME NEW a \in Agents \ {"lead"}, dm'[a] # NoEntry, NEW f \in Brain
        PROVE  Covers(dm[a][f], a, f)'
    BY <1>1, <2>1, <2>2 DEF BrainInv, PromptOK, Covers
  <2>3. ASSUME NEW t \in Slots, call'[t].op = "resolve", call'[t].at = "compose", NEW f \in Brain
        PROVE  InTodo(call'[t], f) \/ Covers(call[t].seen[f], call[t].agent, f)'
    BY <1>1, <2>1, <2>3 DEF BrainInv, PromptOK, Covers
  <2> QED
    BY <2>2, <2>3 DEF PromptOK
<1> QED
  BY <1>3, <1>5, <1>6, <1>7, <1>8, <1>9 DEF BrainInv

-----------------------------------------------------------------------------
(* The agents of direct messages: made, and dropped by a save.              *)

LEMMA MakeAgentKeeps ==
    ASSUME BrainInv, NEW s \in Slots, NEW p \in Prompts, MakeAgent(s, p), call[s].op = "resolve",
           HoldsDM(call[s]),
           UNCHANGED <<disk, dirs, house, written, registry, prompt, kept, leadMu, failed, count>>,
           call[s].agent # "lead" => \A f \in Brain : Covers(p[f], call[s].agent, f)
    PROVE  BrainInv'
<1> DEFINE a == call[s].agent
<1>1. /\ dm' = [dm EXCEPT ![a] = p] /\ met' = met \cup {a} /\ dmAgentsMu' = None /\ End(s)
      /\ CallsOK /\ StateOK
  BY DEF MakeAgent, BrainInv
<1>2. /\ CallsOK' /\ call' = [call EXCEPT ![s] = NoCall]
      /\ call'[s] = NoCall /\ \A t \in Slots \ {s} : call'[t] = call[t]
  BY <1>1, Ended
<1>3. a \in Agents
  BY StateIs DEF Formed
<1>4. StateOK'
  BY <1>1, <1>3 DEF StateOK
<1>5. LocksOK'
  <2>1. ~HoldsLead(call[s])
    BY DEF HoldsLead
  <2> QED
    BY <1>1, <1>2, <2>1, Blank, LocksMove
<1>6. HouseOK'
  <2>1. /\ \A t \in Slots : call'[t].op = "broadcast" => call'[t] = call[t]
        /\ \A t \in Slots : Pending(call[t]) => Pending(call'[t])
        /\ (\A t \in Slots : call'[t].op # "broadcast") => \A t \in Slots : call[t].op # "broadcast"
    BY <1>2, Blank DEF Pending
  <2> QED
    BY <2>1 DEF BrainInv, HouseOK, HouseReachesLead
<1>7. DiskOK'
  <2>1. \A t \in Slots : Saved(call'[t]) => call'[t] = call[t]
    BY <1>2, Blank
  <2> QED
    BY <2>1 DEF BrainInv, DiskOK
<1>8. PromptOK'
  <2>1. \A t \in Slots : ~(call'[t].op = "resolve" /\ call'[t].at = "compose")
    <3>1. \A t \in Slots : ~HoldsDM(call'[t])
      BY <1>1, <1>5, BrainAssumption DEF LocksOK
    <3> QED
      BY <3>1 DEF HoldsDM
  <2>2. \A t \in Slots : Dropped(call'[t]) => call'[t] = call[t]
    BY <1>2, Blank
  <2>3. ASSUME NEW b \in Agents \ {"lead"}, dm'[b] # NoEntry, NEW f \in Brain
        PROVE  Covers(dm[b][f], b, f)'
    <3>1. Covers(dm'[b][f], b, f)
      <4>1. CASE b = a
        BY <1>1, <1>3, <2>3, <4>1 DEF StateOK
      <4>2. CASE b # a
        BY <1>1, <1>3, <2>3, <4>2 DEF StateOK, BrainInv, PromptOK
      <4> QED
        BY <4>1, <4>2
    <3> QED
      BY <2>2, <3>1 DEF Covers
  <2> QED
    BY <2>1, <2>3 DEF PromptOK
<1> QED
  BY <1>2, <1>4, <1>5, <1>6, <1>7, <1>8 DEF BrainInv

LEMMA ResolvedKeeps ==
    ASSUME BrainInv, NEW s \in Slots, LeadIdentity(s) \/ Spawned(s) \/ CannotSpawn(s)
    PROVE  BrainInv'
<1> USE DEF fileVars, cacheVars, lockVars
<1>1. /\ call[s].op = "resolve"
      /\ UNCHANGED <<disk, dirs, house, written, registry, prompt, kept, leadMu, failed, count>>
  BY DEF LeadIdentity, Spawned, CannotSpawn, At
<1>2. CASE LeadIdentity(s)
  <2>1. MakeAgent(s, prompt) /\ call[s].at = "lock_lead" /\ prompt \in Prompts
    BY <1>2 DEF LeadIdentity, At, BrainInv, StateOK
  <2>2. call[s].agent = "lead" /\ HoldsDM(call[s])
    BY <1>1, <2>1, StateIs DEF Formed, HoldsDM
  <2> QED
    BY <1>1, <2>1, <2>2, MakeAgentKeeps
<1>3. CASE Spawned(s)
  <2>1. MakeAgent(s, call[s].seen) /\ call[s].at = "compose" /\ call[s].todo = <<>>
    BY <1>3 DEF Spawned, At
  <2>2. HoldsDM(call[s]) /\ call[s].seen \in Prompts
    BY <1>1, <2>1, StateIs DEF HoldsDM, Calls
  <2>3. \A f \in Brain : ~InTodo(call[s], f)
    BY <2>1 DEF InTodo
  <2>4. \A f \in Brain : Covers(call[s].seen[f], call[s].agent, f)
    BY <1>1, <2>1, <2>3 DEF BrainInv, PromptOK
  <2> QED
    BY <1>1, <2>1, <2>2, <2>4, MakeAgentKeeps
<1>4. CASE CannotSpawn(s)
  <2>1. MakeAgent(s, Fallback) /\ call[s].at \in {"compose", "load", "write"}
    BY <1>4 DEF CannotSpawn, Unreadable, Unwritable
  <2>2. HoldsDM(call[s])
    BY <1>1, <2>1 DEF HoldsDM
  <2>3. Fallback \in Prompts /\ \A f \in Brain : Fallback[f] = Absent
    BY VersionsAre DEF Fallback, Unread, Prompts
  <2>4. \A f \in Brain : Covers(Fallback[f], call[s].agent, f)
    BY <2>3 DEF Covers, Newer
  <2> QED
    BY <1>1, <2>1, <2>2, <2>3, <2>4, MakeAgentKeeps
<1> QED
  BY <1>2, <1>3, <1>4

(* A save that has invalidated the entry drops the agent, under its lock.   *)
LEMMA DropKeeps ==
    ASSUME BrainInv, NEW s \in Slots, DropDMAgent(s)
    PROVE  BrainInv'
<1> USE DEF fileVars, cacheVars, lockVars
<1>1. /\ call[s].op = "save" /\ call[s].at = "drop" /\ dmAgentsMu = None
      /\ dm' = [dm EXCEPT ![call[s].agent] = NoEntry] /\ Goto(s, "emit")
      /\ UNCHANGED <<disk, dirs, house, written, registry, prompt, kept, met, leadMu, dmAgentsMu, failed, count>>
      /\ CallsOK /\ StateOK /\ Formed(call[s])
  BY StateIs DEF DropDMAgent, At
<1>2. PICK c \in Calls :
              /\ call' = [call EXCEPT ![s] = c] /\ c.at = "emit" /\ c.op = "save"
              /\ c.agent = call[s].agent /\ c.file = call[s].file /\ c.ver = call[s].ver
              /\ c.todo = call[s].todo
  <2>1. "emit" \in Ats
    BY DEF Ats
  <2> QED
    BY <1>1, <2>1, GotoIs
<1>3. call'[s] = c /\ \A t \in Slots \ {s} : call'[t] = call[t]
  BY <1>1, <1>2 DEF CallsOK
<1>4. c.agent \in Agents /\ c.file \in Brain /\ Formed(c)
  BY <1>1, <1>2 DEF Formed, Writing
<1>5. CallsOK'
  BY <1>1, <1>2, <1>3, <1>4 DEF CallsOK
<1>6. StateOK'
  BY <1>1, <1>2, <1>4 DEF StateOK
<1>7. LocksOK'
  <2>1. ~HoldsLead(c) /\ ~HoldsDM(c) /\ ~HoldsLead(call[s]) /\ ~HoldsDM(call[s])
    BY <1>1, <1>2 DEF HoldsLead, HoldsDM
  <2> QED
    BY <1>1, <1>2, <2>1, LocksMove
<1>8. HouseOK'
  <2>1. /\ \A t \in Slots : call'[t].op = "broadcast" => call'[t] = call[t]
        /\ \A t \in Slots : Pending(call[t]) => Pending(call'[t])
        /\ (\A t \in Slots : call'[t].op # "broadcast") => \A t \in Slots : call[t].op # "broadcast"
    BY <1>1, <1>2, <1>3 DEF Pending
  <2> QED
    BY <1>1, <2>1 DEF BrainInv, HouseOK, HouseReachesLead
<1>9. DiskOK'
  <2>1. ASSUME NEW t \in Slots, Saved(call'[t])
        PROVE  call'[t].ver <= written /\ Newer(disk[call'[t].agent][call'[t].file], call'[t].ver)
    <3>1. /\ Saved(call[t]) /\ call'[t].ver = call[t].ver
          /\ call'[t].agent = call[t].agent /\ call'[t].file = call[t].file
      BY <1>1, <1>2, <1>3, <2>1 DEF Saved
    <3> QED
      BY <3>1 DEF BrainInv, DiskOK
  <2> QED
    BY <1>1, <2>1 DEF BrainInv, DiskOK
<1>10. PromptOK'
  <2>1. \A t \in Slots : ~(call'[t].op = "resolve" /\ call'[t].at = "compose")
    <3>1. \A t \in Slots : ~HoldsDM(call'[t])
      BY <1>1, <1>7, BrainAssumption DEF LocksOK
    <3> QED
      BY <3>1 DEF HoldsDM
  <2>2. \A b \in Agents : dm'[b] # NoEntry => b # c.agent /\ dm'[b] = dm[b]
    BY <1>1, <1>2, <1>4 DEF StateOK
  <2>3. ASSUME NEW b \in Agents \ {"lead"}, dm'[b] # NoEntry, NEW f \in Brain
        PROVE  Covers(dm[b][f], b, f)'
    <3>1. Covers(dm[b][f], b, f) /\ dm'[b][f] = dm[b][f] /\ b # c.agent
      BY <2>2, <2>3 DEF BrainInv, PromptOK
    <3>2. \A t \in Slots : Dropped(call'[t]) /\ call'[t].agent = b => call'[t] = call[t]
      BY <1>3, <3>1
    <3> QED
      BY <1>1, <3>1, <3>2 DEF Covers
  <2> QED
    BY <2>1, <2>3 DEF PromptOK
<1> QED
  BY <1>5, <1>6, <1>7, <1>8, <1>9, <1>10 DEF BrainInv

(* The save is over, and what it wrote is kept. *)
LEMMA SaveEndsKeeps ==
    ASSUME BrainInv, NEW s \in Slots, EmitBrainUpdate(s), call[s].op = "save"
    PROVE  BrainInv'
<1> USE DEF fileVars, cacheVars, lockVars
<1> DEFINE a == call[s].agent
           f == call[s].file
           v == call[s].ver
<1>1. /\ call[s].at = "emit" /\ End(s) /\ registry' = registry \ {a}
      /\ UNCHANGED <<disk, dirs, house, written, prompt, dm, met, leadMu, dmAgentsMu, failed, count>>
      /\ CallsOK /\ StateOK /\ Formed(call[s]) /\ call[s] \in Calls
  BY StateIs DEF EmitBrainUpdate, Invalidate
<1>2. /\ CallsOK' /\ call' = [call EXCEPT ![s] = NoCall]
      /\ call'[s] = NoCall /\ \A t \in Slots \ {s} : call'[t] = call[t]
  BY <1>1, Ended
<1>3. a \in Agents /\ f \in Brain /\ v \in Versions
  BY <1>1 DEF Formed, Calls
<1>4. kept' = IF v > kept[a][f] THEN [kept EXCEPT ![a][f] = v] ELSE kept
  BY DEF EmitBrainUpdate
<1>5. Dropped(call[s]) /\ Saved(call[s]) /\ ~HoldsLead(call[s]) /\ ~HoldsDM(call[s])
  BY <1>1 DEF Dropped, Saved, HoldsLead, HoldsDM
<1>6. v <= written /\ Newer(disk[a][f], v)
  BY <1>5 DEF BrainInv, DiskOK
<1>7. \A w, b, g : Covers(w, b, g) /\ b = a /\ g = f => Newer(w, v)
  BY <1>5 DEF Covers
<1> HIDE DEF a, f, v
<1>8. /\ kept' \in [Agents -> [Brain -> Versions]]
      /\ \A b \in Agents, g \in Brain : (b = a /\ g = f /\ kept'[b][g] = v) \/ kept'[b][g] = kept[b][g]
  <2>1. kept \in [Agents -> [Brain -> Versions]]
    BY <1>1 DEF StateOK
  <2>2. CASE v > kept[a][f]
    <3>1. kept' = [kept EXCEPT ![a] = [kept[a] EXCEPT ![f] = v]]
      BY <1>4, <2>2
    <3> QED
      BY <1>3, <2>1, <3>1
  <2>3. CASE ~(v > kept[a][f])
    BY <1>4, <2>1, <2>3
  <2> QED
    BY <2>2, <2>3
<1>9. StateOK'
  BY <1>1, <1>8 DEF StateOK
<1>10. LocksOK'
  BY <1>1, <1>2, <1>5, Blank, LocksMove
<1>11. HouseOK'
  <2>1. /\ \A t \in Slots : call'[t].op = "broadcast" => call'[t] = call[t]
        /\ \A t \in Slots : Pending(call[t]) => Pending(call'[t])
        /\ (\A t \in Slots : call'[t].op # "broadcast") => \A t \in Slots : call[t].op # "broadcast"
    BY <1>2, Blank DEF Pending
  <2> QED
    BY <1>1, <2>1 DEF BrainInv, HouseOK, HouseReachesLead
<1>12. DiskOK'
  <2>1. \A t \in Slots : Saved(call'[t]) => call'[t] = call[t]
    BY <1>2, Blank
  <2>2. ASSUME NEW b \in Agents, NEW g \in Brain
        PROVE  kept'[b][g] <= written /\ Newer(disk[b][g], kept'[b][g])
    BY <1>6, <1>8 DEF BrainInv, DiskOK
  <2> QED
    BY <1>1, <2>1, <2>2 DEF BrainInv, DiskOK
<1>13. ASSUME NEW b \in Agents, NEW g \in Brain, NEW w, Covers(w, b, g)
       PROVE  Covers(w, b, g)'
  <2>1. Newer(w, kept'[b][g])
    BY <1>7, <1>8, <1>13 DEF Covers
  <2>2. \A t \in Slots : Dropped(call'[t]) => call'[t] = call[t]
    BY <1>2, Blank
  <2> QED
    BY <1>13, <2>1, <2>2 DEF Covers
<1>14. PromptOK'
  <2>1. ASSUME NEW b \in Agents \ {"lead"}, dm'[b] # NoEntry, NEW g \in Brain
        PROVE  Covers(dm[b][g], b, g)'
    <3>1. Covers(dm[b][g], b, g) /\ dm'[b][g] = dm[b][g]
      BY <1>1, <2>1 DEF BrainInv, PromptOK
    <3> QED
      BY <3>1, <1>13 DEF Covers
  <2>2. ASSUME NEW t \in Slots, call'[t].op = "resolve", call'[t].at = "compose", NEW g \in Brain
        PROVE  InTodo(call'[t], g) \/ Covers(call[t].seen[g], call[t].agent, g)'
    <3>1. call'[t] = call[t]
      BY <1>2, <2>2, Blank
    <3>2. InTodo(call[t], g) \/ Covers(call[t].seen[g], call[t].agent, g)
      BY <2>2, <3>1 DEF BrainInv, PromptOK
    <3>3. call[t].agent \in Agents
      BY <2>2, <3>1, StateIs DEF Formed
    <3> QED
      BY <3>1, <3>2, <3>3, <1>13 DEF Covers
  <2> QED
    BY <2>1, <2>2 DEF PromptOK
<1> QED
  BY <1>2, <1>9, <1>10, <1>11, <1>12, <1>14 DEF BrainInv

-----------------------------------------------------------------------------
(* What is written.                                                         *)

(* A file is truncated, or gets the version v that is written. *)
LEMMA WriteKeeps ==
    ASSUME BrainInv, NEW s \in Slots, NEW c \in Calls, Formed(c), NEW v \in Versions,
           call[s].at \in {"write", "fill"}, call' = [call EXCEPT ![s] = c],
           c.op = call[s].op, c.agent = call[s].agent, c.file = call[s].file,
           c.at # "compose", ~Dropped(c),
           c.op = "summary" => c.at # "lock_lead", c.op = "resolve" => c.at # "lock_dm",
           written' \in Nat, written' >= written, v = Empty \/ v = written',
           Saved(c) => c.ver = written' /\ v = written',
           IF c.op = "broadcast"
             THEN house' = [house EXCEPT ![c.file] = v] /\ disk' = disk
             ELSE disk' = [disk EXCEPT ![c.agent] = [disk[c.agent] EXCEPT ![c.file] = v]] /\ house' = house,
           UNCHANGED <<dirs, registry, prompt, dm, leadMu, dmAgentsMu, met, kept, failed, count>>
    PROVE  BrainInv'
<1>1. CallsOK /\ StateOK /\ Formed(call[s]) /\ call[s] \in Calls
  BY StateIs
<1>2. call'[s] = c /\ \A t \in Slots \ {s} : call'[t] = call[t]
  BY <1>1 DEF CallsOK
<1>3. /\ c.agent \in Agents
      /\ c.op = "broadcast" => c.file \in House
      /\ c.op # "broadcast" => c.file \in Brain
  BY <1>1 DEF Formed, Writing
<1>4. CallsOK'
  BY <1>1, <1>2 DEF CallsOK
<1>5. Newer(v, written)
  BY DEF Newer
<1>6. /\ disk' \in [Agents -> [Brain -> Versions]]
      /\ \A b \in Agents, g \in Brain : disk'[b][g] = v \/ disk'[b][g] = disk[b][g]
      /\ c.op # "broadcast" => disk'[c.agent][c.file] = v /\ house' = house
  <2>1. disk \in [Agents -> [Brain -> Versions]]
    BY <1>1 DEF StateOK
  <2>2. CASE c.op = "broadcast"
    BY <2>1, <2>2
  <2>3. CASE c.op # "broadcast"
    <3>1. disk' = [disk EXCEPT ![c.agent] = [disk[c.agent] EXCEPT ![c.file] = v]] /\ house' = house
      BY <2>3
    <3>2. c.agent \in Agents /\ c.file \in Brain
      BY <1>3, <2>3
    <3> QED
      BY <2>1, <2>3, <3>1, <3>2
  <2> QED
    BY <2>2, <2>3
<1>7. house' \in [House -> Versions]
  BY <1>1, <1>3 DEF StateOK
<1>8. StateOK'
  BY <1>1, <1>6, <1>7 DEF StateOK
<1>9. LocksOK'
  <2>1. (HoldsLead(c) <=> HoldsLead(call[s])) /\ (HoldsDM(c) <=> HoldsDM(call[s]))
    BY DEF HoldsLead, HoldsDM
  <2> QED
    BY <2>1, LocksMove
<1>10. HouseOK'
  <2>1. \A t \in Slots :
           /\ call'[t].op = call[t].op
           /\ call'[t].at = "compose" => call'[t] = call[t]
    BY <1>2
  <2>2. CASE c.op = "broadcast"
    <3>1. Pending(call'[s]) /\ call'[s].op = "broadcast"
      BY <1>2, <2>2 DEF Pending
    <3> QED
      BY <3>1 DEF HouseOK, HouseReachesLead
  <2>3. CASE c.op # "broadcast"
    <3>1. house' = house
      BY <1>6, <2>3
    <3>2. \A t \in Slots : Pending(call[t]) => Pending(call'[t])
      BY <1>2, <2>3 DEF Pending
    <3> QED
      BY <2>1, <3>1, <3>2 DEF BrainInv, HouseOK, HouseReachesLead
  <2> QED
    BY <2>2, <2>3
<1>11. ASSUME NEW b \in Agents, NEW g \in Brain, NEW w \in Versions, w <= written, Newer(disk[b][g], w)
       PROVE  w <= written' /\ Newer(disk'[b][g], w)
  <2>1. w \in Int /\ written \in Int
    BY <1>1, <1>11, VersionsAre DEF StateOK
  <2>2. CASE disk'[b][g] = v
    <3>1. Newer(v, w)
      BY <1>11, <2>1, VersionsAre DEF Newer
    <3> QED
      BY <1>11, <2>1, <2>2, <3>1
  <2>3. CASE disk'[b][g] = disk[b][g]
    BY <1>11, <2>1, <2>3
  <2> QED
    BY <1>6, <2>2, <2>3
<1>12. DiskOK'
  <2>1. ASSUME NEW b \in Agents, NEW g \in Brain
        PROVE  kept[b][g] <= written' /\ Newer(disk'[b][g], kept[b][g])
    <3>1. kept[b][g] \in Versions /\ kept[b][g] <= written /\ Newer(disk[b][g], kept[b][g])
      BY <1>1 DEF StateOK, BrainInv, DiskOK
    <3> QED
      BY <3>1, <1>11
  <2>2. ASSUME NEW t \in Slots, Saved(call'[t])
        PROVE  call'[t].ver <= written' /\ Newer(disk'[call'[t].agent][call'[t].file], call'[t].ver)
    <3>1. CASE t = s
      <4>1. c.ver = written' /\ v = written' /\ c.op = "save"
        BY <1>2, <2>2, <3>1 DEF Saved
      <4>2. disk'[c.agent][c.file] = v
        BY <1>6, <4>1
      <4> QED
        BY <1>2, <3>1, <4>1, <4>2 DEF Newer
    <3>2. CASE t # s
      <4>1. call'[t] = call[t] /\ Saved(call[t])
        BY <1>2, <2>2, <3>2
      <4>2. call[t].agent \in Agents /\ call[t].file \in Brain /\ call[t].ver \in Versions
        BY <1>1, <4>1 DEF CallsOK, Formed, Saved, Calls
      <4>3. call[t].ver <= written /\ Newer(disk[call[t].agent][call[t].file], call[t].ver)
        BY <4>1 DEF BrainInv, DiskOK
      <4> QED
        BY <4>1, <4>2, <4>3, <1>11
    <3> QED
      BY <3>1, <3>2
  <2> QED
    BY <2>1, <2>2 DEF DiskOK
<1>13. PromptOK'
  <2>1. \A t \in Slots : Dropped(call'[t]) => call'[t] = call[t]
    BY <1>2
  <2>2. ASSUME NEW b \in Agents \ {"lead"}, dm'[b] # NoEntry, NEW g \in Brain
        PROVE  Covers(dm[b][g], b, g)'
    BY <2>1, <2>2 DEF BrainInv, PromptOK, Covers
  <2>3. ASSUME NEW t \in Slots, call'[t].op = "resolve", call'[t].at = "compose", NEW g \in Brain
        PROVE  InTodo(call'[t], g) \/ Covers(call[t].seen[g], call[t].agent, g)'
    <3>1. call'[t] = call[t]
      BY <1>2, <2>3
    <3>2. InTodo(call[t], g) \/ Covers(call[t].seen[g], call[t].agent, g)
      BY <2>3, <3>1 DEF BrainInv, PromptOK
    <3> QED
      BY <2>1, <3>1, <3>2 DEF Covers
  <2> QED
    BY <2>2, <2>3 DEF PromptOK
<1> QED
  BY <1>4, <1>8, <1>9, <1>10, <1>12, <1>13 DEF BrainInv

LEMMA TruncateKeeps ==
    ASSUME BrainInv, NEW s \in Slots, Truncate(s)
    PROVE  BrainInv'
<1> USE DEF fileVars, cacheVars, lockVars
<1>1. /\ call[s].at = "write" /\ Goto(s, "fill") /\ written' = written
      /\ UNCHANGED <<dirs, registry, prompt, dm, leadMu, dmAgentsMu, met, kept, failed, count>>
      /\ CallsOK /\ StateOK /\ Formed(call[s])
  BY StateIs DEF Truncate
<1>2. PICK c \in Calls :
              /\ call' = [call EXCEPT ![s] = c] /\ c.at = "fill" /\ c.op = call[s].op
              /\ c.agent = call[s].agent /\ c.file = call[s].file /\ c.ver = call[s].ver
              /\ c.todo = call[s].todo
  <2>1. "fill" \in Ats
    BY DEF Ats
  <2> QED
    BY <1>1, <2>1, GotoIs
<1>3. Formed(c) /\ ~Saved(c) /\ ~Dropped(c)
  BY <1>1, <1>2 DEF Formed, Writing, Saved, Dropped
<1>4. c.op = "broadcast" <=> c.file \in House
  BY <1>2, <1>3, Apart DEF Formed, Writing
<1>5. IF c.op = "broadcast"
        THEN house' = [house EXCEPT ![c.file] = Empty] /\ disk' = disk
        ELSE disk' = [disk EXCEPT ![c.agent] = [disk[c.agent] EXCEPT ![c.file] = Empty]]
             /\ house' = house
  <2>1. CASE c.op = "broadcast"
    BY <1>2, <1>4, <2>1 DEF Truncate
  <2>2. CASE c.op # "broadcast"
    BY <1>2, <1>4, <2>2 DEF Truncate
  <2> QED
    BY <2>1, <2>2
<1>6. Empty \in Versions /\ written' \in Nat /\ written' >= written
  BY <1>1, VersionsAre DEF StateOK
<1> QED
  BY <1>1, <1>2, <1>3, <1>5, <1>6, WriteKeeps

LEMMA FillKeeps ==
    ASSUME BrainInv, NEW s \in Slots, Fill(s)
    PROVE  BrainInv'
<1> USE DEF fileVars, cacheVars, lockVars
<1> DEFINE next == AfterWrite(call[s].op)
           c == [call[s] EXCEPT !.at = next, !.ver = written']
<1>1. /\ call[s].at = "fill" /\ written' = written + 1
      /\ UNCHANGED <<dirs, registry, prompt, dm, leadMu, dmAgentsMu, met, kept, failed, count>>
      /\ CallsOK /\ StateOK /\ Formed(call[s]) /\ call[s] \in Calls
  BY StateIs DEF Fill
<1>2. written' \in Nat /\ written' \in Versions /\ written' >= written
  BY <1>1, VersionsAre DEF StateOK
<1>3. call[s].op \in {"panel", "save", "update_self", "summary", "reflect", "broadcast", "resolve"}
  BY <1>1 DEF Formed, Writing, Calls, Ops
<1>4. /\ next \in {"invalidate", "emit", "lock_lead", "rewrite", "ensure"}
      /\ next = "invalidate" <=> call[s].op = "save"
      /\ next = "emit" <=> call[s].op \in {"update_self", "summary"}
      /\ next = "lock_lead" <=> call[s].op = "broadcast"
      /\ next = "rewrite" <=> call[s].op = "reflect"
  BY <1>3 DEF AfterWrite
<1>5. call' = [call EXCEPT ![s] = c]
  BY DEF Fill
<1> HIDE DEF next
<1>6. /\ c \in Calls /\ c.at = next /\ c.ver = written' /\ c.op = call[s].op
      /\ c.agent = call[s].agent /\ c.file = call[s].file /\ c.todo = call[s].todo
  BY <1>1, <1>2, <1>4 DEF Calls, Ats
<1> HIDE DEF c
<1>7. Formed(c)
  BY <1>1, <1>3, <1>4, <1>6 DEF Formed, Writing
<1>8. c.op = "broadcast" <=> c.file \in House
  BY <1>1, <1>6, Apart DEF Formed, Writing
<1>9. IF c.op = "broadcast"
        THEN house' = [house EXCEPT ![c.file] = written'] /\ disk' = disk
        ELSE disk' = [disk EXCEPT ![c.agent] = [disk[c.agent] EXCEPT ![c.file] = written']]
             /\ house' = house
  <2>1. CASE c.op = "broadcast"
    BY <1>6, <1>8, <2>1 DEF Fill
  <2>2. CASE c.op # "broadcast"
    BY <1>6, <1>8, <2>2 DEF Fill
  <2> QED
    BY <2>1, <2>2
<1>10. /\ c.at # "compose" /\ ~Dropped(c) /\ (c.op = "summary" => c.at # "lock_lead")
       /\ (c.op = "resolve" => c.at # "lock_dm")
  BY <1>4, <1>6 DEF Dropped
<1> QED
  BY <1>1, <1>2, <1>5, <1>6, <1>7, <1>9, <1>10, WriteKeeps

-----------------------------------------------------------------------------
(* The application starts again.                                            *)

LEMMA RestartKeeps == BrainInv /\ Restart => BrainInv'
<1> SUFFICES ASSUME BrainInv, Restart PROVE BrainInv'
  OBVIOUS
<1> USE DEF fileVars
<1>1. /\ UNCHANGED <<house, kept>> /\ written' = written + 1 /\ registry' = {} /\ failed' = FALSE
      /\ dm' = [a \in Agents |-> NoEntry] /\ met' = {} /\ dirs' = dirs \cup {"lead"}
      /\ leadMu' = None /\ dmAgentsMu' = None
      /\ call' = [s \in Slots |-> NoCall]
      /\ disk' = [disk EXCEPT !["lead"] = [f \in Brain |-> IF disk["lead"][f] = Absent
                                                             THEN written' ELSE disk["lead"][f]]]
      /\ prompt' = Composed(disk'["lead"], house)
      /\ count < MaxCalls /\ count' = count + 1 /\ StateOK
  BY DEF Restart, BrainInv
<1>2. \A s \in Slots : call'[s] = NoCall
  BY <1>1
<1>3. /\ written \in Nat /\ written' \in Nat /\ written' \in Versions
      /\ disk \in [Agents -> [Brain -> Versions]] /\ house \in [House -> Versions]
  BY <1>1, VersionsAre DEF StateOK
<1>4. /\ disk' \in [Agents -> [Brain -> Versions]]
      /\ \A a \in Agents, f \in Brain : disk'[a][f] = written' \/ disk'[a][f] = disk[a][f]
  <2>1. [f \in Brain |-> IF disk["lead"][f] = Absent THEN written' ELSE disk["lead"][f]] \in [Brain -> Versions]
    BY <1>3, BrainAssumption
  <2> QED
    BY <1>1, <1>3, <2>1, BrainAssumption
<1>5. prompt' \in Prompts /\ \A f \in House : prompt'[f] = house'[f]
  <2>1. disk'["lead"] \in [Brain -> Versions]
    BY <1>4, BrainAssumption
  <2> QED
    BY <1>1, <1>3, <2>1, ComposedIs
<1>6. StateOK'
  <2>1. dirs' \subseteq Agents /\ registry' \subseteq Agents /\ met' \subseteq Agents /\ failed' \in BOOLEAN
    BY <1>1, BrainAssumption DEF StateOK
  <2>2. count' \in 0..MaxCalls
    BY <1>1, BrainAssumption DEF StateOK
  <2>3. dm' \in [Agents -> Prompts \cup {NoEntry}]
    BY <1>1
  <2> QED
    BY <1>1, <1>3, <1>4, <1>5, <2>1, <2>2, <2>3 DEF StateOK
<1>7. CallsOK'
  BY <1>1, <1>2, Blank DEF CallsOK
<1>8. LocksOK'
  BY <1>1, <1>2, Blank, BrainAssumption DEF LocksOK
<1>9. HouseOK'
  BY <1>2, <1>5, Blank DEF HouseOK, HouseReachesLead
<1>10. DiskOK'
  <2>1. ASSUME NEW a \in Agents, NEW f \in Brain
        PROVE  kept[a][f] <= written' /\ Newer(disk'[a][f], kept[a][f])
    <3>1. kept[a][f] \in Int /\ kept[a][f] <= written /\ Newer(disk[a][f], kept[a][f])
      BY <1>1, VersionsAre DEF StateOK, BrainInv, DiskOK
    <3>2. kept[a][f] <= written'
      BY <1>1, <1>3, <3>1
    <3> QED
      BY <1>3, <1>4, <3>1, <3>2 DEF Newer
  <2> QED
    BY <1>1, <1>2, <2>1, Blank DEF DiskOK
<1>11. PromptOK'
  BY <1>1, <1>2, Blank DEF PromptOK
<1> QED
  BY <1>6, <1>7, <1>8, <1>9, <1>10, <1>11 DEF BrainInv

-----------------------------------------------------------------------------
LEMMA BrainStep == BrainInv /\ [Next]_vars => BrainInv'
<1> SUFFICES ASSUME BrainInv, [Next]_vars PROVE BrainInv'
  OBVIOUS
<1>1. ASSUME NEW s \in Slots, Step(s) PROVE BrainInv'
  <2>1. CASE MakeDir(s) \/ WriteIfAbsent(s)
    BY <2>1, MakeDirKeeps, WriteIfAbsentKeeps
  <2>2. CASE Truncate(s) \/ Fill(s) \/ FillUnlinked(s) \/ ReadFile(s) \/ Fails(s)
    BY <2>2, TruncateKeeps, FillKeeps, FillUnlinkedKeeps, ReadFileKeeps, FailsKeeps
  <2>3. CASE PanelEnsured(s) \/ Get(s) \/ Store(s)
    BY <2>3, PanelKeeps
  <2>4. CASE SaveInvalidates(s) \/ DropDMAgent(s) \/ EmitBrainUpdate(s)
    BY <2>4, SaveMovesKeeps, DropKeeps, SaveEndsKeeps
  <2>5. CASE SummaryLocks(s) \/ SummaryWrites(s) \/ SummaryEnds(s)
    BY <2>5, SummaryKeeps
  <2>6. CASE Reflected(s) \/ Rewrite(s)
    BY <2>6, ReflectKeeps
  <2>7. CASE BroadcastLocks(s) \/ CultureUpdate(s) \/ CannotUpdate(s)
    BY <2>7, StartComposing, BroadcastEndsKeeps
  <2>8. CASE RemoveAgents(s) \/ RemoveCompany(s)
    BY <2>8, ResetKeeps
  <2>9. CASE Found(s) \/ NotFound(s) \/ LeadIdentity(s) \/ Spawn(s) \/ Spawned(s) \/ CannotSpawn(s)
    BY <2>9, FoundKeeps, ResolvedKeeps, StartComposing
  <2> QED
    BY <1>1, <2>1, <2>2, <2>3, <2>4, <2>5, <2>6, <2>7, <2>8, <2>9 DEF Step
<1>2. CASE UNCHANGED vars
  BY <1>2 DEF vars, fileVars, cacheVars, lockVars, BrainInv, StateOK, CallsOK, LocksOK, HouseOK,
              HouseReachesLead, DiskOK, PromptOK, Covers, Pending
<1> QED
  BY <1>1, <1>2, BeginKeeps, RestartKeeps DEF Next

(* What keeps the prompts in use as new as the files.                       *)
THEOREM BrainInvariance == Spec => []BrainInv
<1> QED
  BY InitBrain, BrainStep, PTL DEF Spec

(* The types hold: who holds a lock is at a call that needs it.             *)
THEOREM BrainTyped == Spec => []TypeOK
<1>1. ASSUME BrainInv PROVE TypeOK
  <2>1. StateOK /\ CallsOK /\ LocksOK
    BY <1>1 DEF BrainInv
  <2>2. leadMu # None => call[leadMu].op \in {"summary", "broadcast", "resolve"}
    BY <2>1 DEF LocksOK, HoldsLead
  <2>3. dmAgentsMu # None => call[dmAgentsMu].op = "resolve"
    BY <2>1 DEF LocksOK, HoldsDM
  <2> QED
    BY <2>1, <2>2, <2>3 DEF StateOK, CallsOK, LocksOK, Calls, Files, TypeOK
<1> QED
  BY <1>1, BrainInvariance, PTL

(* Once a save of the Boss has ended, no agent but the Lead answers direct  *)
(* messages with an older version of the file.                              *)
THEOREM SavesReachWorkers == Spec => []SaveReachesWorkers
<1>1. ASSUME BrainInv PROVE SaveReachesWorkers
  <2> SUFFICES ASSUME NEW a \in Agents \ {"lead"}, dm[a] # NoEntry, NEW f \in Brain, dm[a][f] > Empty
               PROVE  dm[a][f] >= kept[a][f]
    BY DEF SaveReachesWorkers, PromptFollowsSave
  <2>1. Newer(dm[a][f], kept[a][f])
    BY <1>1 DEF BrainInv, PromptOK, Covers
  <2>2. dm[a][f] \notin {Absent, Empty}
    BY DEF Absent, Empty
  <2> QED
    BY <2>1, <2>2 DEF Newer
<1> QED
  BY <1>1, BrainInvariance, PTL

(* When no broadcast is under way and the last one could compose, the       *)
(* Lead's prompt has the present content of the company's files.            *)
THEOREM HouseReaches == Spec => []HouseReachesLead
<1>1. BrainInv => HouseReachesLead
  BY DEF BrainInv, HouseOK
<1> QED
  BY <1>1, BrainInvariance, PTL

=============================================================================
