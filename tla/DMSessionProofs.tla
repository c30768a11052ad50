--------------------------- MODULE DMSessionProofs ---------------------------
(* Theorems about DMSession, for every set of messages, every set of answers *)
(* and every number of invalidations and restarts.                          *)
EXTENDS DMSession, TLAPS, FiniteSetTheorems, SequenceTheorems

(* The types of what OwnMessageStored is about. *)
CallsOK ==
    /\ step \in [Msgs -> Steps]
    /\ entry \in [Objs -> Msgs \cup {None}]
    /\ made \in Nat /\ cache \in 0..made
    /\ DOMAIN obj = Msgs
    /\ DOMAIN stored = Msgs

(* There is an object left to be made whenever none is cached, and a call   *)
(* in hand works on one that has been made.                                 *)
ObjectsOK ==
    /\ made <= MaxDrops + 1
    /\ cache = 0 => made <= MaxDrops
    /\ \A m \in Msgs : InHand(m) => obj[m] \in Objs

(* A call that waits in the queue and shares its object with no other that  *)
(* waits has its own entry there.                                           *)
EntryOK ==
    \A m \in Msgs :
        step[m] = "queued" /\ m \notin crossed =>
            /\ entry[obj[m]] = m
            /\ \A n \in Msgs : step[n] = "queued" /\ obj[n] = obj[m] => n = m

SessionInv == CallsOK /\ ObjectsOK /\ EntryOK /\ OwnMessageStored

-----------------------------------------------------------------------------
LEMMA InitSession == Init => SessionInv
<1> SUFFICES ASSUME Init PROVE SessionInv
  OBVIOUS
<1>1. CallsOK
  BY DEF Init, CallsOK, Steps
<1>2. ObjectsOK
  BY SessionAssumption DEF Init, ObjectsOK, InHand
<1>3. EntryOK /\ OwnMessageStored
  BY DEF Init, EntryOK, OwnMessageStored
<1> QED
  BY <1>1, <1>2, <1>3 DEF SessionInv

(* A call goes on, or ends, and neither enters the queue nor begins. *)
LEMMA CallGoesOn ==
    ASSUME SessionInv, NEW m \in Msgs, NEW at \in Steps \ {"queued"},
           step' = [step EXCEPT ![m] = at], InHand(m) \/ at \in {"sent", "ended"},
           UNCHANGED <<cache, made, entry, obj, stored, crossed>>
    PROVE  SessionInv'
<1>1. CallsOK'
  BY DEF SessionInv, CallsOK
<1>2. ObjectsOK'
  BY DEF SessionInv, CallsOK, ObjectsOK, InHand
<1>3. \A n \in Msgs : step'[n] = "queued" => step[n] = "queued"
  BY DEF SessionInv, CallsOK
<1>4. EntryOK'
  BY <1>3 DEF SessionInv, EntryOK
<1>5. OwnMessageStored'
  BY DEF SessionInv, OwnMessageStored
<1> QED
  BY <1>1, <1>2, <1>4, <1>5 DEF SessionInv

LEMMA ResolveKeeps ==
    ASSUME SessionInv, NEW m \in Msgs, Resolve(m)
    PROVE  SessionInv'
<1>1. /\ step[m] = "sent" /\ step' = [step EXCEPT ![m] = "resolved"]
      /\ UNCHANGED <<entry, stored, crossed>>
  BY DEF Resolve, agentVars
<1>2. /\ made' \in Nat /\ cache' \in 1..made' /\ made' <= MaxDrops + 1
      /\ obj' = [obj EXCEPT ![m] = cache']
  <2>1. CASE cache # 0
    BY <2>1 DEF Resolve, agentVars, SessionInv, CallsOK, ObjectsOK
  <2>2. CASE cache = 0
    <3>1. made' = made + 1 /\ cache' = made + 1 /\ obj' = [obj EXCEPT ![m] = made + 1]
      BY <2>2 DEF Resolve
    <3>2. made \in Nat /\ made <= MaxDrops
      BY <2>2 DEF SessionInv, CallsOK, ObjectsOK
    <3> QED
      BY <3>1, <3>2, SessionAssumption
  <2> QED
    BY <2>1, <2>2
<1>3. CallsOK'
  BY <1>1, <1>2 DEF SessionInv, CallsOK, Steps
<1>4. cache' \in Objs
  BY <1>2, SessionAssumption DEF Objs
<1>5. ObjectsOK'
  <2>1. \A n \in Msgs : InHand(n)' => obj'[n] \in Objs
    BY <1>1, <1>2, <1>4 DEF SessionInv, CallsOK, ObjectsOK, InHand
  <2> QED
    BY <1>2, <2>1 DEF ObjectsOK
<1>6. \A n \in Msgs : step'[n] = "queued" => step[n] = "queued" /\ obj'[n] = obj[n]
  BY <1>1, <1>2 DEF SessionInv, CallsOK
<1>7. EntryOK'
  BY <1>1, <1>6 DEF SessionInv, EntryOK
<1>8. OwnMessageStored'
  BY <1>1 DEF SessionInv, OwnMessageStored
<1> QED
  BY <1>3, <1>5, <1>7, <1>8 DEF SessionInv

LEMMA PrepareKeeps ==
    ASSUME SessionInv, NEW m \in Msgs, Prepare(m)
    PROVE  SessionInv'
<1> DEFINE others == {n \in Msgs : step[n] = "queued" /\ obj[n] = obj[m]}
<1>1. /\ step[m] = "resolved" /\ step' = [step EXCEPT ![m] = "queued"]
      /\ entry' = [entry EXCEPT ![obj[m]] = m]
      /\ UNCHANGED <<cache, made, obj, stored>>
  BY DEF Prepare, InjectHistoryEntry
<1>2. crossed' = IF others = {} THEN crossed ELSE crossed \cup others \cup {m}
  BY DEF Prepare
<1>3. obj[m] \in Objs
  BY <1>1 DEF SessionInv, ObjectsOK, InHand
<1>4. CallsOK'
  BY <1>1, <1>3 DEF SessionInv, CallsOK, Steps
<1>5. ObjectsOK'
  BY <1>1 DEF SessionInv, CallsOK, ObjectsOK, InHand
<1>6. entry'[obj[m]] = m
  BY <1>1, <1>3 DEF SessionInv, CallsOK
<1>7. EntryOK'
  <2> SUFFICES ASSUME NEW k \in Msgs, step'[k] = "queued", k \notin crossed'
               PROVE  /\ entry'[obj'[k]] = k
                      /\ \A n \in Msgs : step'[n] = "queued" /\ obj'[n] = obj'[k] => n = k
    BY DEF EntryOK
  <2>1. CASE k = m
    <3>1. others = {}
      BY <1>2, <2>1
    <3>2. \A n \in Msgs : step'[n] = "queued" /\ obj[n] = obj[m] => n = m
      BY <1>1, <3>1 DEF SessionInv, CallsOK
    <3> QED
      BY <1>1, <1>6, <2>1, <3>2
  <2>2. CASE k # m
    <3>1. step[k] = "queued" /\ k \notin crossed
      BY <1>1, <1>2, <2>2 DEF SessionInv, CallsOK
    <3>2. obj[k] # obj[m]
      <4>1. k \notin others
        BY <1>2
      <4> QED
        BY <3>1, <4>1
    <3>3. entry[obj[k]] = k /\ \A n \in Msgs : step[n] = "queued" /\ obj[n] = obj[k] => n = k
      BY <3>1 DEF SessionInv, EntryOK
    <3>4. entry'[obj[k]] = k
      <4>1. obj[k] \in Objs
        BY <3>1 DEF SessionInv, ObjectsOK, InHand
      <4> QED
        BY <1>1, <3>2, <3>3, <4>1 DEF SessionInv, CallsOK
    <3>5. \A n \in Msgs : step'[n] = "queued" /\ obj[n] = obj[k] => n = k
      BY <1>1, <3>2, <3>3 DEF SessionInv, CallsOK
    <3> QED
      BY <1>1, <3>4, <3>5
  <2> QED
    BY <2>1, <2>2
<1>8. OwnMessageStored'
  BY <1>1, <1>2 DEF SessionInv, OwnMessageStored
<1> QED
  BY <1>4, <1>5, <1>7, <1>8 DEF SessionInv

LEMMA BeginTurnKeeps ==
    ASSUME SessionInv, NEW m \in Msgs, BeginTurn(m)
    PROVE  SessionInv'
<1>1. /\ step[m] = "queued" /\ step' = [step EXCEPT ![m] = "infer"]
      /\ entry' = [entry EXCEPT ![obj[m]] = None]
      /\ stored' = [stored EXCEPT ![m] = IF entry[obj[m]] # None THEN entry[obj[m]] ELSE "wrapped"]
      /\ UNCHANGED <<cache, made, obj, crossed>>
  BY DEF BeginTurn
<1>2. CallsOK'
  BY <1>1 DEF SessionInv, CallsOK, Steps
<1>3. ObjectsOK'
  BY <1>1 DEF SessionInv, CallsOK, ObjectsOK, InHand
<1>4. EntryOK'
  <2> SUFFICES ASSUME NEW k \in Msgs, step'[k] = "queued", k \notin crossed
               PROVE  /\ entry'[obj[k]] = k
                      /\ \A n \in Msgs : step'[n] = "queued" /\ obj[n] = obj[k] => n = k
    BY <1>1 DEF EntryOK
  <2>1. step[k] = "queued" /\ k # m
    BY <1>1 DEF SessionInv, CallsOK
  <2>2. entry[obj[k]] = k /\ \A n \in Msgs : step[n] = "queued" /\ obj[n] = obj[k] => n = k
    BY <2>1 DEF SessionInv, EntryOK
  <2>3. obj[k] # obj[m] /\ obj[k] \in Objs
    BY <1>1, <2>1, <2>2 DEF SessionInv, ObjectsOK, InHand
  <2>4. entry'[obj[k]] = k
    BY <1>1, <2>2, <2>3 DEF SessionInv, CallsOK
  <2>5. \A n \in Msgs : step'[n] = "queued" => step[n] = "queued"
    BY <1>1 DEF SessionInv, CallsOK
  <2> QED
    BY <2>2, <2>4, <2>5
<1>5. OwnMessageStored'
  <2> SUFFICES ASSUME NEW k \in Msgs, stored'[k] # None PROVE stored'[k] = k \/ k \in crossed
    BY <1>1 DEF OwnMessageStored
  <2>1. CASE k = m
    <3>1. m \notin crossed => entry[obj[m]] = m
      BY <1>1 DEF SessionInv, EntryOK
    <3>2. m \notin crossed => stored'[m] = m
      BY <1>1, <3>1, SessionAssumption DEF SessionInv, CallsOK
    <3> QED
      BY <2>1, <3>2
  <2>2. CASE k # m
    BY <1>1, <2>2 DEF SessionInv, CallsOK, OwnMessageStored
  <2> QED
    BY <2>1, <2>2
<1> QED
  BY <1>2, <1>3, <1>4, <1>5 DEF SessionInv

(* The cached object is dropped; after a restart nothing is in hand. *)
LEMMA DropKeeps ==
    ASSUME SessionInv, InvalidateDMAgent \/ Restart
    PROVE  SessionInv'
<1>1. /\ made <= MaxDrops /\ cache' = 0
      /\ UNCHANGED <<made, entry, obj, stored, crossed>>
  BY DEF InvalidateDMAgent, Restart, callVars
<1>2. \A m \in Msgs : step'[m] = step[m] \/ step'[m] = "ended"
  BY DEF InvalidateDMAgent, Restart, callVars
<1>3. step' \in [Msgs -> Steps]
  BY DEF InvalidateDMAgent, Restart, callVars, SessionInv, CallsOK, Steps
<1>4. CallsOK'
  BY <1>1, <1>3 DEF SessionInv, CallsOK
<1>5. ObjectsOK'
  BY <1>1, <1>2 DEF SessionInv, ObjectsOK, InHand
<1>6. EntryOK'
  BY <1>1, <1>2 DEF SessionInv, EntryOK
<1>7. OwnMessageStored'
  BY <1>1 DEF SessionInv, OwnMessageStored
<1> QED
  BY <1>4, <1>5, <1>6, <1>7 DEF SessionInv

LEMMA SessionStep == SessionInv /\ [Next]_vars => SessionInv'
<1> SUFFICES ASSUME SessionInv, [Next]_vars PROVE SessionInv'
  OBVIOUS
<1>1. ASSUME NEW m \in Msgs, Send(m) PROVE SessionInv'
  <2>1. "sent" \in Steps \ {"queued"}
    BY DEF Steps
  <2>2. step' = [step EXCEPT ![m] = "sent"] /\ UNCHANGED <<cache, made, entry, obj, stored, crossed>>
    BY <1>1 DEF Send, agentVars
  <2> QED
    BY <2>1, <2>2, CallGoesOn
<1>2. ASSUME NEW m \in Msgs,
             StoppedInQueue(m) \/ InferFails(m) \/ Deliver(m)
      PROVE  SessionInv'
  <2>1. "ended" \in Steps \ {"queued"}
    BY DEF Steps
  <2>2. step' = [step EXCEPT ![m] = "ended"] /\ UNCHANGED <<cache, made, entry, obj, stored, crossed>>
    BY <1>2 DEF StoppedInQueue, InferFails, Deliver, End, agentVars
  <2> QED
    BY <2>1, <2>2, CallGoesOn
<1>3. ASSUME NEW m \in Msgs, NEW resp \in Responses, Respond(m, resp) PROVE SessionInv'
  <2>1. InHand(m) /\ UNCHANGED <<cache, made, entry, obj, stored, crossed>>
    BY <1>3 DEF Respond, InHand
  <2>2. \E at \in {"tool", "reply", "ended"} : step' = [step EXCEPT ![m] = at]
    BY <1>3 DEF Respond, Consult, Escalate, CallTool, Reply, End
  <2>3. \A at \in {"tool", "reply", "ended"} : at \in Steps \ {"queued"}
    BY DEF Steps
  <2> QED
    BY <2>1, <2>2, <2>3, CallGoesOn
<1>4. ASSUME NEW m \in Msgs, ToolDone(m) PROVE SessionInv'
  <2>1. InHand(m) /\ UNCHANGED <<cache, made, entry, obj, stored, crossed>>
    BY <1>4 DEF ToolDone, InHand
  <2>2. \E at \in {"infer", "ended"} : step' = [step EXCEPT ![m] = at]
    BY <1>4 DEF ToolDone, NextLoop, End
  <2>3. \A at \in {"infer", "ended"} : at \in Steps \ {"queued"}
    BY DEF Steps
  <2> QED
    BY <2>1, <2>2, <2>3, CallGoesOn
<1>5. CASE UNCHANGED vars
  BY <1>5 DEF vars, convVars, agentVars, callVars, SessionInv, CallsOK, ObjectsOK, EntryOK,
              OwnMessageStored, InHand
<1> QED
  BY <1>1, <1>2, <1>3, <1>4, <1>5, ResolveKeeps, PrepareKeeps, BeginTurnKeeps, DropKeeps
     DEF Next, CallStep

(* What keeps the entries of the calls apart.                               *)
THEOREM SessionInvariance == Spec => []SessionInv
<1> QED
  BY InitSession, SessionStep, PTL DEF Spec

(* A turn puts its own message into the history, unless it waited in the    *)
(* queue beside another call on the same object.                            *)
THEOREM OwnMessage == Spec => []OwnMessageStored
<1>1. SessionInv => OwnMessageStored
  BY DEF SessionInv
<1> QED
  BY <1>1, SessionInvariance, PTL

-----------------------------------------------------------------------------
(* Types.  A call that is not over has iterations left.                     *)

LoopOK == \A m \in Msgs : step[m] # "ended" => loop[m] < MaxToolLoops

TypeInv == TypeOK /\ LoopOK

(* Messages become history entries one by one. *)
LEMMA ChatEntries ==
    ASSUME NEW q \in Seq(Kinds \X Msgs)
    PROVE  /\ messagesToChatHistory(q) \in Seq(Entries)
           /\ Len(messagesToChatHistory(q)) = Len(q)
<1>1. Len(q) \in Nat /\ DOMAIN q = 1..Len(q)
  OBVIOUS
<1>2. \A i \in DOMAIN q : q[i] \in Kinds \X Msgs
  BY <1>1
<1>3. \A i \in 1..Len(q) :
        <<IF q[i][1] = "boss_command" THEN "user" ELSE "assistant", q[i][2]>> \in Entries
  BY <1>1, <1>2 DEF Entries
<1> QED
  BY <1>1, <1>3 DEF messagesToChatHistory

(* The last messages of the conversation, in their order. *)
LEMMA LastMessages ==
    ASSUME log \in Seq(Kinds \X Msgs), NEW limit \in Nat
    PROVE  /\ ListConversationHistory(limit) \in Seq(Kinds \X Msgs)
           /\ \A i \in DOMAIN log : i > Len(log) - limit =>
                 \E k \in DOMAIN ListConversationHistory(limit) :
                     ListConversationHistory(limit)[k] = log[i]
<1> DEFINE first == IF Len(log) > limit THEN Len(log) - limit + 1 ELSE 1
           read == ListConversationHistory(limit)
<1>1. Len(log) \in Nat /\ DOMAIN log = 1..Len(log) /\ \A i \in 1..Len(log) : log[i] \in Kinds \X Msgs
  OBVIOUS
<1>2. first \in 1..(Len(log) + 1)
  BY <1>1
<1>3. read = SubSeq(log, first, Len(log))
  BY DEF ListConversationHistory
<1>4. /\ read \in Seq(Kinds \X Msgs)
      /\ Len(read) = Len(log) - first + 1
      /\ \A k \in 1..(Len(log) - first + 1) : read[k] = log[first + k - 1]
  <2> HIDE DEF first, read
  <2>1. \A i \in first..Len(log) : log[i] \in Kinds \X Msgs
    BY <1>1, <1>2
  <2>2. first \in Int /\ Len(log) \in Int
    BY <1>1, <1>2
  <2>3. /\ read \in Seq(Kinds \X Msgs)
        /\ Len(read) = IF first <= Len(log) THEN Len(log) - first + 1 ELSE 0
        /\ \A k \in 1..(Len(log) - first + 1) : read[k] = log[first + k - 1]
    BY <1>3, <2>1, <2>2, SubSeqProperties
  <2>4. Len(read) = Len(log) - first + 1
    BY <1>1, <1>2, <2>3
  <2> QED
    BY <2>3, <2>4
<1>5. ASSUME NEW i \in DOMAIN log, i > Len(log) - limit
      PROVE  \E k \in DOMAIN read : read[k] = log[i]
  <2>1. i \in first..Len(log)
    BY <1>1, <1>5
  <2> DEFINE k == i - first + 1
  <2> HIDE DEF first
  <2>2. k \in 1..(Len(log) - first + 1) /\ first + k - 1 = i
    BY <1>1, <1>2, <2>1
  <2> HIDE DEF k, read
  <2>3. read[k] = log[i] /\ k \in DOMAIN read
    BY <1>4, <2>2
  <2> QED
    BY <2>3
<1> QED
  BY <1>4, <1>5

LEMMA InitTypes == Init => TypeInv
<1> SUFFICES ASSUME Init PROVE TypeInv
  OBVIOUS
<1>1. Cardinality(Objs) \in Nat
  BY SessionAssumption, FS_Interval DEF Objs
<1>2. <<>> \in Seq(Kinds \X Msgs) /\ <<>> \in Seq(Entries)
  OBVIOUS
<1>3. TypeOK
  BY <1>1, <1>2, SessionAssumption DEF Init, TypeOK, Steps, Outcomes
<1>4. LoopOK
  BY SessionAssumption DEF Init, LoopOK
<1> QED
  BY <1>3, <1>4 DEF TypeInv

(* A step of a call that makes no object. *)
LEMMA CallTypes ==
    ASSUME TypeInv, NEW m \in Msgs, NEW at \in Steps, NEW outcome \in Outcomes, NEW n \in 0..MaxToolLoops,
           step' = [step EXCEPT ![m] = at],
           shown' = [shown EXCEPT ![m] = outcome],
           loop' = [loop EXCEPT ![m] = n], at # "ended" => n < MaxToolLoops,
           log' \in Seq(Kinds \X Msgs),
           hist' \in [Objs -> Seq(Entries)],
           entry' \in [Objs -> Msgs \cup {None}],
           stored' \in [Msgs -> Msgs \cup {None, "wrapped"}],
           crossed' \subseteq Msgs,
           UNCHANGED <<cache, made, obj, late, blank>>
    PROVE  TypeInv'
<1>1. TypeOK'
  BY DEF TypeInv, TypeOK
<1>2. LoopOK'
  BY SessionAssumption DEF TypeInv, TypeOK, LoopOK
<1> QED
  BY <1>1, <1>2 DEF TypeInv

LEMMA PrepareTypes ==
    ASSUME TypeInv, SessionInv, NEW m \in Msgs, Prepare(m)
    PROVE  TypeInv'
<1>1. obj[m] \in Objs
  BY DEF Prepare, SessionInv, ObjectsOK, InHand
<1>2. entry' \in [Objs -> Msgs \cup {None}] /\ crossed' \subseteq Msgs
  BY <1>1 DEF Prepare, InjectHistoryEntry, TypeInv, TypeOK
<1>3. /\ step[m] = "resolved" /\ step' = [step EXCEPT ![m] = "queued"]
      /\ UNCHANGED <<log, shown, cache, made, hist, blank, obj, loop, stored, late>>
  BY DEF Prepare, convVars
<1>4. TypeOK'
  BY <1>2, <1>3 DEF TypeInv, TypeOK, Steps
<1>5. LoopOK'
  BY <1>3 DEF TypeInv, TypeOK, LoopOK
<1> QED
  BY <1>4, <1>5 DEF TypeInv

LEMMA BeginTurnTypes ==
    ASSUME TypeInv, SessionInv, NEW m \in Msgs, BeginTurn(m)
    PROVE  TypeInv'
<1>1. obj[m] \in Objs /\ entry[obj[m]] \in Msgs \cup {None}
  BY DEF BeginTurn, SessionInv, ObjectsOK, InHand, TypeInv, TypeOK
<1>2. (IF entry[obj[m]] # None THEN <<"user", entry[obj[m]]>> ELSE <<"wrapped", m>>) \in Entries
  BY <1>1 DEF Entries
<1>3. hist' \in [Objs -> Seq(Entries)]
  BY <1>1, <1>2 DEF BeginTurn, TypeInv, TypeOK
<1>4. entry' \in [Objs -> Msgs \cup {None}] /\ stored' \in [Msgs -> Msgs \cup {None, "wrapped"}]
  BY <1>1 DEF BeginTurn, TypeInv, TypeOK
<1>5. /\ step[m] = "queued" /\ step' = [step EXCEPT ![m] = "infer"]
      /\ UNCHANGED <<log, shown, cache, made, blank, obj, loop, late, crossed>>
  BY DEF BeginTurn, convVars
<1>6. TypeOK'
  BY <1>3, <1>4, <1>5 DEF TypeInv, TypeOK, Steps
<1>7. LoopOK'
  BY <1>5 DEF TypeInv, TypeOK, LoopOK
<1> QED
  BY <1>6, <1>7 DEF TypeInv

LEMMA ResolveTypes ==
    ASSUME TypeInv, SessionInv, NEW m \in Msgs, Resolve(m)
    PROVE  TypeInv'
<1>1. /\ step[m] = "sent" /\ step' = [step EXCEPT ![m] = "resolved"]
      /\ UNCHANGED <<log, shown, entry, loop, stored, late, crossed>>
  BY DEF Resolve, convVars, agentVars
<1>2. LoopOK'
  BY <1>1 DEF TypeInv, TypeOK, LoopOK
<1>3. Cardinality(Objs) = MaxDrops + 1 /\ MaxDrops \in Nat
  BY SessionAssumption, FS_Interval DEF Objs
<1>4. CASE cache # 0
  <2>1. obj' = [obj EXCEPT ![m] = cache] /\ UNCHANGED <<cache, made, hist, blank>>
    BY <1>4 DEF Resolve, agentVars
  <2>2. TypeOK'
    BY <1>1, <2>1 DEF TypeInv, TypeOK, Steps
  <2> QED
    BY <1>2, <2>2 DEF TypeInv
<1>5. CASE cache = 0
  <2> DEFINE msgs == messagesToChatHistory(ListConversationHistory(HistoryLimit))
  <2>1. /\ made' = made + 1 /\ cache' = made + 1
        /\ obj' = [obj EXCEPT ![m] = made + 1]
        /\ hist' = hist \/ hist' = [hist EXCEPT ![made + 1] = msgs \o @]
        /\ blank' = blank \/ blank' = blank \cup {made + 1}
    BY <1>5 DEF Resolve, SeedHistory
  <2>2. made \in Nat /\ made <= MaxDrops
    BY <1>5 DEF SessionInv, CallsOK, ObjectsOK
  <2>3. made + 1 \in Objs /\ made + 1 \in 0..Cardinality(Objs)
    BY <1>3, <2>2 DEF Objs
  <2>4. log \in Seq(Kinds \X Msgs) /\ HistoryLimit \in Nat
    BY SessionAssumption DEF TypeInv, TypeOK
  <2>5. msgs \in Seq(Entries)
    BY <2>4, LastMessages, ChatEntries
  <2> HIDE DEF msgs
  <2>6. hist' \in [Objs -> Seq(Entries)]
    <3>1. hist \in [Objs -> Seq(Entries)]
      BY DEF TypeInv, TypeOK
    <3>2. msgs \o hist[made + 1] \in Seq(Entries)
      BY <2>3, <2>5, <3>1
    <3> QED
      BY <2>1, <3>1, <3>2
  <2>7. obj' \in [Msgs -> 0..made'] /\ cache' \in 0..made' /\ made' \in 0..Cardinality(Objs)
    <3>1. \A n \in 0..made : n \in 0..(made + 1)
      BY <2>2
    <3>2. obj \in [Msgs -> 0..(made + 1)]
      BY <3>1 DEF TypeInv, TypeOK
    <3>3. made + 1 \in 0..(made + 1)
      BY <2>2
    <3> QED
      BY <2>1, <2>3, <3>2, <3>3
  <2>9. blank' \subseteq Objs
    BY <2>1, <2>3 DEF TypeInv, TypeOK
  <2>8. TypeOK'
    BY <1>1, <2>6, <2>7, <2>9 DEF TypeInv, TypeOK, Steps
  <2> QED
    BY <1>2, <2>8 DEF TypeInv
<1> QED
  BY <1>4, <1>5

LEMMA TypesStep == TypeInv /\ SessionInv /\ [Next]_vars => TypeInv'
<1> SUFFICES ASSUME TypeInv, SessionInv, [Next]_vars PROVE TypeInv'
  OBVIOUS
<1>t. /\ log \in Seq(Kinds \X Msgs) /\ hist \in [Objs -> Seq(Entries)]
      /\ entry \in [Objs -> Msgs \cup {None}] /\ stored \in [Msgs -> Msgs \cup {None, "wrapped"}]
      /\ crossed \subseteq Msgs /\ shown \in [Msgs -> Outcomes] /\ loop \in [Msgs -> 0..MaxToolLoops]
      /\ step \in [Msgs -> Steps] /\ MaxToolLoops \in Nat
  BY SessionAssumption DEF TypeInv, TypeOK
<1>k. \A m \in Msgs : shown = [shown EXCEPT ![m] = shown[m]] /\ loop = [loop EXCEPT ![m] = loop[m]]
                      /\ shown[m] \in Outcomes /\ loop[m] \in 0..MaxToolLoops
                      /\ (step[m] # "ended" => loop[m] < MaxToolLoops)
  BY <1>t DEF TypeInv, LoopOK
<1>e. \A e \in {"sent", "tool", "reply", "infer", "ended"} : e \in Steps
  BY DEF Steps
<1>o. \A o \in {"reply", "consult", "timeout", "stopped", "error"} : o \in Outcomes
  BY DEF Outcomes
<1>1. ASSUME NEW m \in Msgs, Send(m) PROVE TypeInv'
  <2>1. log' \in Seq(Kinds \X Msgs)
    BY <1>t, <1>1 DEF Send, Kinds
  <2>2. step[m] = "idle" /\ step' = [step EXCEPT ![m] = "sent"]
        /\ UNCHANGED <<shown, cache, made, hist, entry, blank, obj, loop, stored, late, crossed>>
    BY <1>1 DEF Send, agentVars
  <2> QED
    BY <1>t, <1>k, <1>e, <2>1, <2>2, CallTypes
<1>2. ASSUME NEW m \in Msgs, NEW outcome \in {"error", "timeout", "stopped"}, End(m, outcome),
             UNCHANGED <<log, agentVars, obj, loop, stored, late, crossed>>
      PROVE  TypeInv'
  BY <1>t, <1>k, <1>e, <1>o, <1>2, CallTypes DEF End, agentVars
<1>3. ASSUME NEW m \in Msgs, Deliver(m) PROVE TypeInv'
  <2>1. log' \in Seq(Kinds \X Msgs)
    BY <1>t, <1>3 DEF Deliver, Kinds
  <2> QED
    BY <1>t, <1>k, <1>e, <1>o, <1>3, <2>1, CallTypes DEF Deliver, End, agentVars
<1>4. ASSUME NEW m \in Msgs, NEW resp \in Responses, Respond(m, resp) PROVE TypeInv'
  <2>1. obj[m] \in Objs /\ step[m] = "infer"
    BY <1>4 DEF Respond, SessionInv, ObjectsOK, InHand
  <2>2. <<"assistant", m>> \in Entries
    BY DEF Entries
  <2>3. [hist EXCEPT ![obj[m]] = Append(@, <<"assistant", m>>)] \in [Objs -> Seq(Entries)]
    BY <1>t, <2>1, <2>2
  <2>4. hist' \in [Objs -> Seq(Entries)]
    <3>1. hist' = hist \/ hist' = [hist EXCEPT ![obj[m]] = Append(@, <<"assistant", m>>)]
      BY <1>4 DEF Respond, Consult, Escalate, CallTool, Reply, RememberVisible
    <3> QED
      BY <1>t, <2>3, <3>1
  <2>5. log' \in Seq(Kinds \X Msgs)
    <3>1. log' = log \/ log' = Append(log, <<"consultation", m>>)
      BY <1>4 DEF Respond, Consult, Escalate, CallTool, Reply, convVars
    <3>2. <<"consultation", m>> \in Kinds \X Msgs
      BY DEF Kinds
    <3>3. log \in Seq(Kinds \X Msgs)
      BY <1>t
    <3>4. Append(log, <<"consultation", m>>) \in Seq(Kinds \X Msgs)
      BY <3>2, <3>3, AppendProperties
    <3> QED
      BY <3>1, <3>3, <3>4
  <2>6. \E at \in {"tool", "reply", "ended"} : step' = [step EXCEPT ![m] = at]
    BY <1>4 DEF Respond, Consult, Escalate, CallTool, Reply, End
  <2>7. \E outcome \in Outcomes : shown' = [shown EXCEPT ![m] = outcome]
    <3>1. \/ shown' = shown
          \/ shown' = [shown EXCEPT ![m] = "consult"]
          \/ shown' = [shown EXCEPT ![m] = "error"]
      BY <1>4 DEF Respond, Consult, Escalate, CallTool, Reply, End, convVars
    <3> QED
      BY <1>k, <1>o, <3>1
  <2>8. UNCHANGED <<cache, made, entry, blank, obj, loop, stored, late, crossed>>
    BY <1>4 DEF Respond
  <2>9. PICK at \in {"tool", "reply", "ended"} : step' = [step EXCEPT ![m] = at]
    BY <2>6
  <2>10. PICK outcome \in Outcomes : shown' = [shown EXCEPT ![m] = outcome]
    BY <2>7
  <2>11. /\ at \in Steps /\ loop' = [loop EXCEPT ![m] = loop[m]]
         /\ loop[m] \in 0..MaxToolLoops /\ loop[m] < MaxToolLoops
    BY <1>k, <1>e, <2>1, <2>8
  <2> QED
    BY <1>t, <2>4, <2>5, <2>8, <2>9, <2>10, <2>11, CallTypes
<1>5. ASSUME NEW m \in Msgs, ToolDone(m) PROVE TypeInv'
  <2>1. obj[m] \in Objs /\ step[m] = "tool"
    BY <1>5 DEF ToolDone, SessionInv, ObjectsOK, InHand
  <2>2. <<<<"call", m>>, <<"result", m>>>> \in Seq(Entries)
    BY DEF Entries
  <2>3. hist' \in [Objs -> Seq(Entries)]
    BY <1>t, <1>5, <2>1, <2>2 DEF ToolDone
  <2>4. loop[m] + 1 \in 0..MaxToolLoops /\ loop' = [loop EXCEPT ![m] = loop[m] + 1]
    <3>1. loop[m] \in 0..MaxToolLoops /\ loop[m] < MaxToolLoops
      BY <1>k, <2>1
    <3>2. loop' = [loop EXCEPT ![m] = loop[m] + 1]
      BY <1>t, <1>5 DEF ToolDone, NextLoop
    <3> QED
      BY <1>t, <3>1, <3>2
  <2>5. \E at \in {"infer", "ended"} :
            step' = [step EXCEPT ![m] = at] /\ (at # "ended" => loop[m] + 1 < MaxToolLoops)
    BY <1>5 DEF ToolDone, NextLoop, End
  <2>6. \E outcome \in Outcomes : shown' = [shown EXCEPT ![m] = outcome]
    BY <1>k, <1>o, <1>5 DEF ToolDone, NextLoop, End
  <2>7. UNCHANGED <<log, cache, made, entry, blank, obj, stored, late, crossed>>
    BY <1>5 DEF ToolDone
  <2> QED
    BY <1>t, <1>e, <2>3, <2>4, <2>5, <2>6, <2>7, CallTypes
<1>6. ASSUME InvalidateDMAgent \/ Restart PROVE TypeInv'
  <2>1. /\ cache' = 0 /\ late' \subseteq Msgs
        /\ UNCHANGED <<log, made, hist, entry, blank, obj, loop, stored, crossed>>
    BY <1>6 DEF InvalidateDMAgent, Restart, Dropped, convVars, callVars, TypeInv, TypeOK
  <2>2. /\ step' \in [Msgs -> Steps] /\ shown' \in [Msgs -> Outcomes]
        /\ \A m \in Msgs : step'[m] # "ended" => step[m] # "ended"
    BY <1>t, <1>6 DEF InvalidateDMAgent, Restart, convVars, callVars, Steps, Outcomes
  <2>3. TypeOK'
    BY <2>1, <2>2 DEF TypeInv, TypeOK
  <2>4. LoopOK'
    BY <2>1, <2>2 DEF TypeInv, LoopOK
  <2> QED
    BY <2>3, <2>4 DEF TypeInv
<1>7. CASE UNCHANGED vars
  BY <1>7 DEF vars, convVars, agentVars, callVars, TypeInv, TypeOK, LoopOK
<1>8. ASSUME NEW m \in Msgs, StoppedInQueue(m) \/ InferFails(m) PROVE TypeInv'
  BY <1>2, <1>8 DEF StoppedInQueue, InferFails
<1> QED
  BY <1>1, <1>3, <1>4, <1>5, <1>6, <1>7, <1>8, ResolveTypes, PrepareTypes, BeginTurnTypes
     DEF Next, CallStep

(* The direct-message session is well formed: an entry set aside is a        *)
(* message or nothing, a call works on an object that was made, and no turn *)
(* runs its tool loop more often than maxToolLoops.                         *)
THEOREM SessionTypes == Spec => []TypeOK
<1>1. Init => TypeInv /\ SessionInv
  BY InitTypes, InitSession
<1>2. TypeInv /\ SessionInv /\ [Next]_vars => TypeInv' /\ SessionInv'
  BY TypesStep, SessionStep
<1>3. TypeInv => TypeOK
  BY DEF TypeInv
<1> QED
  BY <1>1, <1>2, <1>3, PTL DEF Spec

-----------------------------------------------------------------------------
(* What the agent remembers.                                                *)

Remembers(o, m) == <<"assistant", m>> \in Range_(hist[o])

(* While its object is the cached one, a call works on it; a reply that is  *)
(* to be dispatched is already in the history, and one that the Boss has is *)
(* in the conversation, and its call over.                                  *)
MemoryInv ==
    /\ \A m \in Msgs \ late : InHand(m) => cache # 0 /\ obj[m] = cache
    /\ \A m \in Msgs : step[m] = "reply" => Remembers(obj[m], m)
    /\ \A m \in Msgs : shown[m] = "reply" => step[m] = "ended"
    /\ \A m \in Msgs : shown[m] = "reply" => \E i \in DOMAIN log : log[i] = <<"agent_message", m>>
    /\ RepliesRemembered

LEMMA InitMemory == Init => MemoryInv
BY DEF Init, MemoryInv, RepliesRemembered, InHand

LEMMA AppendKeeps ==
    ASSUME NEW T, NEW q \in Seq(T), NEW e \in T
    PROVE  /\ \A i \in DOMAIN q : i \in DOMAIN Append(q, e) /\ Append(q, e)[i] = q[i]
           /\ Append(q, e)[Len(q) + 1] = e /\ Len(q) + 1 \in DOMAIN Append(q, e)
           /\ Range_(q) \subseteq Range_(Append(q, e))
           /\ e \in Range_(Append(q, e))
BY DEF Range_

LEMMA ConcatKeeps ==
    ASSUME NEW T, NEW p \in Seq(T), NEW q \in Seq(T)
    PROVE  Range_(p) \subseteq Range_(p \o q) /\ Range_(q) \subseteq Range_(p \o q)
<1>1. /\ Len(p) \in Nat /\ Len(q) \in Nat
      /\ DOMAIN p = 1..Len(p) /\ DOMAIN q = 1..Len(q) /\ DOMAIN (p \o q) = 1..(Len(p) + Len(q))
  OBVIOUS
<1>2. \A i \in 1..Len(p) : i \in DOMAIN (p \o q) /\ (p \o q)[i] = p[i]
  BY <1>1
<1>3. \A i \in 1..Len(q) : Len(p) + i \in DOMAIN (p \o q) /\ (p \o q)[Len(p) + i] = q[i]
  BY <1>1
<1> QED
  BY <1>1, <1>2, <1>3 DEF Range_

(* A step of a call that makes no object: histories and the conversation    *)
(* only grow, and a reply is dispatched once it is in the history.          *)
LEMMA CallRemembers ==
    ASSUME MemoryInv, TypeInv, SessionInv, NEW m \in Msgs, NEW at \in Steps,
           step' = [step EXCEPT ![m] = at],
           InHand(m) \/ at \in {"sent", "ended"}, step[m] # "ended",
           UNCHANGED <<cache, obj, late, blank>>,
           \A o \in Objs : Range_(hist[o]) \subseteq Range_(hist'[o]),
           log' = log \/ \E r \in Kinds \X Msgs : log' = Append(log, r),
           at = "reply" => Remembers(obj[m], m)',
           \/ shown' = shown
           \/ \E outcome \in Outcomes \ {"reply"} : shown' = [shown EXCEPT ![m] = outcome]
           \/ /\ step[m] = "reply" /\ at = "ended" /\ shown' = [shown EXCEPT ![m] = "reply"]
              /\ log' = Append(log, <<"agent_message", m>>)
    PROVE  MemoryInv'
<1>t. /\ log \in Seq(Kinds \X Msgs) /\ step \in [Msgs -> Steps] /\ shown \in [Msgs -> Outcomes]
      /\ HistoryLimit \in Nat /\ made <= MaxDrops + 1 /\ made \in Nat /\ MaxDrops \in Nat
      /\ cache \in 0..made
  BY SessionAssumption DEF TypeInv, TypeOK, SessionInv, ObjectsOK, CallsOK
<1>1. \A i \in DOMAIN log : i \in DOMAIN log' /\ log'[i] = log[i]
  BY <1>t, AppendKeeps
<1>2. Len(log) \in Nat /\ Len(log') \in Nat /\ Len(log') >= Len(log)
      /\ DOMAIN log = 1..Len(log) /\ DOMAIN log' = 1..Len(log')
  BY <1>t
<1>3. cache # 0 => cache \in Objs
  BY <1>t DEF Objs
<1>4. \A o \in Objs, n \in Msgs : Remembers(o, n) => Remembers(o, n)'
  BY DEF Remembers
<1>5. \A n \in Msgs \ late' : InHand(n)' => cache' # 0 /\ obj'[n] = cache'
  BY <1>t DEF MemoryInv, InHand
<1>6. ASSUME NEW n \in Msgs, step'[n] = "reply" PROVE Remembers(obj[n], n)'
  <2>1. CASE n = m
    BY <1>t, <1>6, <2>1
  <2>2. CASE n # m
    <3>1. step[n] = "reply"
      BY <1>t, <1>6, <2>2
    <3>2. obj[n] \in Objs
      BY <3>1 DEF SessionInv, ObjectsOK, InHand
    <3> QED
      BY <1>4, <3>1, <3>2 DEF MemoryInv
  <2> QED
    BY <2>1, <2>2
<1>7. ASSUME NEW n \in Msgs, shown'[n] = "reply"
      PROVE  shown[n] = "reply" \/ (n = m /\ step[m] = "reply" /\ at = "ended" /\ log' = Append(log, <<"agent_message", m>>))
  BY <1>t, <1>7
<1>8. ASSUME NEW n \in Msgs, shown'[n] = "reply"
      PROVE  \E i \in DOMAIN log' : log'[i] = <<"agent_message", n>>
  <2>1. CASE shown[n] = "reply"
    BY <1>1, <2>1 DEF MemoryInv
  <2>2. CASE n = m /\ log' = Append(log, <<"agent_message", m>>)
    <3>1. <<"agent_message", m>> \in Kinds \X Msgs
      BY DEF Kinds
    <3> QED
      BY <1>t, <2>2, <3>1, AppendKeeps
  <2> QED
    BY <1>7, <1>8, <2>1, <2>2
<1>10. \A n \in Msgs : shown'[n] = "reply" => step'[n] = "ended"
  BY <1>t, <1>7 DEF MemoryInv
<1>9. RepliesRemembered'
  <2> SUFFICES ASSUME cache # 0, NEW n \in Msgs \ late, shown'[n] = "reply", cache \in blank => obj[n] = cache
               PROVE  \/ Remembers(cache, n)'
                      \/ \E i \in 1..(Len(log') - HistoryLimit) : log'[i] = <<"agent_message", n>>
    BY DEF RepliesRemembered, Remembers
  <2>1. CASE shown[n] = "reply"
    <3>1. CASE Remembers(cache, n)
      BY <1>3, <1>4, <3>1
    <3>2. CASE \E i \in 1..(Len(log) - HistoryLimit) : log[i] = <<"agent_message", n>>
      <4>1. PICK i \in 1..(Len(log) - HistoryLimit) : log[i] = <<"agent_message", n>>
        BY <3>2
      <4> DEFINE before == Len(log)
                 after == Len(log')
      <4>2. before \in Nat /\ after \in Nat /\ after >= before /\ HistoryLimit \in Nat
            /\ i \in 1..(before - HistoryLimit)
        BY <1>t, <1>2, <4>1
      <4>3. i \in 1..before /\ i \in 1..(after - HistoryLimit)
        <5> HIDE DEF before, after
        <5> QED
          BY <4>2
      <4> QED
        BY <1>1, <1>2, <4>1, <4>3
    <3> QED
      BY <2>1, <3>1, <3>2 DEF MemoryInv, RepliesRemembered, Remembers
  <2>2. CASE n = m /\ step[m] = "reply"
    <3>1. obj[m] = cache /\ Remembers(obj[m], m)
      BY <2>2 DEF MemoryInv, InHand
    <3> QED
      BY <1>3, <1>4, <2>2, <3>1
  <2> QED
    BY <1>7, <2>1, <2>2
<1> QED
  BY <1>5, <1>6, <1>8, <1>9, <1>10 DEF MemoryInv, Remembers

LEMMA ResolveRemembers ==
    ASSUME MemoryInv, TypeInv, SessionInv, NEW m \in Msgs, Resolve(m)
    PROVE  MemoryInv'
<1>t. /\ log \in Seq(Kinds \X Msgs) /\ step \in [Msgs -> Steps] /\ obj \in [Msgs -> 0..made]
      /\ hist \in [Objs -> Seq(Entries)] /\ made \in Nat /\ cache \in 0..made /\ HistoryLimit \in Nat
  BY SessionAssumption DEF TypeInv, TypeOK, SessionInv, CallsOK
<1>1. /\ step[m] = "sent" /\ step' = [step EXCEPT ![m] = "resolved"]
      /\ UNCHANGED <<log, shown, late>>
  BY DEF Resolve, convVars
<1>4. \A n \in Msgs : shown'[n] = "reply" => n # m /\ step'[n] = "ended"
  BY <1>t, <1>1 DEF MemoryInv
<1>2. CASE cache # 0
  <2>1. obj' = [obj EXCEPT ![m] = cache] /\ UNCHANGED <<cache, hist, blank>>
    BY <1>2 DEF Resolve, agentVars
  <2>2. \A n \in Msgs \ late : InHand(n)' => cache' # 0 /\ obj'[n] = cache'
    BY <1>t, <1>1, <1>2, <2>1 DEF MemoryInv, InHand
  <2>3. \A n \in Msgs : step'[n] = "reply" => n # m /\ step[n] = "reply"
    BY <1>t, <1>1
  <2>4. \A n \in Msgs : step'[n] = "reply" => Remembers(obj[n], n)' /\ obj'[n] = obj[n]
    BY <1>t, <2>1, <2>3 DEF MemoryInv, Remembers
  <2>6. \A n \in Msgs : shown[n] = "reply" => obj'[n] = obj[n]
    BY <1>t, <1>1, <1>4, <2>1
  <2>5. RepliesRemembered'
    BY <1>1, <2>1, <2>6 DEF MemoryInv, RepliesRemembered
  <2> QED
    BY <1>1, <1>4, <2>2, <2>4, <2>5 DEF MemoryInv, Remembers
<1>3. CASE cache = 0
  <2> DEFINE said == ListConversationHistory(HistoryLimit)
             new == made + 1
  <2>1. /\ cache' = new /\ obj' = [obj EXCEPT ![m] = new]
        /\ \/ hist' = [hist EXCEPT ![new] = messagesToChatHistory(said) \o @]
           \/ UNCHANGED hist /\ new \in blank'
    BY <1>3 DEF Resolve, SeedHistory
  <2>2. new \in Objs /\ new # 0
    BY <1>3, SessionAssumption DEF SessionInv, CallsOK, ObjectsOK, Objs
  <2>3. said \in Seq(Kinds \X Msgs) /\ messagesToChatHistory(said) \in Seq(Entries)
    BY <1>t, LastMessages, ChatEntries
  <2>4. \A o \in Objs : Range_(hist[o]) \subseteq Range_(hist'[o])
    <3> TAKE o \in Objs
    <3>1. hist[o] \in Seq(Entries)
      BY <1>t
    <3>4. CASE UNCHANGED hist
      BY <3>4
    <3>2. CASE o = new /\ ~UNCHANGED hist
      <4>1. hist'[o] = messagesToChatHistory(said) \o hist[o]
        BY <1>t, <2>1, <2>2, <3>2
      <4> HIDE DEF said
      <4> QED
        BY <2>3, <3>1, <4>1, ConcatKeeps
    <3>3. CASE o # new
      BY <1>t, <2>1, <3>3
    <3> QED
      BY <3>2, <3>3, <3>4
  <2>5. ASSUME new \notin blank'
        PROVE  Range_(messagesToChatHistory(said)) \subseteq Range_(hist'[new])
    <3>1. hist[new] \in Seq(Entries) /\ hist'[new] = messagesToChatHistory(said) \o hist[new]
      BY <1>t, <2>1, <2>2, <2>5
    <3> HIDE DEF said
    <3> QED
      BY <2>3, <3>1, ConcatKeeps
  <2>6. \A n \in Msgs \ late : ~InHand(n)
    BY <1>3 DEF MemoryInv
  <2>7. \A n \in Msgs \ late' : InHand(n)' => cache' # 0 /\ obj'[n] = cache'
    <3>1. \A n \in Msgs : n # m => step'[n] = step[n]
      BY <1>t, <1>1
    <3>2. obj'[m] = new
      BY <1>t, <2>1
    <3> HIDE DEF new
    <3> QED
      BY <1>1, <2>1, <2>2, <2>6, <3>1, <3>2 DEF InHand
  <2>8. ASSUME NEW n \in Msgs, step'[n] = "reply" PROVE Remembers(obj[n], n)'
    <3>1. n # m /\ step[n] = "reply"
      BY <1>t, <1>1, <2>8
    <3>2. obj[n] \in Objs /\ obj'[n] = obj[n]
      BY <1>t, <2>1, <3>1 DEF SessionInv, ObjectsOK, InHand
    <3> QED
      BY <2>4, <3>1, <3>2 DEF MemoryInv, Remembers
  <2>9. ASSUME NEW n \in Msgs, shown[n] = "reply", new \notin blank'
        PROVE  \/ <<"assistant", n>> \in Range_(hist'[new])
               \/ \E i \in 1..(Len(log) - HistoryLimit) : log[i] = <<"agent_message", n>>
    <3>1. PICK i \in DOMAIN log : log[i] = <<"agent_message", n>>
      BY <2>9 DEF MemoryInv
    <3>2. DOMAIN log = 1..Len(log) /\ Len(log) \in Nat
      BY <1>t
    <3>3. CASE i <= Len(log) - HistoryLimit
      <4>1. i \in 1..(Len(log) - HistoryLimit)
        BY <1>t, <3>2, <3>3
      <4> QED
        BY <3>1, <4>1
    <3>4. CASE i > Len(log) - HistoryLimit
      <4>1. PICK k \in DOMAIN said : said[k] = log[i]
        BY <1>t, <3>4, LastMessages
      <4>2. k \in DOMAIN messagesToChatHistory(said) /\ messagesToChatHistory(said)[k] = <<"assistant", n>>
        <5> HIDE DEF said
        <5> QED
          BY <3>1, <4>1 DEF messagesToChatHistory
      <4> HIDE DEF said
      <4>3. <<"assistant", n>> \in Range_(messagesToChatHistory(said))
        BY <4>2 DEF Range_
      <4> QED
        BY <2>5, <2>9, <4>3
    <3>5. i \in Int /\ HistoryLimit \in Int
      BY <1>t, <3>2
    <3> QED
      BY <3>2, <3>3, <3>4, <3>5
  <2>12. \A n \in Msgs : shown'[n] = "reply" => obj'[n] # new
    BY <1>t, <1>4, <2>1
  <2>10. RepliesRemembered'
    <3> HIDE DEF new, said
    <3> QED
      BY <1>1, <2>1, <2>9, <2>12 DEF RepliesRemembered
  <2>11. \A n \in Msgs : step'[n] = "reply" => Remembers(obj[n], n)' /\ obj'[n] = obj[n]
    BY <1>t, <1>1, <2>1, <2>8
  <2> QED
    BY <1>1, <1>4, <2>7, <2>10, <2>11 DEF MemoryInv, Remembers
<1> QED
  BY <1>2, <1>3

LEMMA MemoryStep == MemoryInv /\ TypeInv /\ SessionInv /\ [Next]_vars => MemoryInv'
<1> SUFFICES ASSUME MemoryInv, TypeInv, SessionInv, [Next]_vars PROVE MemoryInv'
  OBVIOUS
<1>t. /\ log \in Seq(Kinds \X Msgs) /\ hist \in [Objs -> Seq(Entries)] /\ step \in [Msgs -> Steps]
      /\ shown \in [Msgs -> Outcomes]
  BY DEF TypeInv, TypeOK
<1>e. \A at \in {"sent", "queued", "tool", "reply", "infer", "ended"} : at \in Steps
  BY DEF Steps
<1>h. ASSUME NEW o \in Objs, NEW e \in Seq(Entries), hist' = [hist EXCEPT ![o] = @ \o e]
      PROVE  \A x \in Objs : Range_(hist[x]) \subseteq Range_(hist'[x])
  BY <1>t, <1>h, ConcatKeeps
<1>g. ASSUME NEW o \in Objs, NEW e \in Entries, hist' = [hist EXCEPT ![o] = Append(@, e)]
      PROVE  /\ \A x \in Objs : Range_(hist[x]) \subseteq Range_(hist'[x])
             /\ e \in Range_(hist'[o])
  BY <1>t, <1>g, AppendKeeps
<1>1. ASSUME NEW m \in Msgs, Send(m) PROVE MemoryInv'
  <2>1. <<"boss_command", m>> \in Kinds \X Msgs
    BY DEF Kinds
  <2> QED
    BY <1>e, <1>1, <2>1, CallRemembers DEF Send, agentVars
<1>2. ASSUME NEW m \in Msgs, Prepare(m) PROVE MemoryInv'
  BY <1>e, <1>2, CallRemembers DEF Prepare, convVars, InHand
<1>3. ASSUME NEW m \in Msgs, StoppedInQueue(m) \/ InferFails(m) PROVE MemoryInv'
  <2>1. PICK outcome \in {"error", "timeout", "stopped"} : End(m, outcome)
    BY <1>3 DEF StoppedInQueue, InferFails
  <2>2. UNCHANGED <<log, cache, hist, obj, late, blank>> /\ step[m] # "ended"
    BY <1>3 DEF StoppedInQueue, InferFails, agentVars
  <2>3. outcome \in Outcomes \ {"reply"}
    BY DEF Outcomes
  <2> QED
    BY <1>e, <2>1, <2>2, <2>3, CallRemembers DEF End
<1>4. ASSUME NEW m \in Msgs, BeginTurn(m) PROVE MemoryInv'
  <2>1. step[m] = "queued" /\ step' = [step EXCEPT ![m] = "infer"]
        /\ UNCHANGED <<log, shown, cache, obj, late, blank>>
    BY <1>4 DEF BeginTurn, convVars
  <2>2. obj[m] \in Objs
    BY <2>1 DEF SessionInv, ObjectsOK, InHand
  <2> DEFINE e == IF entry[obj[m]] # None THEN <<"user", entry[obj[m]]>> ELSE <<"wrapped", m>>
  <2>3. e \in Entries
    BY <2>2 DEF TypeInv, TypeOK, Entries
  <2>5. hist' = [hist EXCEPT ![obj[m]] = Append(@, e)]
    BY <1>4 DEF BeginTurn
  <2> HIDE DEF e
  <2>4. \A x \in Objs : Range_(hist[x]) \subseteq Range_(hist'[x])
    BY <1>g, <2>2, <2>3, <2>5
  <2> QED
    BY <1>e, <2>1, <2>4, CallRemembers DEF InHand
<1>5. ASSUME NEW m \in Msgs, NEW resp \in Responses, Respond(m, resp) PROVE MemoryInv'
  <2>1. step[m] = "infer" /\ UNCHANGED <<cache, obj, late, blank>>
    BY <1>5 DEF Respond
  <2>2. obj[m] \in Objs /\ <<"assistant", m>> \in Entries
    BY <2>1 DEF SessionInv, ObjectsOK, InHand, Entries
  <2>3. hist' = hist \/ hist' = [hist EXCEPT ![obj[m]] = Append(@, <<"assistant", m>>)]
    BY <1>5 DEF Respond, Consult, Escalate, CallTool, Reply, RememberVisible
  <2>4. \A x \in Objs : Range_(hist[x]) \subseteq Range_(hist'[x])
    BY <1>g, <2>2, <2>3
  <2>6. \/ /\ step' = [step EXCEPT ![m] = "reply"]
           /\ hist' = [hist EXCEPT ![obj[m]] = Append(@, <<"assistant", m>>)]
           /\ UNCHANGED <<log, shown>>
        \/ step' = [step EXCEPT ![m] = "tool"] /\ UNCHANGED <<log, shown>>
        \/ /\ step' = [step EXCEPT ![m] = "ended"]
           /\ shown' = [shown EXCEPT ![m] = "consult"] /\ log' = Append(log, <<"consultation", m>>)
        \/ /\ step' = [step EXCEPT ![m] = "ended"]
           /\ shown' = [shown EXCEPT ![m] = "error"] /\ UNCHANGED log
    BY <1>5 DEF Respond, Consult, Escalate, CallTool, Reply, End, convVars
  <2>7. <<"consultation", m>> \in Kinds \X Msgs /\ {"consult", "error"} \subseteq Outcomes \ {"reply"}
    BY DEF Kinds, Outcomes
  <2> QED
    <3>1. CASE /\ step' = [step EXCEPT ![m] = "reply"]
               /\ hist' = [hist EXCEPT ![obj[m]] = Append(@, <<"assistant", m>>)]
               /\ UNCHANGED <<log, shown>>
      <4>1. Remembers(obj[m], m)'
        BY <1>g, <2>1, <2>2, <3>1 DEF Remembers
      <4> QED
        BY <1>e, <2>1, <2>4, <3>1, <4>1, CallRemembers DEF InHand
    <3>2. CASE step' = [step EXCEPT ![m] = "tool"] /\ UNCHANGED <<log, shown>>
      BY <1>e, <2>1, <2>4, <3>2, CallRemembers DEF InHand
    <3>3. CASE /\ step' = [step EXCEPT ![m] = "ended"]
               /\ shown' = [shown EXCEPT ![m] = "consult"] /\ log' = Append(log, <<"consultation", m>>)
      BY <1>e, <2>1, <2>4, <2>7, <3>3, CallRemembers DEF InHand
    <3>4. CASE /\ step' = [step EXCEPT ![m] = "ended"]
               /\ shown' = [shown EXCEPT ![m] = "error"] /\ UNCHANGED log
      BY <1>e, <2>1, <2>4, <2>7, <3>4, CallRemembers DEF InHand
    <3> QED
      BY <2>6, <3>1, <3>2, <3>3, <3>4
<1>6. ASSUME NEW m \in Msgs, ToolDone(m) PROVE MemoryInv'
  <2>1. step[m] = "tool" /\ UNCHANGED <<log, cache, obj, late, blank>>
        /\ hist' = [hist EXCEPT ![obj[m]] = @ \o <<<<"call", m>>, <<"result", m>>>>]
    BY <1>6 DEF ToolDone
  <2>2. obj[m] \in Objs /\ <<<<"call", m>>, <<"result", m>>>> \in Seq(Entries)
    BY <2>1 DEF SessionInv, ObjectsOK, InHand, Entries
  <2>3. \A x \in Objs : Range_(hist[x]) \subseteq Range_(hist'[x])
    BY <1>h, <2>1, <2>2
  <2>4. \/ step' = [step EXCEPT ![m] = "infer"] /\ UNCHANGED shown
        \/ step' = [step EXCEPT ![m] = "ended"] /\ shown' = [shown EXCEPT ![m] = "error"]
    BY <1>6 DEF ToolDone, NextLoop, End
  <2>5. "error" \in Outcomes \ {"reply"}
    BY DEF Outcomes
  <2> QED
    BY <1>e, <2>1, <2>3, <2>4, <2>5, CallRemembers DEF InHand
<1>7. ASSUME NEW m \in Msgs, Deliver(m) PROVE MemoryInv'
  <2>1. /\ step[m] = "reply" /\ step' = [step EXCEPT ![m] = "ended"]
        /\ shown' = [shown EXCEPT ![m] = "reply"] /\ log' = Append(log, <<"agent_message", m>>)
        /\ UNCHANGED <<cache, hist, obj, late, blank>>
    BY <1>7 DEF Deliver, End, agentVars
  <2>2. <<"agent_message", m>> \in Kinds \X Msgs
    BY DEF Kinds
  <2> QED
    BY <1>e, <2>1, <2>2, CallRemembers
<1>8. ASSUME InvalidateDMAgent \/ Restart PROVE MemoryInv'
  <2>1. cache' = 0 /\ late' = late \cup {m \in Msgs : InHand(m)} /\ UNCHANGED <<log, hist, obj, blank>>
    BY <1>8 DEF InvalidateDMAgent, Restart, Dropped, convVars, callVars
  <2>2. \A m \in Msgs : /\ step'[m] = step[m] \/ step'[m] = "ended"
                        /\ shown'[m] = "reply" => shown[m] = "reply"
                        /\ step[m] = "ended" => step'[m] = "ended"
    BY <1>t, <1>8 DEF InvalidateDMAgent, Restart, convVars, callVars
  <2>3. \A m \in Msgs \ late' : ~InHand(m)'
    BY <2>1, <2>2 DEF InHand
  <2>4. \A m \in Msgs : step'[m] = "reply" => Remembers(obj[m], m)'
    BY <2>1, <2>2 DEF MemoryInv, Remembers
  <2>5. \A m \in Msgs : shown'[m] = "reply" => \E i \in DOMAIN log : log[i] = <<"agent_message", m>>
    BY <2>2 DEF MemoryInv
  <2>7. \A m \in Msgs : shown'[m] = "reply" => step'[m] = "ended"
    BY <2>2 DEF MemoryInv
  <2>6. RepliesRemembered'
    BY <2>1 DEF RepliesRemembered
  <2> QED
    BY <2>1, <2>3, <2>4, <2>5, <2>6, <2>7 DEF MemoryInv, Remembers
<1>9. CASE UNCHANGED vars
  BY <1>9 DEF vars, convVars, agentVars, callVars, MemoryInv, RepliesRemembered, Remembers, InHand
<1> QED
  BY <1>1, <1>2, <1>3, <1>4, <1>5, <1>6, <1>7, <1>8, <1>9, ResolveRemembers DEF Next, CallStep

(* The agent that gets the next message remembers every reply the Boss has  *)
(* of it and that is among the last HistoryLimit messages, unless it was    *)
(* made anew while the reply was on its way, or made without its history     *)
(* by a call whose queries failed.                                          *)
THEOREM AgentRemembers == Spec => []RepliesRemembered
<1>1. Init => MemoryInv /\ TypeInv /\ SessionInv
  BY InitMemory, InitTypes, InitSession
<1>2. MemoryInv /\ TypeInv /\ SessionInv /\ [Next]_vars => MemoryInv' /\ TypeInv' /\ SessionInv'
  BY MemoryStep, TypesStep, SessionStep
<1>3. MemoryInv => RepliesRemembered
  BY DEF MemoryInv
<1> QED
  BY <1>1, <1>2, <1>3, PTL DEF Spec

=============================================================================
