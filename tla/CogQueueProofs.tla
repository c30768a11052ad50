--------------------------- MODULE CogQueueProofs ---------------------------
(* Theorems about CogQueue, for every set of requests, priority assignment  *)
(* and buffer size.                                                         *)
EXTENDS CogQueue, FiniteSetTheorems, SequenceTheorems, TLAPS

(* The error e would be a true answer to request r. *)
Honest(r, e) ==
    /\ e = "fn" => ran[r]
    /\ e = "ctx" => cancelled[r]
    /\ e \in {"dropped", "stopped"} => Prio[r] = P3Background /\ ~ran[r]

(* A buffered request is in its own tier once, unanswered and not started. *)
Buffered(r, p) ==
    /\ Prio[r] = p
    /\ caller[r] \in {"awaiting", "returned"}
    /\ doneCh[r] = "empty"
    /\ ~ran[r]
    /\ reply[r] \in {"none", "ctx"}
    /\ r # cur

BufferedOK ==
    \A p \in Tiers : \A i \in 1..Len(chan[p]) : Buffered(chan[p][i], p)

BufferedOnce ==
    \A p \in Tiers : \A i, j \in 1..Len(chan[p]) :
        chan[p][i] = chan[p][j] => i = j

(* The dispatcher owns a request between dequeue and delivery. *)
OwnedOK ==
    IF disp \in {"dequeue", "stopped"}
    THEN cur = NoReq
    ELSE /\ cur \in Requests
         /\ caller[cur] \in {"awaiting", "returned"}
         /\ doneCh[cur] = "empty"
         /\ reply[cur] \in {"none", "ctx"}
         /\ disp \in {"took", "check", "gate", "throttle"} => ~ran[cur]
         /\ disp = "throttle" => Prio[cur] = P3Background
         /\ disp = "run" => ran[cur]
         /\ disp = "deliver" => Honest(cur, verdict)

(* Nothing has happened to a request that is not yet in a channel. *)
FreshOK ==
    \A r \in Requests :
        /\ caller[r] \in {"idle", "sending"} => doneCh[r] = "empty" /\ ~ran[r]
        /\ reply[r] = "none" <=> caller[r] # "returned"

AnswersHonest ==
    \A r \in Requests : Honest(r, doneCh[r]) /\ Honest(r, reply[r])

(* The scan has passed no tier that was non-empty when it began. *)
ScanOK ==
    /\ disp \notin {"dequeue", "stopped"} => pass = 1
    /\ disp = "dequeue" => \A q \in older : chan[q] # <<>> /\ pass - 1 <= q

IInv ==
    /\ TypeOK
    /\ BufferedOK
    /\ BufferedOnce
    /\ OwnedOK
    /\ FreshOK
    /\ AnswersHonest
    /\ NoLostRequest
    /\ ScanOK

-----------------------------------------------------------------------------
(* Every variable keeps its type.                                           *)
LEMMA TypeStep == TypeOK /\ [Next]_vars => TypeOK'
<1> SUFFICES ASSUME TypeOK, [Next]_vars PROVE TypeOK'
  OBVIOUS
<1> USE DEF TypeOK, CallerStates, DispStates, Errors, callerVars, dispVars, envVars
<1>1. ASSUME NEW r \in Requests, CallerStep(r) PROVE TypeOK'
  <2>0. Prio[r] \in Tiers
    BY PrioAssumption
  <2>1. CASE Submit(r)
    BY <2>0, <2>1 DEF Submit
  <2>2. CASE Enqueue(r)
    <3>1. /\ chan[Prio[r]] \in Seq(Requests)
          /\ Append(chan[Prio[r]], r) \in Seq(Requests)
          /\ Len(Append(chan[Prio[r]], r)) = Len(chan[Prio[r]]) + 1
      BY <2>0, AppendProperties
    <3>2. chan' = [chan EXCEPT ![Prio[r]] = Append(chan[Prio[r]], r)]
      BY <2>2 DEF Enqueue
    <3>3. Len(chan[Prio[r]]) < Capacity[Prio[r]] /\ Len(chan[Prio[r]]) \in Nat
      BY <2>2, <3>1, LenProperties DEF Enqueue
    <3>4. Capacity[Prio[r]] \in Nat
      BY <2>0, CapacityAssumption
    <3>5. chan' \in [Tiers -> Seq(Requests)]
      BY <3>1, <3>2
    <3>6. ASSUME NEW q \in Tiers PROVE Len(chan'[q]) <= Capacity[q]
      BY <2>0, <3>1, <3>2, <3>3, <3>4
    <3> QED
      BY <2>2, <3>5, <3>6 DEF Enqueue
  <2>3. CASE Abandon(r)
    BY <2>0, <2>3 DEF Abandon
  <2>4. CASE ReceiveResult(r)
    BY <2>4 DEF ReceiveResult
  <2>5. CASE GiveUp(r)
    BY <2>5 DEF GiveUp
  <2>6. CASE Cancel(r)
    BY <2>6 DEF Cancel
  <2>7. CASE Forget(r)
    BY <2>7 DEF Forget
  <2> QED
    BY <1>1, <2>1, <2>2, <2>3, <2>4, <2>5, <2>6, <2>7 DEF CallerStep
<1>2. ASSUME NEW p \in Tiers, Dequeue(p) PROVE TypeOK'
  <2>1. /\ Head(chan[p]) \in Requests
        /\ Tail(chan[p]) \in Seq(Requests)
        /\ Len(Tail(chan[p])) = Len(chan[p]) - 1
    BY <1>2, HeadTailProperties DEF Dequeue
  <2>2. /\ chan' \in [Tiers -> Seq(Requests)]
        /\ \A q \in Tiers : Len(chan'[q]) <= Capacity[q]
    <3>1. chan' = [chan EXCEPT ![p] = Tail(chan[p])]
      BY <1>2 DEF Dequeue, Take
    <3>2. Len(chan[p]) \in Nat /\ Capacity[p] \in Nat
      BY LenProperties, CapacityAssumption
    <3>3. chan' \in [Tiers -> Seq(Requests)]
      BY <2>1, <3>1
    <3>4. ASSUME NEW q \in Tiers PROVE Len(chan'[q]) <= Capacity[q]
      BY <2>1, <3>1, <3>2
    <3> QED
      BY <3>3, <3>4
  <2> QED
    BY <1>2, <2>1, <2>2 DEF Dequeue, Take
<1>3. CASE NextPass
  BY <1>3 DEF NextPass
<1>4. CASE TakeOwnership
  <2>1. waiting' \in [Tiers -> Int]
    <3>1. CASE Prio[cur] \in Tiers
      BY <1>4, <3>1 DEF TakeOwnership
    <3>2. CASE Prio[cur] \notin Tiers
      BY <1>4, <3>2 DEF TakeOwnership
    <3> QED
      BY <3>1, <3>2
  <2> QED
    BY <1>4, <2>1 DEF TakeOwnership
<1>5. CASE CheckCancelled
  BY <1>5 DEF CheckCancelled
<1>6. CASE Gate
  BY <1>6 DEF Gate, StartFn
<1>7. CASE Throttle
  BY <1>7 DEF Throttle
<1>8. CASE PressureRelieved
  BY <1>8 DEF PressureRelieved, StartFn
<1>9. ASSUME NEW err \in Errors \ {"fn"}, ThrottleFails(err) PROVE TypeOK'
  BY <1>9 DEF ThrottleFails
<1>10. CASE FinishFn
  BY <1>10 DEF FinishFn
<1>11. CASE Deliver
  BY <1>11 DEF Deliver
<1>12. CASE Stop
  BY <1>12 DEF Stop
<1>13. CASE PressureSample
  BY <1>13 DEF PressureSample
<1>14. CASE Shutdown
  BY <1>14 DEF Shutdown
<1>15. CASE UNCHANGED vars
  BY <1>15 DEF vars
<1> QED
  BY <1>1, <1>2, <1>3, <1>4, <1>5, <1>6, <1>7, <1>8, <1>9, <1>10, <1>11,
     <1>12, <1>13, <1>14, <1>15 DEF Next, Dispatch

LEMMA InitType == Init => TypeOK
<1> SUFFICES ASSUME Init PROVE TypeOK
  OBVIOUS
<1>1. /\ chan \in [Tiers -> Seq(Requests)]
      /\ \A p \in Tiers : Len(chan[p]) <= Capacity[p]
  BY CapacityAssumption, EmptySeq DEF Init
<1>2. /\ caller \in [Requests -> CallerStates]
      /\ cancelled \in [Requests -> BOOLEAN]
      /\ ran \in [Requests -> BOOLEAN]
  BY DEF Init, CallerStates
<1>3. /\ reply \in [Requests -> Errors \cup {"none"}]
      /\ doneCh \in [Requests -> Errors \cup {"empty"}]
  BY DEF Init
<1>4. /\ waiting \in [Tiers -> Int]
      /\ older \in SUBSET Tiers
  BY DEF Init
<1>5. /\ disp \in DispStates
      /\ pass \in 1..4
      /\ cur \in Requests \cup {NoReq}
      /\ verdict \in Errors
  BY DEF Init, DispStates, Errors
<1>6. /\ active \in BOOLEAN
      /\ pressure \in BOOLEAN
      /\ queueDone \in BOOLEAN
  BY Zenon DEF Init
<1> QED
  BY <1>1, <1>2, <1>3, <1>4, <1>5, <1>6 DEF TypeOK

(* TypeOK is an invariant of the queue, for every instance.                 *)
THEOREM TypeCorrect == Spec => []TypeOK
<1> QED
  BY InitType, TypeStep, PTL DEF Spec

-----------------------------------------------------------------------------
(* What a channel holds is a request.                                       *)
LEMMA BufferedType ==
    ASSUME TypeOK, NEW p \in Tiers, NEW i \in 1..Len(chan[p])
    PROVE  chan[p][i] \in Requests
<1>1. chan[p] \in Seq(Requests)
  BY DEF TypeOK
<1> QED
  BY <1>1, ElementOfSeq

(* Enqueue adds r behind the others of its tier and changes no other tier.  *)
LEMMA EnqueueChan ==
    ASSUME TypeOK, NEW r \in Requests, Enqueue(r), NEW p \in Tiers
    PROVE  /\ Prio[r] \in Tiers
           /\ Len(chan[p]) \in Nat
           /\ p # Prio[r] => chan'[p] = chan[p]
           /\ p = Prio[r] =>
                 /\ Len(chan'[p]) = Len(chan[p]) + 1
                 /\ \A i \in 1..Len(chan[p]) : chan'[p][i] = chan[p][i]
                 /\ chan'[p][Len(chan[p]) + 1] = r
<1>1. Prio[r] \in Tiers /\ chan[p] \in Seq(Requests)
  BY PrioAssumption DEF TypeOK
<1>2. chan' = [chan EXCEPT ![Prio[r]] = Append(chan[Prio[r]], r)]
  BY DEF Enqueue
<1>3. chan'[p] = IF p = Prio[r] THEN Append(chan[p], r) ELSE chan[p]
  BY <1>1, <1>2 DEF TypeOK
<1> QED
  BY <1>1, <1>3, AppendProperties, LenProperties

(* Dequeue takes the first request of tier p and shifts the others.         *)
LEMMA DequeueChan ==
    ASSUME TypeOK, NEW p \in Tiers, Dequeue(p), NEW q \in Tiers
    PROVE  /\ 1 \in 1..Len(chan[p])
           /\ cur' = chan[p][1]
           /\ Len(chan[q]) \in Nat
           /\ q # p => chan'[q] = chan[q]
           /\ q = p => /\ Len(chan'[q]) = Len(chan[q]) - 1
                       /\ \A i \in 1..Len(chan'[q]) : chan'[q][i] = chan[q][i + 1]
<1>1. chan[p] \in Seq(Requests) /\ chan[q] \in Seq(Requests) /\ chan[p] # <<>>
  BY DEF TypeOK, Dequeue
<1>2. chan' = [chan EXCEPT ![p] = Tail(chan[p])] /\ cur' = Head(chan[p])
  BY DEF Dequeue, Take
<1>3. chan'[q] = IF q = p THEN Tail(chan[q]) ELSE chan[q]
  BY <1>2 DEF TypeOK
<1>4. Len(chan[p]) \in Nat \ {0} /\ Len(chan[q]) \in Nat
  BY <1>1, EmptySeq, LenProperties
<1>5. Head(chan[p]) = chan[p][1]
  BY <1>1
<1>6. /\ Len(Tail(chan[p])) = Len(chan[p]) - 1
      /\ \A i \in 1..Len(Tail(chan[p])) : Tail(chan[p])[i] = chan[p][i + 1]
  BY <1>1, HeadTailProperties
<1>7. CASE q = p
  <2>1. chan'[q] = Tail(chan[p])
    BY <1>3, <1>7
  <2>2. /\ Len(chan'[q]) = Len(chan[q]) - 1
        /\ \A i \in 1..Len(chan'[q]) : chan'[q][i] = chan[q][i + 1]
    BY <1>6, <1>7, <2>1
  <2> QED
    BY <1>2, <1>4, <1>5, <1>7, <2>2
<1>8. CASE q # p
  BY <1>2, <1>3, <1>4, <1>5, <1>8
<1> QED
  BY <1>7, <1>8

(* Enqueue puts r, and nothing else, in a channel.                          *)
LEMMA EnqueueInChan ==
    ASSUME TypeOK, NEW r \in Requests, Enqueue(r), NEW s \in Requests
    PROVE  InChan(s)' <=> InChan(s) \/ s = r
<1> DEFINE q == Prio[s]
<1>1. /\ q \in Tiers
      /\ Len(chan[q]) \in Nat
      /\ q # Prio[r] => chan'[q] = chan[q]
      /\ q = Prio[r] => /\ Len(chan'[q]) = Len(chan[q]) + 1
                        /\ \A i \in 1..Len(chan[q]) : chan'[q][i] = chan[q][i]
                        /\ chan'[q][Len(chan[q]) + 1] = r
  BY EnqueueChan, PrioAssumption
<1>2. CASE q = Prio[r]
  <2>1. \A i \in 1..Len(chan'[q]) : i \in 1..Len(chan[q]) \/ i = Len(chan[q]) + 1
    BY <1>1, <1>2
  <2>2. /\ \A i \in 1..Len(chan[q]) : i \in 1..Len(chan'[q])
        /\ Len(chan[q]) + 1 \in 1..Len(chan'[q])
    BY <1>1, <1>2
  <2> QED
    BY <1>1, <1>2, <2>1, <2>2 DEF InChan
<1>3. CASE q # Prio[r]
  BY <1>1, <1>3 DEF InChan
<1> QED
  BY <1>2, <1>3

(* Dequeue takes its request, and nothing else, out of its channel.         *)
LEMMA DequeueInChan ==
    ASSUME IInv, NEW p \in Tiers, Dequeue(p), NEW s \in Requests
    PROVE  /\ InChan(s)' <=> InChan(s) /\ s # cur'
           /\ s = cur' => InChan(s)
<1> DEFINE q == Prio[s]
<1>1. q \in Tiers /\ TypeOK
  BY PrioAssumption DEF IInv
<1>2. /\ 1 \in 1..Len(chan[p])
      /\ cur' = chan[p][1]
      /\ Len(chan[q]) \in Nat
      /\ q # p => chan'[q] = chan[q]
      /\ q = p => /\ Len(chan'[q]) = Len(chan[q]) - 1
                  /\ \A i \in 1..Len(chan'[q]) : chan'[q][i] = chan[q][i + 1]
  BY <1>1, DequeueChan
<1>3. Prio[cur'] = p
  BY <1>2 DEF IInv, BufferedOK, Buffered
<1>4. s = cur' => InChan(s)
  BY <1>2, <1>3 DEF InChan
<1>5. CASE q = p
  <2>1. ASSUME InChan(s)' PROVE InChan(s) /\ s # cur'
    <3>1. PICK i \in 1..Len(chan'[q]) : chan'[q][i] = s
      BY <2>1 DEF InChan
    <3>2. i + 1 \in 1..Len(chan[q]) /\ i + 1 # 1
      BY <1>2, <1>5, <3>1
    <3>3. chan[q][i + 1] = s
      BY <1>2, <1>5, <3>1
    <3>4. chan[q][i + 1] # chan[q][1]
      BY <1>1, <1>2, <1>5, <3>2 DEF IInv, BufferedOnce
    <3> QED
      BY <1>2, <1>5, <3>2, <3>3, <3>4 DEF InChan
  <2>2. ASSUME InChan(s), s # cur' PROVE InChan(s)'
    <3>1. PICK i \in 1..Len(chan[q]) : chan[q][i] = s
      BY <2>2 DEF InChan
    <3>2. i # 1
      BY <1>2, <1>5, <2>2, <3>1
    <3>3. i - 1 \in 1..Len(chan'[q]) /\ (i - 1) + 1 = i
      BY <1>2, <1>5, <3>2
    <3>4. chan'[q][i - 1] = s
      BY <1>2, <1>5, <3>1, <3>3
    <3> QED
      BY <3>3, <3>4 DEF InChan
  <2> QED
    BY <1>4, <2>1, <2>2
<1>6. CASE q # p
  BY <1>2, <1>3, <1>4, <1>6 DEF InChan
<1> QED
  BY <1>4, <1>5, <1>6

(* The steps of callers and environment other than Enqueue, and those of    *)
(* the dispatcher other than Dequeue, leave the channels alone.             *)
LEMMA CallerStepInv ==
    ASSUME IInv, NEW r \in Requests, CallerStep(r), TypeOK', ~Enqueue(r)
    PROVE  IInv'
<1>0. \A p \in Tiers : \A i \in 1..Len(chan[p]) : chan[p][i] \in Requests
  BY BufferedType DEF IInv
<1>1. CASE Submit(r)
  <2>1. /\ UNCHANGED <<chan, cur, disp, doneCh, ran, reply, verdict, cancelled, pass, older>>
        /\ caller[r] = "idle"
        /\ caller' = [caller EXCEPT ![r] = "sending"]
    BY <1>1 DEF Submit, dispVars, envVars
  <2>2. BufferedOK'
    <3> SUFFICES ASSUME NEW p \in Tiers, NEW i \in 1..Len(chan[p])
                 PROVE  Buffered(chan[p][i], p)'
      BY <2>1 DEF BufferedOK
    <3> QED
      BY <1>0, <2>1 DEF IInv, TypeOK, BufferedOK, Buffered
  <2>3. BufferedOnce' /\ ScanOK'
    BY <2>1 DEF IInv, BufferedOnce, ScanOK
  <2>4. OwnedOK' /\ FreshOK' /\ AnswersHonest'
    BY <2>1, NoReqAssumption DEF IInv, TypeOK, OwnedOK, FreshOK, AnswersHonest, Honest
  <2>5. NoLostRequest'
    <3>1. \A s : InChan(s)' <=> InChan(s)
      BY <2>1 DEF InChan
    <3> QED
      BY <2>1, <3>1 DEF IInv, TypeOK, NoLostRequest
  <2> QED
    BY <2>2, <2>3, <2>4, <2>5 DEF IInv
<1>2. CASE Abandon(r)
  <2>1. /\ UNCHANGED <<chan, cur, disp, doneCh, ran, verdict, cancelled, pass, older>>
        /\ caller[r] = "sending" /\ cancelled[r]
        /\ caller' = [caller EXCEPT ![r] = "returned"]
        /\ reply' = [reply EXCEPT ![r] = "ctx"]
    BY <1>2 DEF Abandon, dispVars, envVars
  <2>2. BufferedOK'
    <3> SUFFICES ASSUME NEW p \in Tiers, NEW i \in 1..Len(chan[p])
                 PROVE  Buffered(chan[p][i], p)'
      BY <2>1 DEF BufferedOK
    <3> QED
      BY <1>0, <2>1 DEF IInv, TypeOK, BufferedOK, Buffered
  <2>3. BufferedOnce' /\ ScanOK'
    BY <2>1 DEF IInv, BufferedOnce, ScanOK
  <2>4. OwnedOK' /\ FreshOK' /\ AnswersHonest'
    BY <2>1, NoReqAssumption DEF IInv, TypeOK, OwnedOK, FreshOK, AnswersHonest, Honest
  <2>5. NoLostRequest'
    <3>1. \A s : InChan(s)' <=> InChan(s)
      BY <2>1 DEF InChan
    <3> QED
      BY <2>1, <3>1 DEF IInv, TypeOK, NoLostRequest
  <2> QED
    BY <2>2, <2>3, <2>4, <2>5 DEF IInv
<1>3. CASE ReceiveResult(r)
  <2>1. /\ UNCHANGED <<chan, cur, disp, ran, verdict, cancelled, pass, older>>
        /\ caller[r] = "awaiting" /\ doneCh[r] # "empty"
        /\ caller' = [caller EXCEPT ![r] = "returned"]
        /\ reply' = [reply EXCEPT ![r] = doneCh[r]]
        /\ doneCh' = [doneCh EXCEPT ![r] = "empty"]
    BY <1>3 DEF ReceiveResult, dispVars, envVars
  <2>2. BufferedOK'
    <3> SUFFICES ASSUME NEW p \in Tiers, NEW i \in 1..Len(chan[p])
                 PROVE  Buffered(chan[p][i], p)'
      BY <2>1 DEF BufferedOK
    <3> QED
      BY <1>0, <2>1 DEF IInv, TypeOK, BufferedOK, Buffered
  <2>3. BufferedOnce' /\ ScanOK'
    BY <2>1 DEF IInv, BufferedOnce, ScanOK
  <2>6. doneCh[r] # "none"
    BY DEF IInv, TypeOK, Errors
  <2>4. OwnedOK' /\ FreshOK' /\ AnswersHonest'
    BY <2>1, <2>6, NoReqAssumption DEF IInv, TypeOK, OwnedOK, FreshOK, AnswersHonest, Honest
  <2>5. NoLostRequest'
    <3>1. \A s : InChan(s)' <=> InChan(s)
      BY <2>1 DEF InChan
    <3> QED
      BY <2>1, <3>1 DEF IInv, TypeOK, NoLostRequest
  <2> QED
    BY <2>2, <2>3, <2>4, <2>5 DEF IInv
<1>4. CASE GiveUp(r)
  <2>1. /\ UNCHANGED <<chan, cur, disp, doneCh, ran, verdict, cancelled, pass, older>>
        /\ caller[r] = "awaiting" /\ cancelled[r]
        /\ caller' = [caller EXCEPT ![r] = "returned"]
        /\ reply' = [reply EXCEPT ![r] = "ctx"]
    BY <1>4 DEF GiveUp, dispVars, envVars
  <2>2. BufferedOK'
    <3> SUFFICES ASSUME NEW p \in Tiers, NEW i \in 1..Len(chan[p])
                 PROVE  Buffered(chan[p][i], p)'
      BY <2>1 DEF BufferedOK
    <3> QED
      BY <1>0, <2>1 DEF IInv, TypeOK, BufferedOK, Buffered
  <2>3. BufferedOnce' /\ ScanOK'
    BY <2>1 DEF IInv, BufferedOnce, ScanOK
  <2>4. OwnedOK' /\ FreshOK' /\ AnswersHonest'
    BY <2>1, NoReqAssumption DEF IInv, TypeOK, OwnedOK, FreshOK, AnswersHonest, Honest
  <2>5. NoLostRequest'
    <3>1. \A s : InChan(s)' <=> InChan(s)
      BY <2>1 DEF InChan
    <3> QED
      BY <2>1, <3>1 DEF IInv, TypeOK, NoLostRequest
  <2> QED
    BY <2>2, <2>3, <2>4, <2>5 DEF IInv
<1>5. CASE Cancel(r)
  <2>1. /\ UNCHANGED <<chan, cur, disp, doneCh, ran, verdict, caller, reply, pass, older>>
        /\ cancelled' = [cancelled EXCEPT ![r] = TRUE]
    BY <1>5 DEF Cancel, dispVars, envVars
  <2>2. BufferedOK'
    <3> SUFFICES ASSUME NEW p \in Tiers, NEW i \in 1..Len(chan[p])
                 PROVE  Buffered(chan[p][i], p)'
      BY <2>1 DEF BufferedOK
    <3> QED
      BY <1>0, <2>1 DEF IInv, TypeOK, BufferedOK, Buffered
  <2>3. BufferedOnce' /\ ScanOK'
    BY <2>1 DEF IInv, BufferedOnce, ScanOK
  <2>4. OwnedOK' /\ FreshOK' /\ AnswersHonest'
    BY <2>1, NoReqAssumption DEF IInv, TypeOK, OwnedOK, FreshOK, AnswersHonest, Honest
  <2>5. NoLostRequest'
    <3>1. \A s : InChan(s)' <=> InChan(s)
      BY <2>1 DEF InChan
    <3> QED
      BY <2>1, <3>1 DEF IInv, TypeOK, NoLostRequest
  <2> QED
    BY <2>2, <2>3, <2>4, <2>5 DEF IInv
<1>6. CASE Forget(r)
  <2>1. /\ UNCHANGED <<chan, cur, disp, verdict, pass, older>>
        /\ ~InChan(r) /\ cur # r
        /\ caller' = [caller EXCEPT ![r] = "idle"]
        /\ cancelled' = [cancelled EXCEPT ![r] = FALSE]
        /\ reply' = [reply EXCEPT ![r] = "none"]
        /\ doneCh' = [doneCh EXCEPT ![r] = "empty"]
        /\ ran' = [ran EXCEPT ![r] = FALSE]
    BY <1>6 DEF Forget, envVars
  <2>2. BufferedOK'
    <3> SUFFICES ASSUME NEW p \in Tiers, NEW i \in 1..Len(chan[p])
                 PROVE  Buffered(chan[p][i], p)'
      BY <2>1 DEF BufferedOK
    <3>1. Buffered(chan[p][i], p) /\ chan[p][i] \in Requests
      BY <1>0 DEF IInv, BufferedOK
    <3>2. chan[p][i] # r
      BY <2>1, <3>1 DEF Buffered, InChan
    <3> QED
      BY <2>1, <3>1, <3>2 DEF IInv, TypeOK, Buffered
  <2>3. BufferedOnce' /\ ScanOK'
    BY <2>1 DEF IInv, BufferedOnce, ScanOK
  <2>4. OwnedOK' /\ FreshOK' /\ AnswersHonest'
    BY <2>1, NoReqAssumption DEF IInv, TypeOK, OwnedOK, FreshOK, AnswersHonest, Honest
  <2>5. NoLostRequest'
    <3>1. \A s : InChan(s)' <=> InChan(s)
      BY <2>1 DEF InChan
    <3> QED
      BY <2>1, <3>1 DEF IInv, TypeOK, NoLostRequest
  <2> QED
    BY <2>2, <2>3, <2>4, <2>5 DEF IInv
<1> QED
  BY <1>1, <1>2, <1>3, <1>4, <1>5, <1>6 DEF CallerStep

LEMMA EnqueueInv ==
    ASSUME IInv, NEW r \in Requests, Enqueue(r), TypeOK'
    PROVE  IInv'
<1> DEFINE R == Prio[r]
<1>1. TypeOK
  BY DEF IInv
<1>2. /\ UNCHANGED <<cur, disp, doneCh, ran, reply, verdict, cancelled, pass, older>>
      /\ caller[r] = "sending"
      /\ caller' = [caller EXCEPT ![r] = "awaiting"]
  BY DEF Enqueue, dispVars, envVars
<1>3. /\ doneCh[r] = "empty" /\ ~ran[r] /\ reply[r] = "none"
      /\ cur # r
  BY <1>2, NoReqAssumption DEF IInv, FreshOK, OwnedOK
<1>4. /\ R \in Tiers
      /\ \A p \in Tiers :
            /\ Len(chan[p]) \in Nat
            /\ p # R => chan'[p] = chan[p]
            /\ p = R => /\ Len(chan'[p]) = Len(chan[p]) + 1
                        /\ \A i \in 1..Len(chan[p]) : chan'[p][i] = chan[p][i]
                        /\ chan'[p][Len(chan[p]) + 1] = r
  BY <1>1, EnqueueChan, PrioAssumption
<1>5. \A p \in Tiers : \A i \in 1..Len(chan'[p]) :
         \/ i \in 1..Len(chan[p]) /\ chan'[p][i] = chan[p][i]
         \/ p = R /\ i = Len(chan[p]) + 1 /\ chan'[p][i] = r
  BY <1>4
<1>6. \A p \in Tiers : \A i \in 1..Len(chan[p]) :
         chan[p][i] \in Requests /\ chan[p][i] # r
  BY <1>1, <1>2, BufferedType DEF IInv, BufferedOK, Buffered
<1>7. BufferedOK'
  <2> SUFFICES ASSUME NEW p \in Tiers, NEW i \in 1..Len(chan'[p])
               PROVE  Buffered(chan[p][i], p)'
    BY DEF BufferedOK
  <2>1. CASE i \in 1..Len(chan[p]) /\ chan'[p][i] = chan[p][i]
    BY <1>1, <1>2, <1>6, <2>1 DEF IInv, BufferedOK, Buffered, TypeOK
  <2>2. CASE p = R /\ chan'[p][i] = r
    BY <1>1, <1>2, <1>3, <2>2 DEF Buffered, TypeOK
  <2> QED
    BY <1>5, <2>1, <2>2
<1>8. BufferedOnce'
  <2> SUFFICES ASSUME NEW p \in Tiers,
                      NEW i \in 1..Len(chan'[p]), NEW j \in 1..Len(chan'[p]),
                      chan'[p][i] = chan'[p][j]
               PROVE  i = j
    BY DEF BufferedOnce
  <2>1. CASE i \in 1..Len(chan[p]) /\ j \in 1..Len(chan[p])
    BY <1>4, <2>1 DEF IInv, BufferedOnce
  <2>2. CASE i \notin 1..Len(chan[p]) \/ j \notin 1..Len(chan[p])
    BY <1>5, <1>6, <2>2
  <2> QED
    BY <2>1, <2>2
<1>9. OwnedOK'
  BY <1>1, <1>2, <1>3 DEF IInv, OwnedOK, Honest, TypeOK
<1>10. FreshOK' /\ AnswersHonest'
  BY <1>1, <1>2, <1>3 DEF IInv, FreshOK, AnswersHonest, Honest, TypeOK
<1>11. NoLostRequest'
  <2>1. \A s \in Requests : InChan(s)' <=> InChan(s) \/ s = r
    BY <1>1, EnqueueInChan
  <2> QED
    BY <1>1, <1>2, <2>1 DEF IInv, NoLostRequest, TypeOK
<1>12. ScanOK'
  <2>1. \A p \in Tiers : chan[p] # <<>> => chan'[p] # <<>>
    BY <1>1, <1>4, EmptySeq DEF TypeOK
  <2> QED
    BY <1>1, <1>2, <2>1 DEF IInv, ScanOK, TypeOK
<1> QED
  BY <1>7, <1>8, <1>9, <1>10, <1>11, <1>12 DEF IInv

LEMMA DequeueInv ==
    ASSUME IInv, NEW p \in Tiers, Dequeue(p), TypeOK'
    PROVE  IInv'
<1> DEFINE r == chan[p][1]
<1>1. TypeOK
  BY DEF IInv
<1>2. /\ UNCHANGED <<caller, doneCh, ran, reply, verdict, cancelled>>
      /\ disp = "dequeue" /\ disp' = "took"
      /\ pass' = 1
  BY DEF Dequeue, Take, callerVars
<1>3. /\ cur' = r
      /\ 1 \in 1..Len(chan[p])
      /\ \A q \in Tiers :
            /\ Len(chan[q]) \in Nat
            /\ q # p => chan'[q] = chan[q]
            /\ q = p => /\ Len(chan'[q]) = Len(chan[q]) - 1
                        /\ \A i \in 1..Len(chan'[q]) : chan'[q][i] = chan[q][i + 1]
  BY <1>1, DequeueChan
<1>4. \A q \in Tiers : \A i \in 1..Len(chan[q]) : chan[q][i] \in Requests
  BY <1>1, BufferedType
<1>5. \A q \in Tiers : \A i \in 1..Len(chan'[q]) :
         IF q = p THEN i + 1 \in 1..Len(chan[q]) /\ chan'[q][i] = chan[q][i + 1]
                  ELSE i \in 1..Len(chan[q]) /\ chan'[q][i] = chan[q][i]
  BY <1>3
<1>6. \A q \in Tiers : \A i \in 1..Len(chan'[q]) : chan'[q][i] # r
  <2> TAKE q \in Tiers
  <2> TAKE i \in 1..Len(chan'[q])
  <2>1. CASE q = p
    <3>1. i \in Nat /\ i + 1 \in 1..Len(chan[p]) /\ chan'[q][i] = chan[p][i + 1]
      BY <1>5, <2>1
    <3>2. chan[p][i + 1] = chan[p][1] => i + 1 = 1
      BY <1>3, <3>1 DEF IInv, BufferedOnce
    <3> QED
      BY <3>1, <3>2
  <2>2. CASE q # p
    <3>1. i \in 1..Len(chan[q]) /\ chan'[q][i] = chan[q][i]
      BY <1>5, <2>2
    <3>2. p \in Tiers /\ Prio[r] = p /\ Prio[chan[q][i]] = q
      BY <1>3, <3>1 DEF IInv, BufferedOK, Buffered
    <3> QED
      BY <2>2, <3>1, <3>2
  <2> QED
    BY <2>1, <2>2
<1>7. BufferedOK'
  <2> SUFFICES ASSUME NEW q \in Tiers, NEW i \in 1..Len(chan'[q])
               PROVE  Buffered(chan[q][i], q)'
    BY DEF BufferedOK
  <2>1. PICK j \in 1..Len(chan[q]) : chan'[q][i] = chan[q][j]
    BY <1>5
  <2> QED
    BY <1>2, <1>3, <1>6, <2>1 DEF IInv, BufferedOK, Buffered
<1>8. BufferedOnce'
  BY <1>5 DEF IInv, BufferedOnce
<1>9. OwnedOK'
  BY <1>2, <1>3, <1>4 DEF IInv, OwnedOK, BufferedOK, Buffered
<1>10. FreshOK' /\ AnswersHonest'
  BY <1>2 DEF IInv, FreshOK, AnswersHonest, Honest
<1>11. NoLostRequest'
  <2>1. \A s \in Requests : InChan(s)' <=> InChan(s) /\ s # cur'
    BY DequeueInChan
  <2>2. cur = NoReq
    BY <1>2 DEF IInv, OwnedOK
  <2> QED
    BY <1>2, <2>1, <2>2, NoReqAssumption DEF IInv, NoLostRequest
<1>12. ScanOK'
  BY <1>2 DEF ScanOK
<1> QED
  BY <1>7, <1>8, <1>9, <1>10, <1>11, <1>12 DEF IInv

(* The dispatcher's other steps.                                            *)
LEMMA DispatchInv ==
    ASSUME IInv, Dispatch, TypeOK', \A p \in Tiers : ~Dequeue(p)
    PROVE  IInv'
<1> USE PrioAssumption, NoReqAssumption
<1> USE DEF IInv, BufferedOK, Buffered, BufferedOnce, OwnedOK, FreshOK, AnswersHonest,
            NoLostRequest, ScanOK, Honest, InChan, callerVars, dispVars, envVars
<1>0. \A p \in Tiers : \A i \in 1..Len(chan[p]) : chan[p][i] \in Requests
  BY BufferedType
<1>1. CASE NextPass
  <2>1. ScanOK'
    <3>1. older \subseteq Int /\ pass \in Int
      BY DEF TypeOK, Tiers, P0Emergency, P3Background
    <3>2. \A q \in older : chan[q] # <<>> /\ ~(q < pass)
      BY <1>1 DEF NextPass, TypeOK
    <3> QED
      BY <1>1, <3>1, <3>2 DEF NextPass
  <2> QED
    BY <1>1, <2>1 DEF NextPass
<1>2. CASE TakeOwnership
  BY <1>2 DEF TakeOwnership
<1>3. CASE CheckCancelled
  BY <1>3 DEF CheckCancelled
<1>4. CASE Gate
  BY <1>0, <1>4 DEF Gate, StartFn, TypeOK
<1>5. CASE Throttle
  BY <1>5 DEF Throttle
<1>6. CASE PressureRelieved
  BY <1>0, <1>6 DEF PressureRelieved, StartFn, TypeOK
<1>7. ASSUME NEW err \in Errors \ {"fn"}, ThrottleFails(err) PROVE IInv'
  BY <1>7 DEF ThrottleFails
<1>8. CASE FinishFn
  BY <1>8 DEF FinishFn
<1>9. CASE Deliver
  <2>1. /\ UNCHANGED <<chan, caller, cancelled, reply, ran, pass>>
        /\ doneCh' = [doneCh EXCEPT ![cur] = verdict]
        /\ cur \in Requests /\ cur' = NoReq
        /\ disp = "deliver" /\ disp' = "dequeue"
        /\ older' = {p \in Tiers : chan[p] # <<>>}
    BY <1>9 DEF Deliver
  <2>2. BufferedOK'
    <3> SUFFICES ASSUME NEW p \in Tiers, NEW i \in 1..Len(chan[p])
                 PROVE  Buffered(chan[p][i], p)'
      BY <2>1
    <3>1. Buffered(chan[p][i], p) /\ chan[p][i] \in Requests
      BY <1>0
    <3> HIDE DEF OwnedOK, FreshOK, AnswersHonest, NoLostRequest, ScanOK,
                 BufferedOK, BufferedOnce
    <3> QED
      BY <2>1, <3>1 DEF TypeOK
  <2>6. BufferedOnce'
    BY <2>1
  <2>3. OwnedOK' /\ FreshOK' /\ AnswersHonest'
    BY <2>1 DEF TypeOK
  <2>4. NoLostRequest'
    BY <2>1 DEF TypeOK, Errors
  <2>5. ScanOK'
    BY <2>1 DEF Tiers, P0Emergency, P3Background
  <2> QED
    BY <2>2, <2>3, <2>4, <2>5, <2>6
<1> QED
  BY <1>1, <1>2, <1>3, <1>4, <1>5, <1>6, <1>7, <1>8, <1>9 DEF Dispatch

LEMMA InvStep == IInv /\ [Next]_vars => IInv'
<1> SUFFICES ASSUME IInv, [Next]_vars PROVE IInv'
  OBVIOUS
<1>0. TypeOK'
  BY TypeStep DEF IInv
<1>1. ASSUME NEW r \in Requests, CallerStep(r) PROVE IInv'
  BY <1>0, <1>1, EnqueueInv, CallerStepInv
<1>2. CASE Dispatch
  BY <1>0, <1>2, DequeueInv, DispatchInv
<1> USE DEF IInv, BufferedOK, Buffered, BufferedOnce, OwnedOK, FreshOK, AnswersHonest,
            NoLostRequest, ScanOK, Honest, InChan, callerVars, dispVars
<1>3. CASE Stop
  BY <1>0, <1>3 DEF Stop, envVars
<1>4. CASE PressureSample
  BY <1>0, <1>4 DEF PressureSample
<1>5. CASE Shutdown
  BY <1>0, <1>5 DEF Shutdown
<1>6. CASE UNCHANGED vars
  BY <1>0, <1>6 DEF vars
<1> QED
  BY <1>1, <1>2, <1>3, <1>4, <1>5, <1>6 DEF Next

(* The conjunction is an invariant of the queue.                            *)
THEOREM Invariance == Spec => []IInv
<1>1. Init => IInv
  <2> SUFFICES ASSUME Init PROVE IInv
    OBVIOUS
  <2>1. TypeOK
    BY InitType
  <2>2. \A p \in Tiers : Len(chan[p]) = 0
    BY EmptySeq DEF Init
  <2>3. BufferedOK /\ BufferedOnce
    BY <2>2 DEF BufferedOK, BufferedOnce
  <2>4. OwnedOK /\ FreshOK /\ AnswersHonest /\ NoLostRequest /\ ScanOK
    BY DEF Init, OwnedOK, FreshOK, AnswersHonest, Honest, NoLostRequest, ScanOK
  <2> QED
    BY <2>1, <2>3, <2>4 DEF IInv
<1> QED
  BY <1>1, InvStep, PTL DEF Spec

-----------------------------------------------------------------------------
(* No caller blocked in Submit is ever forgotten.                           *)
THEOREM NoRequestLost == Spec => []NoLostRequest
<1>1. IInv => NoLostRequest
  BY DEF IInv
<1> QED
  BY <1>1, Invariance, PTL

(* Submit's result tells the truth about the function.                      *)
THEOREM RepliesHonest == Spec => []ReplyHonest
<1>1. IInv => ReplyHonest
  BY DEF IInv, AnswersHonest, Honest, ReplyHonest
<1> QED
  BY <1>1, Invariance, PTL

(* No function is started twice.                                            *)
THEOREM FnStartedOnce == Spec => AtMostOnce
<1>1. IInv /\ [Next]_vars => [disp' = "run" /\ disp # "run" => ~ran[cur]]_vars
  <2> SUFFICES ASSUME IInv, Next, disp' = "run", disp # "run"
               PROVE  ~ran[cur]
    OBVIOUS
  <2>1. disp \in {"gate", "throttle"}
    BY DEF Next, CallerStep, Dispatch, Submit, Enqueue, Abandon, ReceiveResult,
           GiveUp, Cancel, Forget, Dequeue, Take, NextPass, TakeOwnership,
           CheckCancelled, Gate, Throttle, PressureRelieved, StartFn,
           ThrottleFails, FinishFn, Deliver, Stop, PressureSample, Shutdown,
           dispVars
  <2> QED
    BY <2>1 DEF IInv, OwnedOK
<1> QED
  BY <1>1, Invariance, PTL DEF Spec, AtMostOnce

(* The dispatcher never takes a request past a tier that was non-empty when *)
(* its scan began.                                                          *)
THEOREM InversionBounded == Spec => BoundedInversion
<1>1. IInv /\ [Next]_vars
         => [disp = "dequeue" /\ disp' = "took" =>
                \A q \in older : Prio[cur'] <= q]_vars
  <2> SUFFICES ASSUME IInv, Next, disp = "dequeue", disp' = "took",
                      NEW q \in older
               PROVE  Prio[cur'] <= q
    OBVIOUS
  <2>1. PICK p \in Tiers : Dequeue(p)
    BY DEF Next, CallerStep, Dispatch, Submit, Enqueue, Abandon, ReceiveResult,
           GiveUp, Cancel, Forget, NextPass, TakeOwnership,
           CheckCancelled, Gate, Throttle, PressureRelieved, StartFn,
           ThrottleFails, FinishFn, Deliver, Stop, PressureSample, Shutdown,
           dispVars
  <2>2. Prio[cur'] = p
    BY <2>1, DequeueChan DEF IInv, BufferedOK, Buffered
  <2>3. p < pass /\ pass - 1 <= q
    BY <2>1 DEF Dequeue, IInv, ScanOK
  <2>4. p \in Int /\ q \in Int /\ pass \in Int
    BY DEF IInv, TypeOK, Tiers, P0Emergency, P3Background
  <2> QED
    BY <2>2, <2>3, <2>4
<1> QED
  BY <1>1, Invariance, PTL DEF Spec, BoundedInversion

-----------------------------------------------------------------------------
(* Refinement.  What the phase of a request says about the queue's state.   *)
LEMMA PhaseFacts ==
    ASSUME IInv, NEW s \in Requests
    PROVE  /\ InChan(s) => /\ caller[s] \in {"awaiting", "returned"}
                           /\ ~ran[s] /\ s # cur
           /\ Phase(s) = "running" => disp = "run" /\ cur = s
           /\ Phase(s) = "idle" <=> caller[s] = "idle"
<1>1. InChan(s) => caller[s] \in {"awaiting", "returned"} /\ ~ran[s] /\ s # cur
  BY PrioAssumption DEF InChan, IInv, BufferedOK, Buffered
<1> QED
  BY <1>1 DEF Phase

(* A step that changes the phase of r alone.                                *)
LEMMA OnePhase ==
    ASSUME NEW r \in Requests, NEW v,
           \A s \in Requests : Phase(s)' = IF s = r THEN v ELSE Phase(s)
    PROVE  [s \in Requests |-> Phase(s)]'
               = [[s \in Requests |-> Phase(s)] EXCEPT ![r] = v]
OBVIOUS

LEMMA SamePhases ==
    ASSUME \A s \in Requests : Phase(s)' = Phase(s)
    PROVE  UNCHANGED [s \in Requests |-> Phase(s)]
OBVIOUS

LEMMA CallerRefines ==
    ASSUME IInv, IInv', NEW r \in Requests, CallerStep(r)
    PROVE  Service!SNext \/ UNCHANGED Service!svars
<1> USE DEF Service!svars
<1>0. TypeOK /\ FreshOK /\ AnswersHonest /\ NoReq \notin Requests
  BY NoReqAssumption DEF IInv
<1>1. CASE Submit(r)
  <2>1. /\ caller[r] = "idle" /\ caller' = [caller EXCEPT ![r] = "sending"]
        /\ UNCHANGED <<chan, cur, disp, ran, cancelled, reply>>
    BY <1>1 DEF Submit, dispVars
  <2>2. \A s \in Requests : Phase(s)' = IF s = r THEN "queued" ELSE Phase(s)
    BY <1>0, <2>1 DEF Phase, InChan, TypeOK
  <2>3. Phase(r) = "idle"
    BY <2>1 DEF Phase
  <2>4. Service!Accept(r)
    BY <2>1, <2>2, <2>3, OnePhase DEF Service!Accept
  <2> QED
    BY <2>4 DEF Service!SNext
<1>2. CASE Enqueue(r)
  <2>1. /\ caller[r] = "sending" /\ caller' = [caller EXCEPT ![r] = "awaiting"]
        /\ UNCHANGED <<cur, disp, ran, cancelled, reply>>
    BY <1>2 DEF Enqueue, dispVars
  <2>2. \A s \in Requests : InChan(s)' <=> InChan(s) \/ s = r
    BY <1>0, <1>2, EnqueueInChan
  <2>3. \A s \in Requests : Phase(s)' = Phase(s)
    BY <1>0, <2>1, <2>2 DEF Phase, TypeOK
  <2> QED
    BY <2>1, <2>3, SamePhases
<1>3. CASE Abandon(r)
  <2>1. /\ caller[r] = "sending" /\ caller' = [caller EXCEPT ![r] = "returned"]
        /\ cancelled[r] /\ reply' = [reply EXCEPT ![r] = "ctx"]
        /\ UNCHANGED <<chan, cur, disp, ran, cancelled>>
    BY <1>3 DEF Abandon, dispVars
  <2>2. ~InChan(r) /\ cur # r /\ ~ran[r] /\ reply[r] = "none"
    BY <1>0, <2>1, PhaseFacts DEF IInv, OwnedOK, FreshOK
  <2>3. \A s \in Requests : Phase(s)' = IF s = r THEN "skipped" ELSE Phase(s)
    BY <1>0, <2>1, <2>2 DEF Phase, InChan, TypeOK
  <2>4. Phase(r) = "queued"
    BY <2>1 DEF Phase
  <2>5. Service!Withdraw(r)
    BY <2>1, <2>2, <2>3, <2>4, OnePhase DEF Service!Withdraw
  <2> QED
    BY <2>5 DEF Service!SNext
<1>4. CASE ReceiveResult(r)
  <2>1. /\ caller[r] = "awaiting" /\ caller' = [caller EXCEPT ![r] = "returned"]
        /\ doneCh[r] # "empty" /\ reply' = [reply EXCEPT ![r] = doneCh[r]]
        /\ UNCHANGED <<chan, cur, disp, ran, cancelled>>
    BY <1>4 DEF ReceiveResult, dispVars
  <2>2. ~InChan(r) /\ cur # r /\ reply[r] = "none"
    BY <1>0, <2>1, NoReqAssumption, PrioAssumption
       DEF IInv, BufferedOK, Buffered, OwnedOK, FreshOK, InChan
  <2>3. \A s \in Requests : Phase(s)' = Phase(s)
    BY <1>0, <2>1 DEF Phase, InChan, TypeOK
  <2>4. Phase(r) = IF ran[r] THEN "executed" ELSE "skipped"
    BY <2>1, <2>2 DEF Phase
  <2>5. doneCh[r] \in Service!Replies \ {"none"} /\ Honest(r, doneCh[r])
    BY <1>0, <2>1 DEF TypeOK, Errors, Service!Replies, AnswersHonest
  <2>6. Service!Truthful(r, doneCh[r])
    BY <2>4, <2>5 DEF Honest, Service!Truthful, Service!Replies
  <2>7. Service!Return(r, doneCh[r])
    BY <2>1, <2>2, <2>3, <2>6, SamePhases DEF Service!Return
  <2> QED
    BY <2>5, <2>7 DEF Service!SNext
<1>5. CASE GiveUp(r)
  <2>1. /\ caller[r] = "awaiting" /\ caller' = [caller EXCEPT ![r] = "returned"]
        /\ cancelled[r] /\ reply' = [reply EXCEPT ![r] = "ctx"]
        /\ UNCHANGED <<chan, cur, disp, ran, cancelled>>
    BY <1>5 DEF GiveUp, dispVars
  <2>2. reply[r] = "none" /\ Phase(r) # "idle"
    BY <1>0, <2>1, PhaseFacts DEF FreshOK
  <2>3. \A s \in Requests : Phase(s)' = Phase(s)
    BY <1>0, <2>1 DEF Phase, InChan, TypeOK
  <2>4. Service!Return(r, "ctx") /\ "ctx" \in Service!Replies \ {"none"}
    BY <2>1, <2>2, <2>3, SamePhases
       DEF Service!Return, Service!Truthful, Service!Replies
  <2> QED
    BY <2>4 DEF Service!SNext
<1>6. CASE Cancel(r)
  <2>1. /\ ~cancelled[r] /\ cancelled' = [cancelled EXCEPT ![r] = TRUE]
        /\ UNCHANGED <<chan, caller, cur, disp, ran, reply>>
    BY <1>6 DEF Cancel, dispVars
  <2>2. \A s \in Requests : Phase(s)' = Phase(s)
    BY <2>1 DEF Phase, InChan
  <2>3. Service!CancelContext(r)
    BY <2>1, <2>2, SamePhases DEF Service!CancelContext
  <2> QED
    BY <2>3 DEF Service!SNext
<1>7. CASE Forget(r)
  <2>1. /\ caller[r] = "returned" /\ ~InChan(r) /\ cur # r
        /\ caller' = [caller EXCEPT ![r] = "idle"]
        /\ cancelled' = [cancelled EXCEPT ![r] = FALSE]
        /\ reply' = [reply EXCEPT ![r] = "none"]
        /\ ran' = [ran EXCEPT ![r] = FALSE]
        /\ UNCHANGED <<chan, cur, disp>>
    BY <1>7 DEF Forget
  <2>2. \A s \in Requests : Phase(s)' = IF s = r THEN "idle" ELSE Phase(s)
    BY <1>0, <2>1 DEF Phase, InChan, TypeOK
  <2>3. Phase(r) \in {"executed", "skipped"} /\ reply[r] # "none"
    BY <1>0, <2>1 DEF Phase, FreshOK
  <2>4. Service!Reuse(r)
    BY <2>1, <2>2, <2>3, OnePhase DEF Service!Reuse
  <2> QED
    BY <2>4 DEF Service!SNext
<1> QED
  BY <1>1, <1>2, <1>3, <1>4, <1>5, <1>6, <1>7 DEF CallerStep

LEMMA DispatchRefines ==
    ASSUME IInv, IInv', Dispatch
    PROVE  Service!SNext \/ UNCHANGED Service!svars
<1> USE DEF Service!svars, callerVars
<1>0. TypeOK /\ OwnedOK /\ NoReq \notin Requests
  BY NoReqAssumption DEF IInv
<1>1. ASSUME NEW p \in Tiers, Dequeue(p)
      PROVE  UNCHANGED Service!svars
  <2>1. /\ disp = "dequeue" /\ disp' = "took"
        /\ UNCHANGED <<caller, ran, cancelled, reply>>
    BY <1>1 DEF Dequeue, Take
  <2>2. \A s \in Requests : /\ InChan(s)' <=> InChan(s) /\ s # cur'
                            /\ s = cur' => InChan(s)
    BY <1>1, DequeueInChan
  <2>3. \A s \in Requests : Phase(s)' = Phase(s)
    BY <1>0, <2>1, <2>2 DEF Phase, OwnedOK
  <2> QED
    BY <2>1, <2>3, SamePhases
<1>2. CASE NextPass
  <2>1. UNCHANGED <<chan, cur, disp, caller, ran, cancelled, reply>>
    BY <1>2 DEF NextPass
  <2>2. \A s \in Requests : Phase(s)' = Phase(s)
    BY <2>1 DEF Phase, InChan
  <2> QED
    BY <2>1, <2>2, SamePhases
<1>3. CASE TakeOwnership \/ Throttle
  <2>1. /\ {disp, disp'} \subseteq {"took", "check", "gate", "throttle"}
        /\ UNCHANGED <<chan, cur, caller, ran, cancelled, reply>>
    BY <1>3 DEF TakeOwnership, Throttle
  <2>2. \A s \in Requests : Phase(s)' = Phase(s)
    BY <2>1 DEF Phase, InChan
  <2> QED
    BY <2>1, <2>2, SamePhases
<1>4. ASSUME disp \in {"check", "throttle"}, disp' = "deliver",
             cancelled[cur] \/ Prio[cur] = P3Background,
             UNCHANGED <<chan, cur, caller, ran, cancelled, reply>>
      PROVE  Service!SNext
  <2>1. /\ cur \in Requests /\ ~InChan(cur) /\ ~ran[cur]
        /\ caller[cur] \in {"awaiting", "returned"}
    BY <1>0, <1>4, PhaseFacts DEF OwnedOK
  <2>2. \A s \in Requests : Phase(s)' = IF s = cur THEN "skipped" ELSE Phase(s)
    BY <1>4, <2>1 DEF Phase, InChan
  <2>3. Phase(cur) = "queued"
    BY <1>4, <2>1 DEF Phase
  <2>4. Service!Skip(cur)
    BY <1>4, <2>1, <2>2, <2>3, OnePhase DEF Service!Skip
  <2> QED
    BY <2>1, <2>4 DEF Service!SNext
<1>5. CASE CheckCancelled
  <2>1. CASE disp' = "deliver"
    BY <1>4, <1>5, <2>1 DEF CheckCancelled
  <2>2. CASE disp' = "gate"
    <3>1. /\ disp = "check"
          /\ UNCHANGED <<chan, cur, caller, ran, cancelled, reply>>
      BY <1>5 DEF CheckCancelled
    <3>2. \A s \in Requests : Phase(s)' = Phase(s)
      BY <2>2, <3>1 DEF Phase, InChan
    <3> QED
      BY <3>1, <3>2, SamePhases
  <2> QED
    BY <1>5, <2>1, <2>2 DEF CheckCancelled
<1>6. ASSUME NEW err \in Errors \ {"fn"}, ThrottleFails(err)
      PROVE  Service!SNext
  BY <1>0, <1>4, <1>6 DEF ThrottleFails, OwnedOK
<1>7. ASSUME disp \in {"gate", "throttle"}, StartFn
      PROVE  Service!SNext
  <2>1. /\ cur \in Requests /\ ~InChan(cur)
        /\ caller[cur] \in {"awaiting", "returned"}
    BY <1>0, <1>7, PhaseFacts DEF OwnedOK
  <2>2. /\ disp' = "run" /\ ran' = [ran EXCEPT ![cur] = TRUE]
        /\ UNCHANGED <<chan, cur, caller, cancelled, reply>>
    BY <1>7 DEF StartFn
  <2>3. \A s \in Requests : Phase(s)' = IF s = cur THEN "running" ELSE Phase(s)
    BY <1>0, <1>7, <2>1, <2>2 DEF Phase, InChan, TypeOK
  <2>4. Phase(cur) = "queued" /\ \A s \in Requests : Phase(s) # "running"
    BY <1>7, <2>1, PhaseFacts DEF Phase
  <2>5. Service!Begin(cur)
    BY <2>1, <2>2, <2>3, <2>4, OnePhase DEF Service!Begin
  <2> QED
    BY <2>1, <2>5 DEF Service!SNext
<1>8. CASE Gate
  BY <1>7, <1>8 DEF Gate
<1>9. CASE PressureRelieved
  BY <1>7, <1>9 DEF PressureRelieved
<1>10. CASE FinishFn
  <2>1. /\ disp = "run" /\ disp' = "deliver"
        /\ UNCHANGED <<chan, cur, caller, ran, cancelled, reply>>
    BY <1>10 DEF FinishFn
  <2>2. /\ cur \in Requests /\ ~InChan(cur) /\ ran[cur]
        /\ caller[cur] \in {"awaiting", "returned"}
    BY <1>0, <2>1, PhaseFacts DEF OwnedOK
  <2>3. \A s \in Requests : Phase(s)' = IF s = cur THEN "executed" ELSE Phase(s)
    BY <2>1, <2>2 DEF Phase, InChan
  <2>4. Phase(cur) = "running"
    BY <2>1, <2>2 DEF Phase
  <2>5. Service!End(cur)
    BY <2>1, <2>2, <2>3, <2>4, OnePhase DEF Service!End
  <2> QED
    BY <2>2, <2>5 DEF Service!SNext
<1>11. CASE Deliver
  <2>1. /\ disp = "deliver" /\ disp' = "dequeue"
        /\ UNCHANGED <<chan, caller, ran, cancelled, reply>>
    BY <1>11 DEF Deliver
  <2>2. \A s \in Requests : Phase(s)' = Phase(s)
    BY <2>1 DEF Phase, InChan
  <2> QED
    BY <2>1, <2>2, SamePhases
<1> QED
  BY <1>1, <1>2, <1>3, <1>5, <1>6, <1>8, <1>9, <1>10, <1>11 DEF Dispatch

(* The queue implements the service the orchestrator relies on.             *)
THEOREM QueueRefinesService == Spec => ImplementsCogService
<1>1. Init => Service!SInit
  <2> SUFFICES ASSUME Init PROVE Service!SInit
    OBVIOUS
  <2>1. \A r \in Requests : Phase(r) = "idle"
    BY DEF Init, Phase
  <2> QED
    BY <2>1 DEF Init, Service!SInit
<1>2. IInv /\ IInv' /\ [Next]_vars => [Service!SNext]_(Service!svars)
  <2> SUFFICES ASSUME IInv, IInv', [Next]_vars
               PROVE  Service!SNext \/ UNCHANGED Service!svars
    OBVIOUS
  <2>1. ASSUME UNCHANGED <<chan, cur, caller, ran, cancelled, reply>>,
               disp' = disp \/ {disp, disp'} \subseteq {"dequeue", "stopped"}
        PROVE  UNCHANGED Service!svars
    <3>1. \A s \in Requests : Phase(s)' = Phase(s)
      BY <2>1 DEF Phase, InChan
    <3> QED
      BY <2>1, <3>1, SamePhases DEF Service!svars
  <2>2. CASE Stop \/ PressureSample \/ Shutdown \/ UNCHANGED vars
    BY <2>1, <2>2 DEF Stop, PressureSample, Shutdown, vars, callerVars, dispVars
  <2> QED
    BY <2>2, CallerRefines, DispatchRefines DEF Next
<1> QED
  BY <1>1, <1>2, Invariance, PTL DEF Spec, ImplementsCogService, Service!SSpec

-----------------------------------------------------------------------------
(* The waiting counters.  A request is counted while this holds of it.      *)
Counted(r) == caller[r] = "sending" \/ InChan(r) \/ (disp = "took" /\ cur = r)

CountsOK ==
    \A p \in Tiers :
        IsFiniteSet(Unclaimed(p)) /\ waiting[p] = Cardinality(Unclaimed(p))

(* A step that changes neither who is counted nor the counters.             *)
LEMMA CountsKept ==
    ASSUME CountsOK, UNCHANGED waiting, \A s \in Requests : Counted(s)' <=> Counted(s)
    PROVE  CountsOK'
<1>1. \A p \in Tiers : Unclaimed(p)' = Unclaimed(p)
  BY DEF Unclaimed, Counted
<1> QED
  BY <1>1 DEF CountsOK

(* A step that begins to count r. *)
LEMMA CountsAdd ==
    ASSUME TypeOK, CountsOK, NEW r \in Requests, ~Counted(r),
           waiting' = [waiting EXCEPT ![Prio[r]] = @ + 1],
           \A s \in Requests : Counted(s)' <=> Counted(s) \/ s = r
    PROVE  CountsOK'
<1> SUFFICES ASSUME NEW p \in Tiers
             PROVE  IsFiniteSet(Unclaimed(p)') /\ waiting'[p] = Cardinality(Unclaimed(p)')
  BY DEF CountsOK
<1>1. IsFiniteSet(Unclaimed(p)) /\ waiting[p] = Cardinality(Unclaimed(p))
  BY DEF CountsOK
<1>2. waiting'[p] = IF p = Prio[r] THEN waiting[p] + 1 ELSE waiting[p]
  BY PrioAssumption DEF TypeOK
<1>3. CASE p = Prio[r]
  <2>1. Unclaimed(p)' = Unclaimed(p) \cup {r} /\ r \notin Unclaimed(p)
    BY <1>3 DEF Unclaimed, Counted
  <2> QED
    BY <1>1, <1>2, <1>3, <2>1, FS_AddElement
<1>4. CASE p # Prio[r]
  <2>1. Unclaimed(p)' = Unclaimed(p)
    BY <1>4 DEF Unclaimed, Counted
  <2> QED
    BY <1>1, <1>2, <1>4, <2>1
<1> QED
  BY <1>3, <1>4

(* A step that stops counting r. *)
LEMMA CountsRemove ==
    ASSUME TypeOK, CountsOK, NEW r \in Requests, Counted(r),
           waiting' = [waiting EXCEPT ![Prio[r]] = @ - 1],
           \A s \in Requests : Counted(s)' <=> Counted(s) /\ s # r
    PROVE  CountsOK'
<1> SUFFICES ASSUME NEW p \in Tiers
             PROVE  IsFiniteSet(Unclaimed(p)') /\ waiting'[p] = Cardinality(Unclaimed(p)')
  BY DEF CountsOK
<1>1. IsFiniteSet(Unclaimed(p)) /\ waiting[p] = Cardinality(Unclaimed(p))
  BY DEF CountsOK
<1>2. waiting'[p] = IF p = Prio[r] THEN waiting[p] - 1 ELSE waiting[p]
  BY PrioAssumption DEF TypeOK
<1>3. CASE p = Prio[r]
  <2>1. Unclaimed(p)' = Unclaimed(p) \ {r} /\ r \in Unclaimed(p)
    BY <1>3 DEF Unclaimed, Counted
  <2> QED
    BY <1>1, <1>2, <1>3, <2>1, FS_RemoveElement
<1>4. CASE p # Prio[r]
  <2>1. Unclaimed(p)' = Unclaimed(p)
    BY <1>4 DEF Unclaimed, Counted
  <2> QED
    BY <1>1, <1>2, <1>4, <2>1
<1> QED
  BY <1>3, <1>4

LEMMA CountsCaller ==
    ASSUME IInv, CountsOK, NEW r \in Requests, CallerStep(r)
    PROVE  CountsOK'
<1>0. TypeOK /\ NoReq \notin Requests
  BY NoReqAssumption DEF IInv
<1>1. \A s \in Requests : InChan(s) => caller[s] \in {"awaiting", "returned"}
  BY PhaseFacts
<1>2. disp = "took" => caller[cur] \in {"awaiting", "returned"}
  BY DEF IInv, OwnedOK
<1>3. CASE Submit(r)
  <2>1. /\ caller[r] = "idle" /\ caller' = [caller EXCEPT ![r] = "sending"]
        /\ waiting' = [waiting EXCEPT ![Prio[r]] = @ + 1]
        /\ UNCHANGED <<chan, cur, disp>>
    BY <1>3 DEF Submit, dispVars
  <2>2. ~Counted(r)
    BY <1>1, <1>2, <2>1 DEF Counted
  <2>3. \A s \in Requests : Counted(s)' <=> Counted(s) \/ s = r
    BY <1>0, <2>1 DEF Counted, InChan, TypeOK
  <2> QED
    BY <1>0, <2>1, <2>2, <2>3, CountsAdd
<1>4. CASE Enqueue(r)
  <2>1. /\ caller[r] = "sending" /\ caller' = [caller EXCEPT ![r] = "awaiting"]
        /\ UNCHANGED <<waiting, cur, disp>>
    BY <1>4 DEF Enqueue, dispVars
  <2>2. \A s \in Requests : InChan(s)' <=> InChan(s) \/ s = r
    BY <1>0, <1>4, EnqueueInChan
  <2>3. \A s \in Requests : Counted(s)' <=> Counted(s)
    BY <1>0, <2>1, <2>2 DEF Counted, TypeOK
  <2> QED
    BY <2>1, <2>3, CountsKept
<1>5. CASE Abandon(r)
  <2>1. /\ caller[r] = "sending" /\ caller' = [caller EXCEPT ![r] = "returned"]
        /\ waiting' = [waiting EXCEPT ![Prio[r]] = @ - 1]
        /\ UNCHANGED <<chan, cur, disp>>
    BY <1>5 DEF Abandon, dispVars
  <2>2. Counted(r) /\ ~InChan(r) /\ ~(disp = "took" /\ cur = r)
    BY <1>1, <1>2, <2>1 DEF Counted
  <2>3. \A s \in Requests : Counted(s)' <=> Counted(s) /\ s # r
    BY <1>0, <2>1, <2>2 DEF Counted, InChan, TypeOK
  <2> QED
    BY <1>0, <2>1, <2>2, <2>3, CountsRemove
<1>6. CASE ReceiveResult(r) \/ GiveUp(r) \/ Forget(r) \/ Cancel(r)
  <2>1. /\ caller' = caller
           \/ /\ caller[r] \in {"awaiting", "returned"}
              /\ \E v \in {"returned", "idle"} : caller' = [caller EXCEPT ![r] = v]
        /\ UNCHANGED <<waiting, chan, cur, disp>>
    BY <1>6 DEF ReceiveResult, GiveUp, Forget, Cancel, dispVars
  <2>2. \A s \in Requests : Counted(s)' <=> Counted(s)
    BY <1>0, <2>1 DEF Counted, InChan, TypeOK
  <2> QED
    BY <2>1, <2>2, CountsKept
<1> QED
  BY <1>3, <1>4, <1>5, <1>6 DEF CallerStep

LEMMA CountsDispatch ==
    ASSUME IInv, CountsOK, Dispatch
    PROVE  CountsOK'
<1> USE DEF callerVars
<1>0. TypeOK /\ NoReq \notin Requests
  BY NoReqAssumption DEF IInv
<1>1. ASSUME NEW p \in Tiers, Dequeue(p) PROVE CountsOK'
  <2>1. /\ disp = "dequeue" /\ disp' = "took"
        /\ UNCHANGED <<caller, waiting>>
    BY <1>1 DEF Dequeue, Take
  <2>2. \A s \in Requests : /\ InChan(s)' <=> InChan(s) /\ s # cur'
                            /\ s = cur' => InChan(s)
    BY <1>1, DequeueInChan
  <2>3. \A s \in Requests : Counted(s)' <=> Counted(s)
    BY <2>1, <2>2 DEF Counted
  <2> QED
    BY <2>1, <2>3, CountsKept
<1>2. CASE TakeOwnership
  <2>1. /\ disp = "took" /\ disp' = "check"
        /\ waiting' = [waiting EXCEPT ![Prio[cur]] = @ - 1]
        /\ UNCHANGED <<chan, caller, cur>>
    BY <1>2 DEF TakeOwnership
  <2>2. cur \in Requests /\ caller[cur] # "sending" /\ ~InChan(cur)
    BY <2>1, PhaseFacts DEF IInv, OwnedOK
  <2>3. \A s \in Requests : Counted(s)' <=> Counted(s) /\ s # cur
    BY <2>1, <2>2 DEF Counted, InChan
  <2> QED
    BY <1>0, <2>1, <2>2, <2>3, CountsRemove DEF Counted
<1>3. ASSUME disp # "took", disp' # "took", UNCHANGED <<chan, caller, waiting>>
      PROVE  CountsOK'
  <2>1. \A s \in Requests : Counted(s)' <=> Counted(s)
    BY <1>3 DEF Counted, InChan
  <2> QED
    BY <1>3, <2>1, CountsKept
<1>4. CASE \/ NextPass \/ CheckCancelled \/ Gate \/ Throttle
           \/ PressureRelieved \/ FinishFn \/ Deliver
           \/ \E err \in Errors \ {"fn"} : ThrottleFails(err)
  BY <1>3, <1>4 DEF NextPass, CheckCancelled, Gate, StartFn, Throttle, PressureRelieved,
                    FinishFn, Deliver, ThrottleFails
<1> QED
  BY <1>1, <1>2, <1>4 DEF Dispatch

(* The counters shown to the Boss are exact, whatever callers do.           *)
THEOREM CountersExact == Spec => []WaitingExact
<1>1. Init => CountsOK
  <2> SUFFICES ASSUME Init PROVE CountsOK
    OBVIOUS
  <2>1. \A p \in Tiers : Unclaimed(p) = {}
    BY PrioAssumption DEF Init, Unclaimed, InChan
  <2> QED
    BY <2>1, FS_EmptySet DEF Init, CountsOK
<1>2. IInv /\ CountsOK /\ [Next]_vars => CountsOK'
  <2> SUFFICES ASSUME IInv, CountsOK, [Next]_vars PROVE CountsOK'
    OBVIOUS
  <2>1. CASE Stop \/ PressureSample \/ Shutdown \/ UNCHANGED vars
    <3>1. UNCHANGED <<chan, caller, waiting, cur>> /\ (disp' = "took" <=> disp = "took")
      BY <2>1 DEF Stop, PressureSample, Shutdown, vars, callerVars, dispVars
    <3>2. \A s \in Requests : Counted(s)' <=> Counted(s)
      BY <3>1 DEF Counted, InChan
    <3> QED
      BY <3>1, <3>2, CountsKept
  <2> QED
    BY <2>1, CountsCaller, CountsDispatch DEF Next
<1>3. CountsOK => WaitingExact
  BY DEF CountsOK, WaitingExact
<1> QED
  BY <1>1, <1>2, <1>3, Invariance, PTL DEF Spec

=============================================================================
