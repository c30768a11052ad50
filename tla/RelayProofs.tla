----------------------------- MODULE RelayProofs -----------------------------
(* Theorems about Relay, for every number of updates and of failures, every *)
(* set of events and every number of starts.                                *)
EXTENDS Relay, TLAPS

(* Between two batches there is none. *)
BatchOK ==
    /\ poller.at \in {"stopped", "loop", "poll", "pause"} => poller.batch = <<>>
    /\ poller.at = "reply" => poller.batch # <<>>

(* What a poll answered is what Telegram still holds, in order. *)
AnswerOK ==
    poller.at = "answer" =>
        /\ confirmed + Len(poller.batch) <= sent
        /\ \A i \in 1..Len(poller.batch) : poller.batch[i] = confirmed + i

(* An update of the batch that is being handled. *)
Waiting(u) ==
    /\ poller.at \in {"run", "reply"}
    /\ \E i \in 1..Len(poller.batch) : poller.batch[i] = u

(* While nobody has stopped the loop, every update below the offset has run *)
(* or is in the batch; the first of the batch has run once its reply is due. *)
OffsetOK ==
    /\ poller.offset <= sent + 1
    /\ ~stopping =>
          /\ \A u \in Updates : u < poller.offset => u \in ran \/ Waiting(u)
          /\ poller.at = "reply" => Head(poller.batch) \in ran

RelayInv == TypeOK /\ BatchOK /\ AnswerOK /\ OffsetOK /\ NoUpdateLost

-----------------------------------------------------------------------------
LEMMA CountFail == ASSUME TypeOK, Fail
                   PROVE  count' \in [fails : 0..MaxFails, starts : 0..MaxStarts]
<1>1. count.fails + 1 \in 0..MaxFails
  BY RelayAssumption DEF TypeOK, Fail
<1> QED
  BY <1>1 DEF TypeOK, Fail

LEMMA InitRelay == Init => RelayInv
<1> SUFFICES ASSUME Init PROVE RelayInv
  OBVIOUS
<1>1. TypeOK
  <2>1. poller \in [at : {"stopped", "loop", "poll", "answer", "pause", "run", "reply"},
                    offset : 0..(NumUpdates + 1), batch : Seq(Updates)]
    BY RelayAssumption DEF Init, Idle
  <2>2. count \in [fails : 0..MaxFails, starts : 0..MaxStarts]
    BY RelayAssumption DEF Init
  <2>3. sent \in 0..NumUpdates /\ confirmed \in 0..sent
    BY RelayAssumption DEF Init
  <2> QED
    BY <2>1, <2>2, <2>3 DEF Init, TypeOK, Idle
<1>2. BatchOK /\ AnswerOK /\ OffsetOK /\ NoUpdateLost
  BY DEF Init, Idle, BatchOK, AnswerOK, OffsetOK, NoUpdateLost, Updates
<1> QED
  BY <1>1, <1>2 DEF RelayInv

(* The steps that leave the poller and Telegram alone. *)
LEMMA OtherStep ==
    ASSUME RelayInv, TypeOK', UNCHANGED <<poller, sent, confirmed, ran>>,
           stopping' = stopping \/ stopping' = TRUE
    PROVE  RelayInv'
<1>1. BatchOK' /\ AnswerOK' /\ NoUpdateLost'
  BY DEF RelayInv, BatchOK, AnswerOK, NoUpdateLost
<1>2. OffsetOK'
  BY DEF RelayInv, OffsetOK, Waiting
<1> QED
  BY <1>1, <1>2 DEF RelayInv

(* The loop begins, again or anew, with nothing to handle. *)
LEMMA IdleStep ==
    ASSUME RelayInv, TypeOK', poller' = [Idle EXCEPT !.at = poller'.at],
           poller'.at \in {"stopped", "loop"}, UNCHANGED <<sent, confirmed, ran>>
    PROVE  RelayInv'
<1>1. poller'.offset = 0 /\ poller'.batch = <<>>
  BY DEF Idle
<1>2. BatchOK' /\ AnswerOK' /\ NoUpdateLost'
  BY <1>1 DEF RelayInv, BatchOK, AnswerOK, NoUpdateLost
<1>3. OffsetOK'
  BY <1>1 DEF RelayInv, TypeOK, OffsetOK, Updates
<1> QED
  BY <1>2, <1>3 DEF RelayInv

-----------------------------------------------------------------------------
(* The steps of the loop. *)

LEMMA HeldRange ==
    ASSUME NEW n \in Nat, NEW s \in 0..n, NEW c \in 0..s
    PROVE  s - c \in Nat /\ \A i \in 1..(s - c) : c + i \in 1..n
OBVIOUS

LEMMA HeldSeq ==
    ASSUME NEW S, NEW n \in Nat, NEW f \in [1..n -> S]
    PROVE  f \in Seq(S)
OBVIOUS

LEMMA PollingType == RelayInv /\ Polling => TypeOK'
<1> SUFFICES ASSUME RelayInv, Polling PROVE TypeOK'
  OBVIOUS
<1> USE DEF webhookVars, histVars
<1> DEFINE Pollers == [at : {"stopped", "loop", "poll", "answer", "pause", "run", "reply"},
                       offset : 0..(NumUpdates + 1), batch : Seq(Updates)]
<1>0. TypeOK /\ poller \in Pollers /\ NumUpdates \in Nat
  BY RelayAssumption DEF RelayInv, TypeOK
<1>1. CASE Loop \/ PauseEnds \/ BatchDone
  <2>1. poller' \in Pollers /\ poller'.at # "reply"
    BY <1>0, <1>1 DEF Loop, PauseEnds, BatchDone, Poll
  <2> QED
    BY <1>0, <1>1, <2>1 DEF Loop, PauseEnds, BatchDone, TypeOK
<1>2. CASE ServePoll
  <2>1. confirmed' \in 0..sent
    BY <1>0, <1>2 DEF ServePoll, RelayInv, OffsetOK, TypeOK
  <2>2. sent \in 0..NumUpdates
    BY <1>0 DEF TypeOK
  <2>3. /\ sent - confirmed' \in Nat
        /\ \A i \in 1..(sent - confirmed') : confirmed' + i \in 1..NumUpdates
    BY <1>0, <2>1, <2>2, HeldRange
  <2>4. [i \in 1..(sent - confirmed') |-> confirmed' + i] \in Seq(Updates)
    <3>1. [i \in 1..(sent - confirmed') |-> confirmed' + i] \in [1..(sent - confirmed') -> Updates]
      BY <2>3 DEF Updates
    <3> QED
      BY <2>3, <3>1, HeldSeq
  <2>5. poller' \in Pollers /\ poller'.at = "answer"
    BY <1>0, <1>2, <2>4 DEF ServePoll
  <2> QED
    BY <1>0, <1>2, <2>1, <2>5 DEF ServePoll, TypeOK
<1>3. CASE GetUpdates
  <2>1. poller.batch # <<>> => NextOffset(poller.batch) \in 0..(NumUpdates + 1)
    <3> SUFFICES ASSUME poller.batch # <<>>
                 PROVE  NextOffset(poller.batch) \in 0..(NumUpdates + 1)
      OBVIOUS
    <3>1. poller.batch \in Seq(Updates) /\ Len(poller.batch) \in 1..Len(poller.batch)
      BY <1>0
    <3>2. poller.batch[Len(poller.batch)] \in Updates
      BY <3>1
    <3> QED
      BY <1>0, <3>2 DEF NextOffset, Last, Updates
  <2>2. poller' \in Pollers /\ poller'.at = "run"
    BY <1>0, <1>3, <2>1 DEF GetUpdates
  <2> QED
    BY <1>0, <1>3, <2>2 DEF GetUpdates, TypeOK
<1>4. CASE PollFails
  <2>1. poller' \in Pollers /\ poller'.at # "reply"
    <3>1. PICK at \in {"stopped", "pause"} : poller' = [poller EXCEPT !.at = at, !.batch = <<>>]
      BY <1>4 DEF PollFails
    <3>2. <<>> \in Seq(Updates)
      OBVIOUS
    <3> QED
      BY <1>0, <3>1, <3>2
  <2>2. count' \in [fails : 0..MaxFails, starts : 0..MaxStarts]
    BY <1>0, <1>4, CountFail DEF PollFails, TypeOK
  <2> QED
    BY <1>0, <1>4, <2>1, <2>2 DEF PollFails, TypeOK
<1>5. CASE HandleUpdate
  <2>1. poller.batch \in Seq(Updates) /\ poller.batch # <<>>
    BY <1>0, <1>5 DEF HandleUpdate
  <2>2. Head(poller.batch) \in Updates /\ Tail(poller.batch) \in Seq(Updates)
    BY <2>1
  <2>3. poller' \in Pollers /\ (poller'.at = "reply" => poller'.batch # <<>>)
    BY <1>0, <1>5, <2>1, <2>2 DEF HandleUpdate
  <2>4. ran' \subseteq Updates
    BY <1>0, <1>5, <2>2 DEF HandleUpdate, TypeOK
  <2> QED
    BY <1>0, <1>5, <2>3, <2>4 DEF HandleUpdate, TypeOK
<1>6. CASE SendReply
  <2>1. poller.batch \in Seq(Updates) /\ poller.batch # <<>>
    BY <1>0, <1>6 DEF SendReply, TypeOK
  <2>2. Tail(poller.batch) \in Seq(Updates)
    BY <2>1
  <2>3. poller' \in Pollers /\ poller'.at = "run"
    BY <1>0, <1>6, <2>2 DEF SendReply
  <2>4. count' \in [fails : 0..MaxFails, starts : 0..MaxStarts]
    BY <1>0, <1>6, CountFail DEF SendReply, TypeOK
  <2> QED
    BY <1>0, <1>6, <2>3, <2>4 DEF SendReply, TypeOK
<1> QED
  BY <1>1, <1>2, <1>3, <1>4, <1>5, <1>6 DEF Polling

(* The first update of the batch is over: it has run or is nothing to run.  *)
LEMMA BatchShrinks ==
    ASSUME RelayInv, TypeOK', poller.at \in {"run", "reply"}, poller.batch # <<>>,
           poller'.at = "run", poller'.batch = Tail(poller.batch),
           poller'.offset = poller.offset, UNCHANGED <<stopping, sent, confirmed>>,
           ran \subseteq ran', ~stopping => Head(poller.batch) \in ran'
    PROVE  RelayInv'
<1>1. poller.batch \in Seq(Updates)
  BY DEF RelayInv, TypeOK
<1>2. \A u : Waiting(u) => Waiting(u)' \/ u = Head(poller.batch)
  <2> SUFFICES ASSUME NEW u, Waiting(u), u # Head(poller.batch) PROVE Waiting(u)'
    OBVIOUS
  <2>1. PICK i \in 1..Len(poller.batch) : poller.batch[i] = u
    BY DEF Waiting
  <2>2. i # 1
    BY <1>1, <2>1
  <2>3. i - 1 \in 1..Len(Tail(poller.batch)) /\ Tail(poller.batch)[i - 1] = u
    BY <1>1, <2>1, <2>2
  <2> QED
    BY <2>3 DEF Waiting
<1>3. BatchOK' /\ AnswerOK' /\ NoUpdateLost'
  BY DEF RelayInv, BatchOK, AnswerOK, NoUpdateLost
<1>4. OffsetOK'
  <2>1. poller'.offset <= sent' + 1
    BY DEF RelayInv, OffsetOK
  <2>2. ASSUME ~stopping, NEW u \in Updates, u < poller.offset
        PROVE  u \in ran' \/ Waiting(u)'
    BY <1>2, <2>2 DEF RelayInv, OffsetOK
  <2> QED
    BY <2>1, <2>2 DEF OffsetOK
<1> QED
  BY <1>3, <1>4 DEF RelayInv

LEMMA PollingKeeps ==
    ASSUME RelayInv, TypeOK', Polling
    PROVE  RelayInv'
<1> USE DEF webhookVars, histVars
<1>0. /\ TypeOK /\ BatchOK /\ OffsetOK /\ NoUpdateLost
      /\ poller \in [at : {"stopped", "loop", "poll", "answer", "pause", "run", "reply"},
                     offset : 0..(NumUpdates + 1), batch : Seq(Updates)]
  BY DEF RelayInv, TypeOK
<1>1. ASSUME NEW at \in {"stopped", "loop", "poll", "pause", "run"},
             poller'.at = at, poller'.batch = <<>>, poller'.offset = poller.offset,
             poller.batch = <<>> \/ poller.at = "answer",
             UNCHANGED <<stopping, sent, confirmed, ran>>
      PROVE  RelayInv'
  <2>1. BatchOK' /\ AnswerOK' /\ NoUpdateLost'
    BY <1>0, <1>1 DEF BatchOK, AnswerOK, NoUpdateLost
  <2>2. ASSUME ~stopping, NEW u \in Updates, u < poller.offset PROVE u \in ran
    <3>1. u \in ran \/ Waiting(u)
      BY <1>0, <2>2 DEF OffsetOK
    <3>2. Waiting(u) => FALSE
      BY <1>1, <2>2, <1>0 DEF Waiting
    <3> QED
      BY <3>1, <3>2
  <2>3. OffsetOK'
    BY <1>0, <1>1, <2>2 DEF OffsetOK
  <2> QED
    BY <2>1, <2>3 DEF RelayInv
<1>2. CASE Loop \/ PauseEnds \/ BatchDone \/ PollFails
  <2>1. /\ poller'.at \in {"stopped", "loop", "poll", "pause"}
        /\ poller'.batch = <<>> /\ poller'.offset = poller.offset
    <3>1. CASE PollFails
      BY <1>0, <3>1 DEF PollFails
    <3>2. CASE Loop \/ PauseEnds \/ BatchDone
      <4>1. poller.batch = <<>>
        BY <1>0, <3>2 DEF Loop, PauseEnds, BatchDone, BatchOK
      <4> QED
        BY <1>0, <3>2, <4>1 DEF Loop, PauseEnds, BatchDone, Poll
    <3> QED
      BY <1>2, <3>1, <3>2
  <2>2. poller.batch = <<>> \/ poller.at = "answer"
    BY <1>0, <1>2 DEF Loop, PauseEnds, BatchDone, PollFails, BatchOK
  <2>3. UNCHANGED <<stopping, sent, confirmed, ran>>
    BY <1>2 DEF Loop, PauseEnds, BatchDone, PollFails
  <2> QED
    BY <1>1, <2>1, <2>2, <2>3
<1>3. CASE ServePoll
  <2>1. /\ poller.at = "poll" /\ ~stopping /\ poller.batch = <<>>
        /\ poller'.at = "answer" /\ poller'.offset = poller.offset
        /\ poller'.batch = [i \in 1..(sent - confirmed') |-> confirmed' + i]
        /\ confirmed' = IF poller.offset > confirmed + 1 THEN poller.offset - 1 ELSE confirmed
        /\ UNCHANGED <<stopping, sent, ran>>
    BY <1>0, <1>3 DEF ServePoll, BatchOK
  <2>2. sent \in Nat /\ confirmed \in Nat /\ confirmed' \in Nat /\ confirmed' <= sent
        /\ poller.offset \in Nat
    BY <1>0, <2>1 DEF TypeOK, OffsetOK
  <2>3. \A u \in Updates : u < poller.offset => u \in ran
    BY <1>0, <2>1 DEF OffsetOK, Waiting
  <2>4. NoUpdateLost'
    <3> SUFFICES ASSUME NEW u \in Updates, u <= confirmed' PROVE u \in ran
      BY <2>1 DEF NoUpdateLost
    <3>1. u \in Nat /\ (u <= confirmed => u \in ran)
      BY <1>0 DEF NoUpdateLost, Updates
    <3>2. u < poller.offset \/ u <= confirmed
      BY <2>1, <2>2, <3>1
    <3> QED
      BY <2>3, <3>1, <3>2
  <2>5. AnswerOK'
    <3>1. Len(poller'.batch) = sent - confirmed'
      BY <2>1, <2>2
    <3> QED
      BY <2>1, <2>2, <3>1 DEF AnswerOK
  <2>6. OffsetOK' /\ BatchOK'
    BY <1>0, <2>1, <2>3 DEF OffsetOK, BatchOK
  <2> QED
    BY <2>4, <2>5, <2>6 DEF RelayInv
<1>4. CASE GetUpdates
  <2>1. /\ poller.at = "answer" /\ ~stopping
        /\ poller'.at = "run" /\ poller'.batch = poller.batch
        /\ poller'.offset = IF poller.batch = <<>> THEN poller.offset
                            ELSE poller.batch[Len(poller.batch)] + 1
        /\ UNCHANGED <<stopping, sent, confirmed, ran>>
    BY <1>0, <1>4 DEF GetUpdates, NextOffset, Last
  <2>2. /\ sent \in Nat /\ confirmed \in Nat
        /\ poller.batch \in Seq(Updates) /\ Len(poller.batch) \in Nat
        /\ confirmed + Len(poller.batch) <= sent
        /\ \A i \in 1..Len(poller.batch) : poller.batch[i] = confirmed + i
    BY <1>0, <2>1 DEF TypeOK, RelayInv, AnswerOK
  <2>3. NoUpdateLost' /\ AnswerOK' /\ BatchOK'
    BY <1>0, <2>1 DEF NoUpdateLost, AnswerOK, BatchOK
  <2>4. CASE poller.batch = <<>>
    <3>1. \A u \in Updates : u < poller.offset => u \in ran
      BY <1>0, <2>1 DEF OffsetOK, Waiting
    <3>2. OffsetOK'
      BY <1>0, <2>1, <2>4, <3>1 DEF OffsetOK
    <3> QED
      BY <2>3, <3>2 DEF RelayInv
  <2>5. CASE poller.batch # <<>>
    <3>1. Len(poller.batch) >= 1 /\ poller'.offset = confirmed + Len(poller.batch) + 1
      BY <2>1, <2>2, <2>5
    <3>2. ASSUME NEW u \in Updates, u < poller'.offset PROVE u \in ran' \/ Waiting(u)'
      <4>1. u \in Nat /\ (u <= confirmed => u \in ran)
        BY <1>0 DEF NoUpdateLost, Updates
      <4>2. CASE u > confirmed
        <5>1. u - confirmed \in 1..Len(poller.batch)
          BY <2>2, <3>1, <3>2, <4>1, <4>2
        <5>2. poller.batch[u - confirmed] = u
          BY <2>2, <4>1, <5>1
        <5> QED
          BY <2>1, <5>1, <5>2 DEF Waiting
      <4> QED
        BY <2>1, <2>2, <4>1, <4>2
    <3>3. OffsetOK'
      BY <2>1, <2>2, <3>1, <3>2 DEF OffsetOK
    <3> QED
      BY <2>3, <3>3 DEF RelayInv
  <2> QED
    BY <2>4, <2>5
<1>5. CASE HandleUpdate
  <2> DEFINE u == Head(poller.batch)
  <2>1. /\ poller.at = "run" /\ poller.batch # <<>>
        /\ ran \subseteq ran' /\ (~stopping => u \in ran')
        /\ UNCHANGED <<stopping, sent, confirmed>>
    BY <1>5 DEF HandleUpdate
  <2>2. CASE ~IsCommand(u)
    <3>1. poller' = [poller EXCEPT !.batch = Tail(@)]
      BY <1>5, <2>2 DEF HandleUpdate
    <3>2. poller'.at = "run" /\ poller'.batch = Tail(poller.batch) /\ poller'.offset = poller.offset
      BY <1>0, <2>1, <3>1
    <3> QED
      BY <2>1, <3>2, BatchShrinks
  <2>3. CASE IsCommand(u)
    <3>1. poller' = [poller EXCEPT !.at = "reply"]
      BY <1>5, <2>3 DEF HandleUpdate
    <3>2. poller'.at = "reply" /\ poller'.batch = poller.batch /\ poller'.offset = poller.offset
      BY <1>0, <3>1
    <3>3. NoUpdateLost' /\ AnswerOK' /\ BatchOK'
      BY <1>0, <2>1, <3>2 DEF NoUpdateLost, AnswerOK, BatchOK
    <3>4. \A v : Waiting(v) => Waiting(v)'
      BY <3>2 DEF Waiting
    <3>5. OffsetOK'
      BY <1>0, <2>1, <3>2, <3>4 DEF OffsetOK
    <3> QED
      BY <3>3, <3>5 DEF RelayInv
  <2> QED
    BY <2>2, <2>3
<1>6. CASE SendReply
  <2>1. /\ poller.at = "reply" /\ poller.batch # <<>>
        /\ poller' = [poller EXCEPT !.at = "run", !.batch = Tail(@)]
        /\ UNCHANGED <<stopping, sent, confirmed, ran>>
    BY <1>0, <1>6 DEF SendReply, BatchOK
  <2>2. poller'.at = "run" /\ poller'.batch = Tail(poller.batch) /\ poller'.offset = poller.offset
    BY <1>0, <2>1
  <2>3. ~stopping => Head(poller.batch) \in ran
    BY <1>0, <2>1 DEF OffsetOK
  <2> QED
    BY <2>1, <2>2, <2>3, BatchShrinks
<1> QED
  BY <1>2, <1>3, <1>4, <1>5, <1>6 DEF Polling

-----------------------------------------------------------------------------
(* Every other step. *)

LEMMA RelayStep == RelayInv /\ [Next]_vars => RelayInv'
<1> SUFFICES ASSUME RelayInv, [Next]_vars PROVE RelayInv'
  OBVIOUS
<1> USE DEF telegramVars, webhookVars, histVars
<1>0. TypeOK
  BY DEF RelayInv
<1>1. CASE Polling
  BY <1>1, PollingType, PollingKeeps
<1>2. CASE StartTelegram
  <2>1. poller' = [Idle EXCEPT !.at = "loop"]
    BY <1>2 DEF StartTelegram
  <2>2. poller' \in [at : {"stopped", "loop", "poll", "answer", "pause", "run", "reply"},
                     offset : 0..(NumUpdates + 1), batch : Seq(Updates)]
    <3>1. poller' = [at |-> "loop", offset |-> 0, batch |-> <<>>]
      BY <2>1 DEF Idle
    <3>2. 0 \in 0..(NumUpdates + 1) /\ <<>> \in Seq(Updates)
      BY RelayAssumption
    <3> QED
      BY <3>1, <3>2
  <2>3. poller'.at = "loop"
    BY <2>1 DEF Idle
  <2>4. TypeOK'
    BY <1>0, <1>2, <2>2, <2>3 DEF StartTelegram, TypeOK
  <2> QED
    BY <1>2, <2>1, <2>3, <2>4, IdleStep DEF StartTelegram
<1>3. CASE StopEnds \/ Crash
  <2>1. poller' = Idle /\ UNCHANGED <<sent, confirmed, ran, served, acked, count>>
        /\ stopping' = FALSE /\ main' = "down" /\ listening' = FALSE
    BY <1>3 DEF StopEnds, Crash, ProcessEnds
  <2>2. poller' \in [at : {"stopped", "loop", "poll", "answer", "pause", "run", "reply"},
                     offset : 0..(NumUpdates + 1), batch : Seq(Updates)]
    BY <2>1, RelayAssumption DEF Idle
  <2>3. /\ hook' \in [Deliveries -> {"none", "arrived", "handled", "ended"}]
        /\ job' \in [Deliveries -> {"none", "run", "reply", "ended"}]
    BY <1>3 DEF StopEnds, Crash, ProcessEnds
  <2>4. poller'.at = "stopped"
    BY <2>1 DEF Idle
  <2>5. TypeOK'
    BY <1>0, <2>1, <2>2, <2>3, <2>4 DEF TypeOK
  <2>6. poller' = [Idle EXCEPT !.at = poller'.at]
    BY <2>1 DEF Idle
  <2> QED
    BY <2>1, <2>4, <2>5, <2>6, IdleStep
<1>4. CASE SendUpdate
  <2>1. sent' = sent + 1 /\ sent < NumUpdates /\ sent \in Nat /\ confirmed \in 0..sent
        /\ UNCHANGED <<poller, stopping, confirmed, ran>>
    BY <1>0, <1>4 DEF SendUpdate, TypeOK
  <2>2. sent' \in 0..NumUpdates /\ confirmed' \in 0..sent'
    BY <2>1, RelayAssumption
  <2>3. TypeOK'
    BY <1>0, <1>4, <2>2 DEF SendUpdate, TypeOK
  <2>4. BatchOK' /\ NoUpdateLost'
    BY <2>1 DEF RelayInv, BatchOK, NoUpdateLost
  <2>5. AnswerOK'
    <3>1. Len(poller.batch) \in Nat
      BY <1>0 DEF TypeOK
    <3> QED
      BY <2>1, <3>1 DEF RelayInv, AnswerOK
  <2>6. OffsetOK'
    <3>1. poller.offset \in Nat
      BY <1>0, RelayAssumption DEF TypeOK
    <3>2. poller'.offset <= sent' + 1
      BY <2>1, <3>1 DEF RelayInv, OffsetOK
    <3> QED
      BY <2>1, <3>2 DEF RelayInv, OffsetOK, Waiting
  <2> QED
    BY <2>3, <2>4, <2>5, <2>6 DEF RelayInv
<1>5. CASE StartWebhooks \/ Signal \/ StopWebhooks \/ CancelLoop \/ Restart
  <2>1. UNCHANGED <<poller, sent, confirmed, ran, served, hook, job, acked>>
        /\ (stopping' = stopping \/ stopping' = TRUE)
    BY <1>5 DEF StartWebhooks, Signal, StopWebhooks, CancelLoop, Restart
  <2>2. count' \in [fails : 0..MaxFails, starts : 0..MaxStarts]
    <3>1. CASE Restart
      <4>1. count.starts + 1 \in 0..MaxStarts
        BY <1>0, <3>1, RelayAssumption DEF Restart, TypeOK
      <4> QED
        BY <1>0, <3>1, <4>1 DEF Restart, TypeOK
    <3>2. CASE ~Restart
      BY <1>0, <1>5, <3>2, CountFail DEF StartWebhooks, Signal, StopWebhooks, CancelLoop, TypeOK
    <3> QED
      BY <3>1, <3>2
  <2>3. /\ main' \in {"down", "telegram", "webhooks", "ready", "stop_webhooks",
                      "stop_telegram", "wait"}
        /\ listening' \in BOOLEAN /\ stopping' \in BOOLEAN
    BY <1>0, <1>5 DEF StartWebhooks, Signal, StopWebhooks, CancelLoop, Restart, TypeOK
  <2>4. TypeOK'
    BY <1>0, <2>1, <2>2, <2>3 DEF TypeOK
  <2> QED
    BY <2>1, <2>4, OtherStep
<1>6. ASSUME NEW e \in Events, NEW n \in 1..Tries, Deliver(e, n) PROVE RelayInv'
  <2>1. TypeOK'
    BY <1>0, <1>6 DEF Deliver, TypeOK
  <2> QED
    BY <1>6, <2>1, OtherStep DEF Deliver
<1>7. ASSUME NEW d \in Deliveries, Serving(d) PROVE RelayInv'
  <2>1. UNCHANGED <<main, poller, stopping, sent, confirmed, listening, ran>>
    BY <1>7 DEF Serving, SlackEvent, WhatsAppEvent, HandlerReturns, RunCommand, PostReply
  <2>2. /\ hook' \in [Deliveries -> {"none", "arrived", "handled", "ended"}]
        /\ job' \in [Deliveries -> {"none", "run", "reply", "ended"}]
    BY <1>0, <1>7 DEF Serving, SlackEvent, WhatsAppEvent, HandlerReturns, RunCommand,
                      PostReply, Refuse, StartJob, TypeOK
  <2>3. d[1] \in Events
    BY DEF Deliveries
  <2>4. acked' \subseteq Events /\ served' \subseteq Deliveries
    BY <1>0, <1>7, <2>3 DEF Serving, SlackEvent, WhatsAppEvent, HandlerReturns, RunCommand,
                            PostReply, TypeOK
  <2>5. count' \in [fails : 0..MaxFails, starts : 0..MaxStarts]
    BY <1>0, <1>7, CountFail DEF Serving, SlackEvent, WhatsAppEvent, HandlerReturns,
                                 RunCommand, PostReply, TypeOK
  <2>6. TypeOK'
    BY <1>0, <2>1, <2>2, <2>4, <2>5 DEF TypeOK
  <2> QED
    BY <2>1, <2>6, OtherStep
<1>8. CASE UNCHANGED vars
  <2>1. TypeOK'
    BY <1>0, <1>8 DEF vars, TypeOK
  <2> QED
    BY <1>8, <2>1, OtherStep DEF vars
<1> QED
  BY <1>1, <1>2, <1>3, <1>4, <1>5, <1>6, <1>7, <1>8 DEF Next, Starting, Stopping

(* What the loop keeps true of the offset, the batch and the updates.       *)
THEOREM RelayInvariance == Spec => []RelayInv
<1> QED
  BY InitRelay, RelayStep, PTL DEF Spec

(* TypeOK is an invariant, for every instance.                              *)
THEOREM TypeCorrect == Spec => []TypeOK
<1>1. RelayInv => TypeOK
  BY DEF RelayInv
<1> QED
  BY <1>1, RelayInvariance, PTL

(* Telegram has forgotten no update whose command has not run.              *)
THEOREM UpdatesNotLost == Spec => []NoUpdateLost
<1>1. RelayInv => NoUpdateLost
  BY DEF RelayInv
<1> QED
  BY <1>1, RelayInvariance, PTL

=============================================================================
