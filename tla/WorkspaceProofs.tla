---------------------------- MODULE WorkspaceProofs ----------------------------
(* Theorems about Workspace, for every set of projects, commands and calls   *)
(* that may be under way at once, and every bound.                          *)
EXTENDS Workspace, TLAPS, FiniteSetTheorems, SequenceTheorems

-----------------------------------------------------------------------------
(* What a query with ORDER BY and LIMIT returns.                            *)

(* A part of the positions is finite, and no larger than the whole. *)
LEMMA Positions ==
    ASSUME NEW n \in Nat, NEW S \in SUBSET (1..n), NEW T \in SUBSET S
    PROVE  /\ IsFiniteSet(T)
           /\ Cardinality(T) \in Nat
           /\ Cardinality(S) \in Nat
           /\ Cardinality(T) <= Cardinality(S)
           /\ Cardinality(T) = Cardinality(S) => T = S
<1>1. IsFiniteSet(1..n)
  BY FS_Interval
<1>2. IsFiniteSet(S)
  BY <1>1, FS_Subset
<1>3. IsFiniteSet(T) /\ Cardinality(T) <= Cardinality(S) /\ (Cardinality(S) = Cardinality(T) => S = T)
  BY <1>2, FS_Subset
<1> QED
  BY <1>2, <1>3, FS_CardinalityType

(* How many positions of S are at i or before. *)
Rank(S, i) == Cardinality({j \in S : j <= i})

(* Positions are numbered from 1 in their order. *)
LEMMA RankIn ==
    ASSUME NEW n \in Nat, NEW S \in SUBSET (1..n), NEW i \in S
    PROVE  Rank(S, i) \in 1..Cardinality(S)
<1> DEFINE below == {j \in S : j <= i}
<1>1. below \in SUBSET S /\ below # {}
  OBVIOUS
<1>2. IsFiniteSet(below) /\ Cardinality(below) \in Nat /\ Cardinality(S) \in Nat
      /\ Cardinality(below) <= Cardinality(S)
  BY <1>1, Positions
<1>3. Cardinality(below) # 0
  BY <1>1, <1>2, FS_EmptySet
<1> QED
  BY <1>2, <1>3 DEF Rank

LEMMA RankGrows ==
    ASSUME NEW n \in Nat, NEW S \in SUBSET (1..n), NEW i \in S, NEW k \in S, i < k
    PROVE  Rank(S, i) < Rank(S, k)
<1> DEFINE low == {j \in S : j <= i}
           high == {j \in S : j <= k}
<1>1. i \in Int /\ k \in Int /\ \A j \in S : j \in Int
  OBVIOUS
<1>2. k \in high /\ k \notin low
  BY <1>1
<1>5. high \in SUBSET (1..n)
  OBVIOUS
<1>4. low \in SUBSET high
  <2> SUFFICES ASSUME NEW j \in S, j <= i PROVE j <= k
    OBVIOUS
  <2> QED
    BY <1>1
<1>3. /\ Cardinality(low) \in Nat /\ Cardinality(high) \in Nat
      /\ Cardinality(low) <= Cardinality(high) /\ Cardinality(low) # Cardinality(high)
  <2> HIDE DEF low, high
  <2> QED
    BY <1>2, <1>4, <1>5, Positions
<1> QED
  BY <1>3 DEF Rank

LEMMA RankOne ==
    ASSUME NEW n \in Nat, NEW S \in SUBSET (1..n), NEW i \in S, NEW k \in S, Rank(S, i) = Rank(S, k)
    PROVE  i = k
<1>1. i \in Int /\ k \in Int
  OBVIOUS
<1>2. Cardinality(S) \in Nat
  BY Positions
<1>3. Rank(S, i) \in 1..Cardinality(S)
  BY RankIn
<1>4. Rank(S, i) \in Int
  BY <1>2, <1>3
<1>5. ASSUME i < k PROVE FALSE
  <2>1. Rank(S, i) < Rank(S, k)
    BY <1>5, RankGrows
  <2> QED
    BY <1>4, <2>1
<1>6. ASSUME k < i PROVE FALSE
  <2>1. Rank(S, k) < Rank(S, i)
    BY <1>6, RankGrows
  <2> QED
    BY <1>4, <2>1
<1> QED
  BY <1>1, <1>5, <1>6

LEMMA RankOnto ==
    ASSUME NEW n \in Nat, NEW S \in SUBSET (1..n), NEW k \in 1..Cardinality(S)
    PROVE  \E i \in S : Rank(S, i) = k
<1> DEFINE f == [i \in S |-> Rank(S, i)]
           T == 1..Cardinality(S)
<1>1. Cardinality(S) \in Nat
  BY Positions
<1>2. f \in [S -> T]
  BY RankIn
<1>3. \A i, j \in S : f[i] = f[j] => i = j
  BY RankOne
<1>4. f \in Injection(S, T)
  <2> HIDE DEF f, T
  <2> QED
    BY <1>2, <1>3 DEF Injection, IsInjective
<1>5. IsFiniteSet(T) /\ Cardinality(T) = Cardinality(S)
  BY <1>1, FS_Interval
<1>6. f \in Surjection(S, T)
  <2> HIDE DEF f, T
  <2> QED
    BY <1>4, <1>5, FS_Injection
<1>7. \E i \in S : f[i] = k
  <2> k \in T
    OBVIOUS
  <2> HIDE DEF f, T
  <2> QED
    BY <1>6 DEF Surjection
<1> QED
  BY <1>7

(* The rows at some positions are those at them, and no others. *)
LEMMA RowsAtAre ==
    ASSUME NEW T, NEW rows \in Seq(T), NEW S \in SUBSET (1..Len(rows))
    PROVE  /\ RowsAt(rows, S) \in Seq(T)
           /\ \A i \in S : \E k \in DOMAIN RowsAt(rows, S) : RowsAt(rows, S)[k] = rows[i]
           /\ \A k \in DOMAIN RowsAt(rows, S) : \E i \in S : RowsAt(rows, S)[k] = rows[i]
<1>0. Len(rows) \in Nat
  OBVIOUS
<1>1. Cardinality(S) \in Nat
  BY <1>0, Positions
<1>2. \A k \in 1..Cardinality(S) : Nth(S, k) \in S /\ Rank(S, Nth(S, k)) = k
  <2> TAKE k \in 1..Cardinality(S)
  <2>1. \E i \in S : Cardinality({j \in S : j <= i}) = k
    BY <1>0, RankOnto DEF Rank
  <2> QED
    BY <2>1 DEF Nth, Rank
<1>3. \A i \in S : Rank(S, i) \in 1..Cardinality(S) /\ Nth(S, Rank(S, i)) = i
  <2> TAKE i \in S
  <2>1. Rank(S, i) \in 1..Cardinality(S)
    BY <1>0, RankIn
  <2>2. Nth(S, Rank(S, i)) \in S /\ Rank(S, Nth(S, Rank(S, i))) = Rank(S, i)
    BY <1>2, <2>1
  <2>3. Nth(S, Rank(S, i)) = i
    BY <1>0, <2>2, RankOne
  <2> QED
    BY <2>1, <2>3
<1>4. \A k \in 1..Cardinality(S) : rows[Nth(S, k)] \in T
  <2> TAKE k \in 1..Cardinality(S)
  <2>1. Nth(S, k) \in 1..Len(rows)
    BY <1>2
  <2> QED
    BY <2>1
<1>5. RowsAt(rows, S) \in Seq(T) /\ DOMAIN RowsAt(rows, S) = 1..Cardinality(S)
  BY <1>1, <1>4 DEF RowsAt
<1> QED
  BY <1>2, <1>3, <1>5 DEF RowsAt

-----------------------------------------------------------------------------
(* Types.                                                                   *)

MessageRow(n) ==
    {m \in [project : Projects \cup {None}, conv : 0..n, kind : Kinds, cmd : Cmds \cup {None}] :
        m.kind = "boss_command" => m.cmd \in Cmds}
Critique(n) == [project : Projects \cup {None}, conv : 0..n]
Places == {"idle", "classify", "infer", "reply", "work", "ended"}
Context(n) == [project : Projects \cup {None}, conv : 0..n, bus : Projects \cup {None}]
CallRow(n) == [op : Ops \cup {"none"}, at : Ats \cup {"none"}, by : {"none", "orch", "service", "cache"},
               id : Projects \cup {None}, conv : 0..n, copy : Configs]

(* A call that is about to touch the rows of a project has one in hand. *)
Formed(c) ==
    /\ c.at \in {"insert", "activate", "find", "make", "set", "seed", "open"} => c.id \in Projects
    /\ c.at = "write" /\ c.op = "first_run" => c.id \in Projects

RowsOK ==
    /\ listed \in Seq(Projects)
    /\ archived \subseteq Range(listed)
    /\ active \subseteq Range(listed)
    /\ convs \in Seq(Projects \X Titles)
    /\ deleted \in 0..Len(convs)
SavedOK == saved \in Seq(MessageRow(Len(convs)))
ServiceOK == activeConv \in 0..Len(convs) /\ cfg \in Configs /\ file \in Configs
OrchOK == orch \in Context(Len(convs)) /\ lead \in Seq(Entries) /\ forgotten \subseteq Entries
CallsOK == call \in [Slots -> CallRow(Len(convs))] /\ \A s \in Slots : Formed(call[s])
CmdsOK == cmd \in [Cmds -> Places] /\ critique \in Critique(Len(convs))
Counts == [calls : 0..MaxCalls, fails : 0..MaxFails, starts : 0..MaxStarts, notes : 0..MaxNotes]
CountsOK ==
    /\ last \in [op : Ops \cup {"none"}, id : Projects \cup {None}, ok : BOOLEAN]
    /\ count \in Counts

TypeInv == RowsOK /\ SavedOK /\ ServiceOK /\ OrchOK /\ CallsOK /\ CmdsOK /\ CountsOK

LEMMA TypesAreOK == TypeInv => TypeOK
<1> SUFFICES ASSUME TypeInv PROVE TypeOK
  OBVIOUS
<1>1. Len(convs) \in Nat /\ saved \in Seq(MessageRow(Len(convs)))
  BY DEF TypeInv, RowsOK, SavedOK
<1>2. MessageRow(Len(convs)) \subseteq Messages
  BY <1>1 DEF MessageRow, Messages
<1>3. saved \in Seq(Messages)
  BY <1>1, <1>2, SeqMonotonic
<1>4. \A i \in DOMAIN saved : saved[i].conv <= Len(convs)
  <2> TAKE i \in DOMAIN saved
  <2>1. saved[i] \in MessageRow(Len(convs))
    BY <1>1
  <2> QED
    BY <1>1, <2>1 DEF MessageRow
<1>5. OrchOK /\ CallsOK /\ CmdsOK /\ CountsOK
  BY DEF TypeInv
<1>6. /\ orch \in [project : Projects \cup {None}, conv : 0..Len(convs), bus : Projects \cup {None}]
      /\ lead \in Seq(Entries) /\ forgotten \subseteq Entries
      /\ critique \in [project : Projects \cup {None}, conv : 0..Len(convs)]
      /\ cmd \in [Cmds -> {"idle", "classify", "infer", "reply", "work", "ended"}]
  BY <1>5 DEF OrchOK, CmdsOK, Context, Critique, Places
<1>7. /\ call \in [Slots -> [op : Ops \cup {"none"}, at : Ats \cup {"none"},
                           by : {"none", "orch", "service", "cache"},
                           id : Projects \cup {None}, conv : 0..Len(convs), copy : Configs]]
      /\ last \in [op : Ops \cup {"none"}, id : Projects \cup {None}, ok : BOOLEAN]
      /\ count \in [calls : 0..MaxCalls, fails : 0..MaxFails, starts : 0..MaxStarts,
                   notes : 0..MaxNotes]
  BY <1>5 DEF CallsOK, CallRow, CountsOK, Counts
<1> QED
  BY <1>3, <1>4, <1>6, <1>7 DEF TypeInv, TypeOK, RowsOK, ServiceOK

LEMMA RangeAppend ==
    ASSUME NEW T, NEW q \in Seq(T), NEW e \in T
    PROVE  /\ Append(q, e) \in Seq(T) /\ Len(Append(q, e)) = Len(q) + 1
           /\ Range(Append(q, e)) = Range(q) \cup {e}
<1>1. /\ Append(q, e) \in Seq(T) /\ Len(Append(q, e)) = Len(q) + 1 /\ Len(q) \in Nat
      /\ \A i \in 1..Len(q) : Append(q, e)[i] = q[i]
      /\ Append(q, e)[Len(q) + 1] = e
  BY AppendProperties
<1>2. DOMAIN q = 1..Len(q) /\ DOMAIN Append(q, e) = 1..(Len(q) + 1)
  BY <1>1
<1>3. \A i \in 1..(Len(q) + 1) : i \in 1..Len(q) \/ i = Len(q) + 1
  BY <1>1
<1>4. \A i \in 1..Len(q) : i \in 1..(Len(q) + 1)
  BY <1>1
<1>5. Len(q) + 1 \in 1..(Len(q) + 1)
  BY <1>1
<1>6. Range(Append(q, e)) \subseteq Range(q) \cup {e}
  BY <1>1, <1>2, <1>3 DEF Range
<1>7. Range(q) \cup {e} \subseteq Range(Append(q, e))
  BY <1>1, <1>2, <1>4, <1>5 DEF Range
<1> QED
  BY <1>1, <1>6, <1>7

LEMMA BlankCall ==
    ASSUME NEW op \in Ops \cup {"none"}, NEW at \in Ats \cup {"none"}, NEW id \in Projects \cup {None},
           NEW n \in Nat
    PROVE  Call(op, at, id) \in CallRow(n)
<1>1. Defaults \in Configs
  BY DEF Defaults, Configs, Settings
<1> QED
  BY <1>1 DEF Call, CallRow

LEMMA NoCallIs == ASSUME NEW n \in Nat PROVE NoCall \in CallRow(n) /\ Formed(NoCall)
<1>1. NoCall \in CallRow(n)
  BY BlankCall DEF NoCall
<1>2. NoCall.at = "none"
  BY DEF NoCall, Call
<1> QED
  BY <1>1, <1>2 DEF Formed

LEMMA InitTypes == Init => TypeInv
<1> SUFFICES ASSUME Init PROVE TypeInv
  OBVIOUS
<1>1. convs = <<>> /\ listed = <<>> /\ saved = <<>> /\ lead = <<>> /\ Len(convs) = 0
  BY DEF Init
<1>2. RowsOK /\ SavedOK
  BY <1>1 DEF Init, RowsOK, SavedOK
<1>3. ServiceOK
  BY <1>1 DEF Init, ServiceOK, Configs, Settings, Defaults
<1>4. OrchOK
  BY <1>1 DEF Init, OrchOK, Context
<1>5. CallsOK
  BY <1>1, NoCallIs DEF Init, CallsOK
<1>6. CmdsOK /\ CountsOK
  BY <1>1, WorkspaceAssumption DEF Init, CmdsOK, CountsOK, Counts, Places, Critique, NoCritique
<1> QED
  BY <1>2, <1>3, <1>4, <1>5, <1>6 DEF TypeInv

(* What is left alone keeps its type while rows of conversations are added. *)
LEMMA Widened ==
    ASSUME TypeInv, convs' \in Seq(Projects \X Titles), Len(convs') >= Len(convs)
    PROVE  /\ Len(convs) \in Nat /\ Len(convs') \in Nat
           /\ saved \in Seq(MessageRow(Len(convs')))
           /\ activeConv \in 0..Len(convs')
           /\ orch \in Context(Len(convs'))
           /\ call \in [Slots -> CallRow(Len(convs'))]
           /\ critique \in Critique(Len(convs'))
           /\ deleted \in 0..Len(convs')
<1>1. Len(convs) \in Nat /\ Len(convs') \in Nat
  BY DEF TypeInv, RowsOK
<1>2. \A i \in 0..Len(convs) : i \in 0..Len(convs')
  BY <1>1
<1>3. MessageRow(Len(convs)) \subseteq MessageRow(Len(convs'))
  BY <1>2 DEF MessageRow
<1>4. saved \in Seq(MessageRow(Len(convs')))
  BY <1>3, SeqMonotonic DEF TypeInv, SavedOK
<1>5. activeConv \in 0..Len(convs') /\ deleted \in 0..Len(convs')
  BY <1>2 DEF TypeInv, ServiceOK, RowsOK
<1>6. orch \in Context(Len(convs'))
  BY <1>2 DEF TypeInv, OrchOK, Context
<1>7. CallRow(Len(convs)) \subseteq CallRow(Len(convs'))
  BY <1>2 DEF CallRow
<1>8. call \in [Slots -> CallRow(Len(convs'))]
  BY <1>7 DEF TypeInv, CallsOK
<1>9. critique \in Critique(Len(convs'))
  BY <1>2 DEF TypeInv, CmdsOK, Critique
<1> QED
  BY <1>1, <1>4, <1>5, <1>6, <1>8, <1>9

LEMMA CallsMove ==
    ASSUME CallsOK, NEW s \in Slots, NEW c \in CallRow(Len(convs)), Formed(c),
           call' = [call EXCEPT ![s] = c], UNCHANGED convs
    PROVE  CallsOK'
BY DEF CallsOK

(* A call goes on with the project and the conversation in its hands. *)
LEMMA GoesTo ==
    ASSUME NEW n \in Nat, NEW c \in CallRow(n), NEW at \in Ats
    PROVE  LET d == [c EXCEPT !.at = at] IN
           d \in CallRow(n) /\ d.at = at /\ d.id = c.id /\ d.op = c.op
BY DEF CallRow

LEMMA EndCall ==
    ASSUME TypeInv, NEW s \in Slots, NEW ok \in BOOLEAN, End(s, ok), UNCHANGED convs
    PROVE  CallsOK' /\ last' \in [op : Ops \cup {"none"}, id : Projects \cup {None}, ok : BOOLEAN]
<1>1. Len(convs) \in Nat
  BY DEF TypeInv, RowsOK
<1>2. CallsOK'
  BY <1>1, NoCallIs, CallsMove DEF End, TypeInv
<1>3. call[s].op \in Ops \cup {"none"} /\ call[s].id \in Projects \cup {None}
  BY DEF TypeInv, CallsOK, CallRow
<1> QED
  BY <1>2, <1>3 DEF End

LEMMA EndTypes ==
    ASSUME TypeInv, NEW s \in Slots, NEW ok \in BOOLEAN, End(s, ok), UNCHANGED <<convs, count>>
    PROVE  CallsOK' /\ CountsOK'
BY EndCall DEF TypeInv, CountsOK

(* What the window lists is there. *)
LEMMA ListedAre ==
    ASSUME RowsOK
    PROVE  /\ Range(listed) \subseteq Projects
           /\ Range(ListProjects) \subseteq Range(listed)
<1>1. \A i \in DOMAIN listed : listed[i] \in Projects
  BY DEF RowsOK
<1>2. Range(listed) \subseteq Projects
  BY <1>1 DEF Range
<1> DEFINE S == {i \in DOMAIN listed : listed[i] \notin archived}
<1>3. S \in SUBSET (1..Len(listed)) /\ listed \in Seq(Projects)
  BY DEF RowsOK
<1>4. \A k \in DOMAIN ListProjects : \E i \in S : ListProjects[k] = listed[i]
  <2> HIDE DEF S
  <2>1. \A k \in DOMAIN RowsAt(listed, S) : \E i \in S : RowsAt(listed, S)[k] = listed[i]
    BY <1>3, RowsAtAre
  <2> QED
    BY <2>1 DEF ListProjects, S
<1>5. Range(ListProjects) \subseteq Range(listed)
  BY <1>4 DEF Range
<1> QED
  BY <1>2, <1>5


-----------------------------------------------------------------------------
(* Each action keeps the types.                                             *)

LEMMA OpenTypes == ASSUME TypeInv, NEW s \in Slots, Open(s) PROVE TypeInv'
<1>1. /\ UNCHANGED <<listed, archived, active, convs, deleted, saved, activeConv, cfg, file>>
      /\ UNCHANGED <<orch, lead, forgotten, critique, cmd, last>>
      /\ count.calls < MaxCalls /\ count' = [count EXCEPT !.calls = @ + 1]
  BY DEF Open, dbVars, serviceVars, orchVars, cmdVars
<1>2. Len(convs) \in Nat
  BY DEF TypeInv, RowsOK
<1>3. PICK c : c \in CallRow(Len(convs)) /\ Formed(c) /\ call' = [call EXCEPT ![s] = c]
  <2>1. ASSUME NEW op \in Ops, NEW at \in Ats, NEW id \in Projects \cup {None},
               call' = [call EXCEPT ![s] = Call(op, at, id)],
               at \in {"insert", "activate", "find", "make", "set", "seed", "open"} => id \in Projects,
               at # "write"
        PROVE  \E c : c \in CallRow(Len(convs)) /\ Formed(c) /\ call' = [call EXCEPT ![s] = c]
    <3>1. Call(op, at, id) \in CallRow(Len(convs))
      BY <1>2, BlankCall
    <3>2. Formed(Call(op, at, id))
      BY <2>1 DEF Call, Formed
    <3> QED
      BY <2>1, <3>1, <3>2
  <2>2. Range(ListProjects) \subseteq Projects
    BY ListedAre DEF TypeInv
  <2>3. CASE NewProject(s)
    BY <2>1, <2>3 DEF NewProject, Ops, Ats
  <2>4. CASE \E p \in Range(ListProjects) :
               \/ call' = [call EXCEPT ![s] = Call("switch", "activate", p)]
               \/ call' = [call EXCEPT ![s] = Call("archive", "archive", p)]
    BY <2>1, <2>2, <2>4 DEF Ops, Ats
  <2>5. CASE \/ call' = [call EXCEPT ![s] = Call("dm", "seek", None)]
             \/ call' = [call EXCEPT ![s] = Call("first_run", "lookup", None)]
             \/ call' = [call EXCEPT ![s] = Call("save", "lock", None)]
             \/ call' = [call EXCEPT ![s] = Call("reset", "wipe_messages", None)]
             \/ call' = [call EXCEPT ![s] = Call("broadcast", "empty", None)]
             \/ call' = [call EXCEPT ![s] = Call("conversation", "read", None)]
    <3>1. ASSUME NEW op \in Ops, NEW at \in {"seek", "lookup", "lock", "wipe_messages", "empty", "read"},
                 call' = [call EXCEPT ![s] = Call(op, at, None)]
          PROVE  \E c : c \in CallRow(Len(convs)) /\ Formed(c) /\ call' = [call EXCEPT ![s] = c]
      <4>1. at \in Ats /\ at \notin {"insert", "activate", "find", "make", "set", "seed", "open", "write"}
        BY DEF Ats
      <4> QED
        BY <2>1, <3>1, <4>1
    <3> QED
      BY <2>5, <3>1 DEF Ops
  <2> QED
    BY <2>3, <2>4, <2>5 DEF Open
<1>4. CallsOK'
  BY <1>1, <1>3, CallsMove DEF TypeInv
<1>5. CountsOK'
  BY <1>1, WorkspaceAssumption DEF TypeInv, CountsOK, Counts
<1> QED
  BY <1>1, <1>4, <1>5 DEF TypeInv, RowsOK, SavedOK, ServiceOK, OrchOK, CmdsOK

(* What a call in hand is: its row and its project. *)
LEMMA InHand ==
    ASSUME TypeInv, NEW s \in Slots
    PROVE  /\ call[s] \in CallRow(Len(convs)) /\ Formed(call[s])
           /\ call[s].op \in Ops \cup {"none"} /\ call[s].id \in Projects \cup {None}
           /\ call[s].conv \in 0..Len(convs) /\ call[s].copy \in Configs
           /\ Len(convs) \in Nat /\ Len(listed) \in Nat
BY DEF TypeInv, RowsOK, CallsOK, CallRow

(* A call that only goes on. *)
LEMMA GotoTypes ==
    ASSUME TypeInv, NEW s \in Slots, NEW at \in Ats, Goto(s, at), UNCHANGED convs,
           at \in {"insert", "activate", "find", "make", "set", "seed", "open"} => call[s].id \in Projects,
           at # "write"
    PROVE  CallsOK'
<1> DEFINE c == [call[s] EXCEPT !.at = at]
<1>1. c \in CallRow(Len(convs)) /\ c.at = at /\ c.id = call[s].id
  BY InHand, GoesTo
<1>2. call' = [call EXCEPT ![s] = c]
  BY DEF Goto
<1>3. Formed(c)
  BY <1>1 DEF Formed
<1> QED
  BY <1>1, <1>2, <1>3, CallsMove DEF TypeInv

LEMMA EnterTypes ==
    ASSUME TypeInv, NEW s \in Slots, NEW by \in {"none", "orch", "service", "cache"}, Enter(s, "find", by),
           UNCHANGED convs, call[s].id \in Projects
    PROVE  CallsOK'
<1> DEFINE c == [call[s] EXCEPT !.at = "find", !.by = by]
<1>1. c \in CallRow(Len(convs)) /\ c.at = "find" /\ c.id = call[s].id
  BY InHand DEF CallRow, Ats
<1>2. call' = [call EXCEPT ![s] = c]
  BY DEF Enter
<1>3. Formed(c)
  BY <1>1 DEF Formed
<1> QED
  BY <1>1, <1>2, <1>3, CallsMove DEF TypeInv

LEMMA CreateProjectTypes == ASSUME TypeInv, NEW s \in Slots, CreateProject(s) PROVE TypeInv'
<1>1. call[s].at = "insert"
      /\ UNCHANGED <<archived, convs, deleted, saved, activeConv, cfg, file>>
      /\ UNCHANGED <<orch, lead, forgotten, critique, cmd, count>>
  BY DEF CreateProject, At, serviceVars, orchVars, cmdVars
<1>2. call[s].id \in Projects
  BY <1>1, InHand DEF Formed
<1>3. CASE /\ listed' = Append(listed, call[s].id) /\ active' = {call[s].id}
           /\ Goto(s, "activate") /\ UNCHANGED last
  <2>1. CallsOK'
    BY <1>1, <1>2, <1>3, GotoTypes DEF Ats
  <2>2. listed' \in Seq(Projects) /\ Range(listed) \subseteq Range(listed') /\ call[s].id \in Range(listed')
    BY <1>2, <1>3, RangeAppend DEF TypeInv, RowsOK
  <2>3. RowsOK'
    BY <1>1, <1>3, <2>2 DEF TypeInv, RowsOK
  <2> QED
    BY <1>1, <1>3, <2>1, <2>3 DEF TypeInv, SavedOK, ServiceOK, OrchOK, CmdsOK, CountsOK
<1>4. CASE End(s, FALSE) /\ UNCHANGED <<listed, active>>
  <2>1. CallsOK' /\ CountsOK'
    BY <1>1, <1>4, EndTypes
  <2> QED
    BY <1>1, <1>4, <2>1 DEF TypeInv, RowsOK, SavedOK, ServiceOK, OrchOK, CmdsOK
<1> QED
  BY <1>3, <1>4 DEF CreateProject

LEMMA ActivateTypes == ASSUME TypeInv, NEW s \in Slots, Activate(s) PROVE TypeInv'
<1> DEFINE p == call[s].id
<1>1. call[s].at = "activate"
      /\ UNCHANGED <<listed, archived, convs, deleted, saved, activeConv, cfg, file,
                     lead, forgotten, critique, cmd, count>>
  BY DEF Activate, At, serviceVars, cmdVars
<1>2. p \in Projects
  BY <1>1, InHand DEF Formed
<1>3. CASE /\ p \in Range(listed) /\ active' = {p}
           /\ orch' = [orch EXCEPT !.project = p, !.bus = p]
           /\ Enter(s, "find", "orch") /\ UNCHANGED last
  <2>1. CallsOK'
    BY <1>1, <1>2, <1>3, EnterTypes
  <2>2. OrchOK'
    BY <1>1, <1>2, <1>3 DEF TypeInv, OrchOK, Context
  <2> QED
    BY <1>1, <1>3, <2>1, <2>2 DEF TypeInv, RowsOK, SavedOK, ServiceOK, CmdsOK, CountsOK
<1>4. CASE End(s, FALSE) /\ UNCHANGED <<active, orch>>
  <2>1. CallsOK' /\ CountsOK'
    BY <1>1, <1>4, EndTypes
  <2> QED
    BY <1>1, <1>4, <2>1 DEF TypeInv, RowsOK, SavedOK, ServiceOK, OrchOK, CmdsOK
<1> QED
  BY <1>3, <1>4 DEF Activate, SetActiveProject

(* The conversations of a project are rows that are there. *)
LEMMA RowsAre ==
    ASSUME RowsOK, NEW p, NEW title
    PROVE  Rows(p, title) \subseteq 1..Len(convs)
<1>1. Len(convs) \in Nat /\ deleted \in Nat
  BY DEF RowsOK
<1> QED
  BY <1>1 DEF Rows

LEMMA FindTypes == ASSUME TypeInv, NEW s \in Slots, Find(s) PROVE TypeInv'
<1>1. call[s].at = "find"
      /\ UNCHANGED <<listed, archived, active, convs, deleted, saved, activeConv, cfg, file>>
      /\ UNCHANGED <<orch, lead, forgotten, critique, cmd, last, count>>
  BY DEF Find, dbVars, serviceVars, orchVars, cmdVars
<1>2. call[s].id \in Projects
  BY <1>1, InHand DEF Formed
<1>3. ASSUME NEW i \in Rows(call[s].id, "war-room"),
             call' = [call EXCEPT ![s] = [@ EXCEPT !.at = "set", !.conv = i]]
      PROVE  CallsOK'
  <2> DEFINE c == [call[s] EXCEPT !.at = "set", !.conv = i]
  <2>0. i \in 0..Len(convs)
    BY RowsAre, InHand DEF TypeInv
  <2>1. c \in CallRow(Len(convs)) /\ c.at = "set" /\ c.id = call[s].id
    BY <2>0, InHand DEF CallRow, Ats
  <2>2. call' = [call EXCEPT ![s] = c]
    BY <1>3
  <2>3. Formed(c)
    BY <1>2, <2>1 DEF Formed
  <2> QED
    BY <1>1, <2>1, <2>2, <2>3, CallsMove DEF TypeInv
<1>4. ASSUME Goto(s, "make") PROVE CallsOK'
  BY <1>1, <1>2, <1>4, GotoTypes DEF Ats
<1>5. CallsOK'
  BY <1>3, <1>4 DEF Find, GetConversationByTitle
<1> QED
  BY <1>1, <1>5 DEF TypeInv, RowsOK, SavedOK, ServiceOK, OrchOK, CmdsOK, CountsOK


(* A new conversation, in the hands of the call that made it. *)
LEMMA MakeTypes == ASSUME TypeInv, NEW s \in Slots, Make(s) PROVE TypeInv'
<1> DEFINE c == [call[s] EXCEPT !.at = "set", !.conv = Len(convs) + 1]
<1>1. /\ call[s].at = "make" /\ convs' = Append(convs, <<call[s].id, "war-room">>)
      /\ call' = [call EXCEPT ![s] = c]
      /\ UNCHANGED <<listed, archived, active, deleted, saved, activeConv, cfg, file>>
      /\ UNCHANGED <<orch, lead, forgotten, critique, cmd, last, count>>
  BY DEF Make, serviceVars, orchVars, cmdVars
<1>2. call[s].id \in Projects
  BY <1>1, InHand DEF Formed
<1>3. convs' \in Seq(Projects \X Titles) /\ Len(convs') = Len(convs) + 1 /\ Len(convs) \in Nat
  <2>1. <<call[s].id, "war-room">> \in Projects \X Titles
    BY <1>2 DEF Titles
  <2> QED
    BY <1>1, <2>1, RangeAppend, InHand DEF TypeInv, RowsOK
<1>4. /\ saved \in Seq(MessageRow(Len(convs')))
      /\ activeConv \in 0..Len(convs')
      /\ orch \in Context(Len(convs'))
      /\ call \in [Slots -> CallRow(Len(convs'))]
      /\ critique \in Critique(Len(convs'))
      /\ deleted \in 0..Len(convs')
  BY <1>3, Widened
<1>5. Len(convs) + 1 \in 0..Len(convs')
  BY <1>3
<1>6. c \in CallRow(Len(convs')) /\ c.at = "set" /\ c.id = call[s].id
  BY <1>4, <1>5 DEF CallRow, Ats
<1>7. Formed(c)
  BY <1>2, <1>6 DEF Formed
<1>8. CallsOK'
  <2> HIDE DEF c
  <2> QED
    BY <1>1, <1>4, <1>6, <1>7 DEF TypeInv, CallsOK
<1> QED
  BY <1>1, <1>3, <1>4, <1>8 DEF TypeInv, RowsOK, SavedOK, ServiceOK, OrchOK, CmdsOK, CountsOK

(* The stored messages of a conversation are what was said in it. *)
LEMMA HistoryIs ==
    ASSUME SavedOK, Len(convs) \in Nat, NEW conv, NEW limit
    PROVE  LET h == ListConversationHistory(conv, limit)
               S == Latest(Said(conv), limit)
           IN
           /\ S \subseteq Said(conv) /\ Said(conv) \subseteq 1..Len(saved)
           /\ h \in Seq(MessageRow(Len(convs)))
           /\ \A k \in DOMAIN h : \E i \in S : h[k] = saved[i]
           /\ \A i \in S : \E k \in DOMAIN h : h[k] = saved[i]
<1> DEFINE S == Latest(Said(conv), limit)
           h == ListConversationHistory(conv, limit)
           R == MessageRow(Len(convs))
<1>1. saved \in Seq(R)
  BY DEF SavedOK
<1>2. S \subseteq Said(conv) /\ Said(conv) \subseteq 1..Len(saved)
  BY <1>1 DEF Latest, Said
<1>3. S \in SUBSET (1..Len(saved))
  BY <1>2
<1>4. h = RowsAt(saved, S)
  BY DEF ListConversationHistory
<1>5. /\ h \in Seq(R)
      /\ \A i \in S : \E k \in DOMAIN h : h[k] = saved[i]
      /\ \A k \in DOMAIN h : \E i \in S : h[k] = saved[i]
  <2> HIDE DEF S, R, h
  <2> QED
    BY <1>1, <1>3, <1>4, RowsAtAre
<1> QED
  <2> HIDE DEF S, R, h
  <2>1. /\ S \subseteq Said(conv) /\ Said(conv) \subseteq 1..Len(saved)
        /\ h \in Seq(R)
        /\ \A k \in DOMAIN h : \E i \in S : h[k] = saved[i]
        /\ \A i \in S : \E k \in DOMAIN h : h[k] = saved[i]
    BY <1>2, <1>5
  <2> QED
    BY <2>1 DEF S, R, h

(* What may be recalled is an entry. *)
LEMMA EntryTypes ==
    ASSUME NEW n \in Nat, NEW m \in MessageRow(n), m.kind \in Recalled
    PROVE  Entry(m) \in Entries
BY DEF MessageRow, Entry, Role, Entries

LEMMA StoredTypes == ASSUME TypeInv PROVE Stored \subseteq Entries
<1>1. saved \in Seq(MessageRow(Len(convs))) /\ Len(convs) \in Nat
  BY DEF TypeInv, SavedOK, RowsOK
<1>2. \A i \in DOMAIN saved : saved[i] \in MessageRow(Len(convs))
  BY <1>1
<1> QED
  BY <1>1, <1>2, EntryTypes DEF Stored

(* The Lead is seeded with the entries of the messages in the window. *)
LEMMA SeedIs ==
    ASSUME SavedOK, Len(convs) \in Nat, NEW conv
    PROVE  /\ Seeds(conv) \in Seq(Entries)
           /\ Range(Seeds(conv)) = {Entry(saved[i]) : i \in Latest(Said(conv), HistoryLimit)}
<1> DEFINE h == ListConversationHistory(conv, HistoryLimit)
           S == Latest(Said(conv), HistoryLimit)
           m == Seeds(conv)
<1>1. /\ S \subseteq Said(conv)
      /\ h \in Seq(MessageRow(Len(convs)))
      /\ \A k \in DOMAIN h : \E i \in S : h[k] = saved[i]
      /\ \A i \in S : \E k \in DOMAIN h : h[k] = saved[i]
  BY HistoryIs
<1>2. DOMAIN m = DOMAIN h /\ m = [k \in DOMAIN h |-> Entry(h[k])]
  BY DEF Seeds, messagesToChatHistory
<1>3. \A i \in S : saved[i].kind \in Recalled
  BY <1>1 DEF Said
<1> HIDE DEF h, S, m
<1>4. \A k \in DOMAIN h : h[k] \in MessageRow(Len(convs)) /\ h[k].kind \in Recalled
  BY <1>1, <1>3
<1>5. \A k \in DOMAIN h : Entry(h[k]) \in Entries
  BY <1>4, EntryTypes
<1>6. DOMAIN h = 1..Len(h) /\ Len(h) \in Nat
  BY <1>1
<1>7. m \in Seq(Entries)
  BY <1>2, <1>5, <1>6
<1>8. Range(m) = {Entry(h[k]) : k \in DOMAIN h}
  BY <1>2 DEF Range
<1>9. Range(m) = {Entry(saved[i]) : i \in S}
  BY <1>1, <1>8
<1> QED
  BY <1>7, <1>9 DEF m, S

LEMMA SetOrchestratorTypes == ASSUME TypeInv, NEW s \in Slots, SetOrchestrator(s) PROVE TypeInv'
<1>1. /\ call[s].at = "set" /\ orch' = [orch EXCEPT !.conv = call[s].conv]
      /\ Goto(s, "seed")
      /\ UNCHANGED <<listed, archived, active, convs, deleted, saved, activeConv, cfg, file>>
      /\ UNCHANGED <<lead, forgotten, critique, cmd, last, count>>
  BY DEF SetOrchestrator, dbVars, serviceVars, cmdVars
<1>2. call[s].id \in Projects
  BY <1>1, InHand DEF Formed
<1>3. CallsOK'
  BY <1>1, <1>2, GotoTypes DEF Ats
<1>4. orch' \in Context(Len(convs))
  BY <1>1, InHand DEF TypeInv, OrchOK, Context
<1> QED
  BY <1>1, <1>3, <1>4 DEF TypeInv, RowsOK, SavedOK, ServiceOK, OrchOK, CmdsOK, CountsOK

LEMMA SeedLeadTypes == ASSUME TypeInv, NEW s \in Slots, SeedLead(s) PROVE TypeInv'
<1> DEFINE seeds == Seeds(call[s].conv)
<1>1. /\ call[s].at = "seed" /\ Enter(s, "find", "service")
      /\ UNCHANGED <<listed, archived, active, convs, deleted, saved, activeConv, cfg, file>>
      /\ UNCHANGED <<orch, critique, cmd, last>>
  BY DEF SeedLead, dbVars, serviceVars, cmdVars
<1>2. call[s].id \in Projects
  BY <1>1, InHand DEF Formed
<1>3. CallsOK'
  BY <1>1, <1>2, EnterTypes
<1>4. seeds \in Seq(Entries) /\ Range(seeds) \subseteq Entries
  <2>1. seeds \in Seq(Entries)
    BY SeedIs, InHand DEF TypeInv
  <2> HIDE DEF seeds
  <2> QED
    BY <2>1 DEF Range
<1>5. lead \in Seq(Entries) /\ forgotten \subseteq Entries
  BY DEF TypeInv, OrchOK
<1>6. \/ lead' = seeds \o lead /\ forgotten' = forgotten \ Range(seeds) /\ UNCHANGED count
      \/ /\ count.fails < MaxFails /\ count' = [count EXCEPT !.fails = @ + 1]
         /\ forgotten' = forgotten \cup Range(seeds) /\ UNCHANGED lead
  BY DEF SeedLead, SeedHistory
<1> HIDE DEF seeds
<1>7. lead' \in Seq(Entries) /\ forgotten' \subseteq Entries
  <2>1. seeds \o lead \in Seq(Entries)
    BY <1>4, <1>5, ConcatProperties
  <2> QED
    BY <1>4, <1>5, <1>6, <2>1
<1>8. CountsOK'
  BY <1>1, <1>6, WorkspaceAssumption DEF TypeInv, CountsOK, Counts
<1> QED
  BY <1>1, <1>3, <1>7, <1>8 DEF TypeInv, RowsOK, SavedOK, ServiceOK, OrchOK, CmdsOK

(* A copy of the configuration is taken to the file. *)
LEMMA CopyTypes ==
    ASSUME TypeInv, NEW s \in Slots, NEW new \in Configs, call[s].op = "first_run" => call[s].id \in Projects,
           call' = [call EXCEPT ![s] = [@ EXCEPT !.at = "write", !.copy = new]], UNCHANGED convs
    PROVE  CallsOK'
<1> DEFINE c == [call[s] EXCEPT !.at = "write", !.copy = new]
<1>1. c \in CallRow(Len(convs)) /\ c.at = "write" /\ c.id = call[s].id /\ c.op = call[s].op
  BY InHand DEF CallRow, Ats
<1>2. Formed(c)
  BY <1>1 DEF Formed
<1> QED
  BY <1>1, <1>2, CallsMove DEF TypeInv

LEMMA SetServiceTypes == ASSUME TypeInv, NEW s \in Slots, SetService(s) PROVE TypeInv'
<1> DEFINE new == [cfg EXCEPT !.project = call[s].id]
<1>1. /\ call[s].at = "set" /\ activeConv' = call[s].conv /\ cfg' = new
      /\ call' = [call EXCEPT ![s] = [@ EXCEPT !.at = "write", !.copy = new]]
      /\ UNCHANGED <<listed, archived, active, convs, deleted, saved, file>>
      /\ UNCHANGED <<orch, lead, forgotten, critique, cmd, last, count>>
  BY DEF SetService, dbVars, orchVars, cmdVars
<1>2. call[s].id \in Projects
  BY <1>1, InHand DEF Formed
<1>3. new \in Configs
  BY <1>2 DEF TypeInv, ServiceOK, Configs
<1>4. CallsOK'
  BY <1>1, <1>2, <1>3, CopyTypes
<1>5. ServiceOK'
  BY <1>1, <1>3, InHand DEF TypeInv, ServiceOK
<1> QED
  BY <1>1, <1>4, <1>5 DEF TypeInv, RowsOK, SavedOK, OrchOK, CmdsOK, CountsOK

LEMMA WriteConfigTypes == ASSUME TypeInv, NEW s \in Slots, WriteConfig(s) PROVE TypeInv'
<1>1. /\ call[s].at = "write"
      /\ UNCHANGED <<listed, archived, active, convs, deleted, saved, activeConv, cfg>>
      /\ UNCHANGED <<orch, lead, forgotten, critique, cmd>>
  BY DEF WriteConfig, dbVars, orchVars, cmdVars
<1>2. file' \in Configs
  BY InHand DEF WriteConfig, WriteFile, TypeInv, ServiceOK
<1>3. count' = count \/ (count.fails < MaxFails /\ count' = [count EXCEPT !.fails = @ + 1])
  BY DEF WriteConfig
<1>4. CountsOK' /\ CallsOK'
  <2>0. count' \in Counts
    BY <1>3, WorkspaceAssumption DEF TypeInv, CountsOK, Counts
  <2>1. CASE call[s].op = "first_run"
    <3>1. Goto(s, "open") /\ UNCHANGED last
      BY <2>1 DEF WriteConfig
    <3>2. call[s].id \in Projects
      BY <1>1, <2>1, InHand DEF Formed
    <3>3. CallsOK'
      BY <1>1, <3>1, <3>2, GotoTypes DEF Ats
    <3> QED
      BY <2>0, <3>1, <3>3 DEF TypeInv, CountsOK
  <2>2. CASE call[s].op # "first_run"
    <3>1. End(s, TRUE)
      BY <2>2 DEF WriteConfig
    <3>2. CallsOK' /\ last' \in [op : Ops \cup {"none"}, id : Projects \cup {None}, ok : BOOLEAN]
      BY <1>1, <3>1, EndCall
    <3> QED
      BY <2>0, <3>2 DEF CountsOK
  <2> QED
    BY <2>1, <2>2
<1> QED
  BY <1>1, <1>2, <1>4 DEF TypeInv, RowsOK, SavedOK, ServiceOK, OrchOK, CmdsOK


LEMMA GetActiveProjectTypes == ASSUME TypeInv, NEW s \in Slots, GetActiveProject(s) PROVE TypeInv'
<1>1. /\ UNCHANGED <<listed, archived, active, convs, deleted, saved, activeConv, cfg, file>>
      /\ UNCHANGED <<orch, lead, forgotten, critique, cmd, count>>
  BY DEF GetActiveProject, dbVars, serviceVars, orchVars, cmdVars
<1>2. CASE End(s, TRUE)
  <2>1. CallsOK' /\ CountsOK'
    BY <1>1, <1>2, EndTypes
  <2> QED
    BY <1>1, <2>1 DEF TypeInv, RowsOK, SavedOK, ServiceOK, OrchOK, CmdsOK
<1>3. ASSUME NEW p \in active, UNCHANGED last,
             call' = [call EXCEPT ![s] = [@ EXCEPT !.at = "find", !.by = "cache", !.id = p]]
      PROVE  TypeInv'
  <2> DEFINE c == [call[s] EXCEPT !.at = "find", !.by = "cache", !.id = p]
  <2>1. p \in Projects
    BY ListedAre DEF TypeInv, RowsOK
  <2>2. c \in CallRow(Len(convs)) /\ c.at = "find" /\ c.id = p
    BY <2>1, InHand DEF CallRow, Ats
  <2>3. Formed(c)
    BY <2>1, <2>2 DEF Formed
  <2>4. call' = [call EXCEPT ![s] = c]
    BY <1>3
  <2>5. CallsOK'
    BY <1>1, <2>2, <2>3, <2>4, CallsMove DEF TypeInv
  <2> QED
    BY <1>1, <1>3, <2>5 DEF TypeInv, RowsOK, SavedOK, ServiceOK, OrchOK, CmdsOK, CountsOK
<1> QED
  BY <1>2, <1>3 DEF GetActiveProject

LEMMA SetCacheTypes == ASSUME TypeInv, NEW s \in Slots, SetCache(s) PROVE TypeInv'
<1>1. /\ activeConv' = call[s].conv /\ End(s, TRUE)
      /\ UNCHANGED <<listed, archived, active, convs, deleted, saved, cfg, file>>
      /\ UNCHANGED <<orch, lead, forgotten, critique, cmd, count>>
  BY DEF SetCache, dbVars, orchVars, cmdVars
<1>2. CallsOK' /\ CountsOK'
  BY <1>1, EndTypes
<1>3. ServiceOK'
  BY <1>1, InHand DEF TypeInv, ServiceOK
<1> QED
  BY <1>1, <1>2, <1>3 DEF TypeInv, RowsOK, SavedOK, OrchOK, CmdsOK

LEMMA ArchiveProjectTypes == ASSUME TypeInv, NEW s \in Slots, ArchiveProject(s) PROVE TypeInv'
<1>1. /\ Archive(call[s].id) /\ End(s, TRUE)
      /\ UNCHANGED <<listed, convs, deleted, saved, activeConv, cfg, file>>
      /\ UNCHANGED <<orch, lead, forgotten, critique, cmd, count>>
  BY DEF ArchiveProject, serviceVars, orchVars, cmdVars
<1>2. CallsOK' /\ CountsOK'
  BY <1>1, EndTypes
<1>3. RowsOK'
  BY <1>1 DEF Archive, TypeInv, RowsOK
<1> QED
  BY <1>1, <1>2, <1>3 DEF TypeInv, SavedOK, ServiceOK, OrchOK, CmdsOK

LEMMA SeekDMTypes == ASSUME TypeInv, NEW s \in Slots, SeekDM(s) PROVE TypeInv'
<1>1. /\ UNCHANGED <<listed, archived, active, convs, deleted, saved, activeConv, cfg, file>>
      /\ UNCHANGED <<orch, lead, forgotten, critique, cmd, count>>
  BY DEF SeekDM, dbVars, serviceVars, orchVars, cmdVars
<1> DEFINE p == CHOOSE q \in active : TRUE
           c == [call[s] EXCEPT !.at = "open", !.id = p]
<1>2. ASSUME NEW ok \in BOOLEAN, End(s, ok) PROVE TypeInv'
  <2>1. CallsOK' /\ CountsOK'
    BY <1>1, <1>2, EndTypes
  <2> QED
    BY <1>1, <2>1 DEF TypeInv, RowsOK, SavedOK, ServiceOK, OrchOK, CmdsOK
<1>3. ASSUME active # {}, call' = [call EXCEPT ![s] = c], UNCHANGED last PROVE TypeInv'
  <2>1. p \in active
    BY <1>3
  <2> HIDE DEF p
  <2>2. p \in Projects
    BY <2>1, ListedAre DEF TypeInv, RowsOK
  <2>3. c \in CallRow(Len(convs)) /\ c.at = "open" /\ c.id = p
    BY <2>2, InHand DEF CallRow, Ats
  <2>4. Formed(c)
    BY <2>2, <2>3, InHand DEF Formed
  <2>5. CallsOK'
    BY <1>1, <1>3, <2>3, <2>4, CallsMove DEF TypeInv
  <2> QED
    BY <1>1, <1>3, <2>5 DEF TypeInv, RowsOK, SavedOK, ServiceOK, OrchOK, CmdsOK, CountsOK
<1> QED
  BY <1>2, <1>3 DEF SeekDM

LEMMA OpenDMTypes == ASSUME TypeInv, NEW s \in Slots, OpenDM(s) PROVE TypeInv'
<1> DEFINE c == [call[s] EXCEPT !.at = "greet", !.conv = Len(convs) + 1]
<1>1. /\ call[s].at = "open" /\ convs' = Append(convs, <<call[s].id, "dm">>)
      /\ UNCHANGED <<listed, archived, active, deleted, saved, activeConv, cfg, file>>
      /\ UNCHANGED <<orch, lead, forgotten, critique, cmd, count>>
  BY DEF OpenDM, serviceVars, orchVars, cmdVars
<1>2. call[s].id \in Projects
  BY <1>1, InHand DEF Formed
<1>3. convs' \in Seq(Projects \X Titles) /\ Len(convs') = Len(convs) + 1 /\ Len(convs) \in Nat
  <2>1. <<call[s].id, "dm">> \in Projects \X Titles
    BY <1>2 DEF Titles
  <2> QED
    BY <1>1, <2>1, RangeAppend, InHand DEF TypeInv, RowsOK
<1>4. /\ Len(convs') \in Nat
      /\ saved \in Seq(MessageRow(Len(convs')))
      /\ activeConv \in 0..Len(convs')
      /\ orch \in Context(Len(convs'))
      /\ call \in [Slots -> CallRow(Len(convs'))]
      /\ critique \in Critique(Len(convs'))
      /\ deleted \in 0..Len(convs')
  BY <1>3, Widened
<1>5. PICK d : d \in CallRow(Len(convs')) /\ Formed(d) /\ call' = [call EXCEPT ![s] = d]
  <2>1. CASE call[s].op = "first_run"
    <3>1. Len(convs) + 1 \in 0..Len(convs')
      BY <1>3
    <3>2. c \in CallRow(Len(convs')) /\ c.at = "greet"
      BY <1>4, <3>1 DEF CallRow, Ats
    <3>3. Formed(c)
      BY <3>2 DEF Formed
    <3>4. call' = [call EXCEPT ![s] = c]
      BY <2>1 DEF OpenDM
    <3> QED
      BY <3>2, <3>3, <3>4
  <2>2. CASE call[s].op # "first_run"
    BY <1>4, <2>2, NoCallIs DEF OpenDM, End
  <2> QED
    BY <2>1, <2>2
<1>6. CallsOK'
  BY <1>4, <1>5 DEF TypeInv, CallsOK
<1>7. CountsOK'
  <2>1. UNCHANGED last \/ last' = [op |-> call[s].op, id |-> call[s].id, ok |-> TRUE]
    BY DEF OpenDM, End
  <2>2. last' \in [op : Ops \cup {"none"}, id : Projects \cup {None}, ok : BOOLEAN]
    <3> DEFINE L == [op : Ops \cup {"none"}, id : Projects \cup {None}, ok : BOOLEAN]
    <3>1. last \in L
      BY DEF TypeInv, CountsOK
    <3>2. [op |-> call[s].op, id |-> call[s].id, ok |-> TRUE] \in L
      BY InHand
    <3> HIDE DEF L
    <3>3. last' \in L
      BY <2>1, <3>1, <3>2
    <3> QED
      BY <3>3 DEF L
  <2> QED
    BY <1>1, <2>2 DEF TypeInv, CountsOK
<1> QED
  BY <1>1, <1>3, <1>4, <1>6, <1>7 DEF TypeInv, RowsOK, SavedOK, ServiceOK, OrchOK, CmdsOK

LEMMA InitFirstRunTypes == ASSUME TypeInv, NEW s \in Slots, InitFirstRun(s) PROVE TypeInv'
<1>1. /\ UNCHANGED <<listed, archived, active, convs, deleted, saved, activeConv, cfg, file>>
      /\ UNCHANGED <<orch, lead, forgotten, critique, cmd, count>>
  BY DEF InitFirstRun, dbVars, serviceVars, orchVars, cmdVars
<1>2. CASE End(s, TRUE)
  <2>1. CallsOK' /\ CountsOK'
    BY <1>1, <1>2, EndTypes
  <2> QED
    BY <1>1, <2>1 DEF TypeInv, RowsOK, SavedOK, ServiceOK, OrchOK, CmdsOK
<1>3. ASSUME NEW p \in Projects, UNCHANGED last,
             call' = [call EXCEPT ![s] = [@ EXCEPT !.at = "insert", !.id = p]]
      PROVE  TypeInv'
  <2> DEFINE c == [call[s] EXCEPT !.at = "insert", !.id = p]
  <2>1. c \in CallRow(Len(convs)) /\ c.at = "insert" /\ c.id = p
    BY InHand DEF CallRow, Ats
  <2>2. Formed(c)
    BY <2>1 DEF Formed
  <2>3. call' = [call EXCEPT ![s] = c]
    BY <1>3
  <2>4. CallsOK'
    BY <1>1, <2>1, <2>2, <2>3, CallsMove DEF TypeInv
  <2> QED
    BY <1>1, <1>3, <2>4 DEF TypeInv, RowsOK, SavedOK, ServiceOK, OrchOK, CmdsOK, CountsOK
<1> QED
  BY <1>2, <1>3 DEF InitFirstRun

(* A message that is stored. *)
LEMMA StoreTypes ==
    ASSUME TypeInv, NEW m \in MessageRow(Len(convs)), saved' = Append(saved, m), UNCHANGED convs
    PROVE  SavedOK'
BY RangeAppend DEF TypeInv, SavedOK

LEMMA GreetTypes == ASSUME TypeInv, NEW s \in Slots, Greet(s) PROVE TypeInv'
<1> DEFINE m == [project |-> call[s].id, conv |-> call[s].conv, kind |-> "agent_message", cmd |-> None]
<1>1. /\ saved' = Append(saved, m) /\ End(s, TRUE)
      /\ UNCHANGED <<listed, archived, active, convs, deleted, activeConv, cfg, file>>
      /\ UNCHANGED <<orch, lead, forgotten, critique, cmd, count>>
  BY DEF Greet, serviceVars, orchVars, cmdVars
<1>2. CallsOK' /\ CountsOK'
  BY <1>1, EndTypes
<1>3. m \in MessageRow(Len(convs))
  BY InHand DEF MessageRow, Kinds
<1>4. SavedOK'
  BY <1>1, <1>3, StoreTypes
<1> QED
  BY <1>1, <1>2, <1>4 DEF TypeInv, RowsOK, ServiceOK, OrchOK, CmdsOK

LEMMA SaveConfigTypes == ASSUME TypeInv, NEW s \in Slots, SaveConfig(s) PROVE TypeInv'
<1> DEFINE new == [cfg EXCEPT !.settings = "own"]
<1>1. /\ call[s].op = "save" /\ cfg' = new
      /\ call' = [call EXCEPT ![s] = [@ EXCEPT !.at = "write", !.copy = new]]
      /\ UNCHANGED <<listed, archived, active, convs, deleted, saved, activeConv, file>>
      /\ UNCHANGED <<orch, lead, forgotten, critique, cmd, last, count>>
  BY DEF SaveConfig, At, dbVars, orchVars, cmdVars
<1>2. new \in Configs
  BY DEF TypeInv, ServiceOK, Configs, Settings
<1>3. CallsOK'
  BY <1>1, <1>2, CopyTypes
<1> QED
  BY <1>1, <1>2, <1>3 DEF TypeInv, RowsOK, SavedOK, ServiceOK, OrchOK, CmdsOK, CountsOK

LEMMA WipeTypes == ASSUME TypeInv, NEW s \in Slots, Wipe(s) PROVE TypeInv'
<1>1. UNCHANGED <<convs, activeConv, cfg, file, orch, lead, forgotten, critique, cmd, last, count>>
  BY DEF Wipe, serviceVars, orchVars, cmdVars
<1>2. CallsOK'
  <2>1. Goto(s, "wipe_conversations") \/ Goto(s, "wipe_projects") \/ Goto(s, "defaults")
    BY DEF Wipe
  <2> QED
    BY <1>1, <2>1, GotoTypes DEF Ats
<1>3. \/ saved' = <<>> /\ UNCHANGED <<deleted, listed, archived, active>>
      \/ deleted' = Len(convs) /\ UNCHANGED <<saved, listed, archived, active>>
      \/ listed' = <<>> /\ archived' = {} /\ active' = {} /\ UNCHANGED <<saved, deleted>>
  BY DEF Wipe
<1>4. SavedOK'
  <2>1. <<>> \in Seq(MessageRow(Len(convs)))
    OBVIOUS
  <2>2. saved \in Seq(MessageRow(Len(convs)))
    BY DEF TypeInv, SavedOK
  <2>3. saved' \in Seq(MessageRow(Len(convs)))
    BY <1>3, <2>1, <2>2
  <2> QED
    BY <1>1, <2>3 DEF SavedOK
<1>5. RowsOK'
  <2>1. /\ listed \in Seq(Projects) /\ archived \subseteq Range(listed) /\ active \subseteq Range(listed)
        /\ convs \in Seq(Projects \X Titles) /\ deleted \in 0..Len(convs) /\ Len(convs) \in Nat
    BY InHand DEF TypeInv, RowsOK
  <2>2. CASE UNCHANGED <<deleted, listed, archived, active>>
    BY <1>1, <2>1, <2>2 DEF RowsOK
  <2>3. CASE deleted' = Len(convs) /\ UNCHANGED <<listed, archived, active>>
    BY <1>1, <2>1, <2>3 DEF RowsOK
  <2>4. CASE listed' = <<>> /\ archived' = {} /\ active' = {} /\ UNCHANGED deleted
    <3>1. <<>> \in Seq(Projects)
      OBVIOUS
    <3> QED
      BY <1>1, <2>1, <2>4, <3>1 DEF RowsOK
  <2> QED
    BY <1>3, <2>2, <2>3, <2>4
<1> QED
  BY <1>1, <1>2, <1>4, <1>5 DEF TypeInv, ServiceOK, OrchOK, CmdsOK, CountsOK

LEMMA ResetConfigTypes == ASSUME TypeInv, NEW s \in Slots, ResetConfig(s) PROVE TypeInv'
<1>1. /\ call[s].op = "reset"
      /\ call' = [call EXCEPT ![s] = [@ EXCEPT !.at = "write", !.copy = Defaults]]
      /\ UNCHANGED <<listed, archived, active, convs, deleted, saved, activeConv, cfg, file>>
      /\ UNCHANGED <<orch, lead, forgotten, critique, cmd, last, count>>
  BY DEF ResetConfig, At, dbVars, serviceVars, orchVars, cmdVars
<1>2. Defaults \in Configs
  BY DEF Defaults, Configs, Settings
<1>3. CallsOK'
  BY <1>1, <1>2, CopyTypes
<1> QED
  BY <1>1, <1>3 DEF TypeInv, RowsOK, SavedOK, ServiceOK, OrchOK, CmdsOK, CountsOK

LEMMA ResetContextTypes == ASSUME TypeInv, NEW s \in Slots, ResetContext(s) PROVE TypeInv'
<1>1. /\ lead' = <<>> /\ forgotten' = forgotten \cup Range(lead) \cup Stored /\ Goto(s, "tell")
      /\ UNCHANGED <<listed, archived, active, convs, deleted, saved, activeConv, cfg, file>>
      /\ UNCHANGED <<orch, critique, cmd, last, count>>
  BY DEF ResetContext, dbVars, serviceVars, cmdVars
<1>2. CallsOK'
  BY <1>1, GotoTypes DEF Ats
<1>3. lead \in Seq(Entries) /\ forgotten \subseteq Entries /\ Stored \subseteq Entries
  BY StoredTypes DEF TypeInv, OrchOK
<1>4. Range(lead) \subseteq Entries
  BY <1>3 DEF Range
<1>5. lead' \in Seq(Entries) /\ forgotten' \subseteq Entries
  BY <1>1, <1>3, <1>4
<1> QED
  BY <1>1, <1>2, <1>5 DEF TypeInv, RowsOK, SavedOK, ServiceOK, OrchOK, CmdsOK, CountsOK

(* What is dispatched is stored, the dispatcher's project standing in for   *)
(* none.                                                                   *)
LEMMA DispatchIs ==
    ASSUME TypeInv, NEW project \in Projects \cup {None}, NEW conv \in 0..Len(convs), NEW kind \in Kinds,
           NEW k \in Cmds \cup {None}, kind = "boss_command" => k \in Cmds,
           Dispatch([project |-> project, conv |-> conv, kind |-> kind, cmd |-> k])
    PROVE  \E m \in MessageRow(Len(convs)) :
              m.conv = conv /\ m.kind = kind /\ m.cmd = k /\ saved' = Append(saved, m)
<1> DEFINE r == [project |-> project, conv |-> conv, kind |-> kind, cmd |-> k]
           m == [r EXCEPT !.project = IF @ = None THEN orch.bus ELSE @]
<1>1. saved' = Append(saved, m)
  BY DEF Dispatch, Handle
<1>2. orch.bus \in Projects \cup {None}
  BY DEF TypeInv, OrchOK, Context
<1>3. m \in MessageRow(Len(convs))
  BY <1>2 DEF MessageRow
<1>4. m.conv = conv /\ m.kind = kind /\ m.cmd = k
  OBVIOUS
<1> QED
  BY <1>1, <1>3, <1>4

(* What is said lands in the orchestrator's context. *)
LEMMA SayIs ==
    ASSUME TypeInv, NEW kind \in Kinds, NEW k \in Cmds, Say(kind, k)
    PROVE  \E m \in MessageRow(Len(convs)) :
              m.conv = orch.conv /\ m.kind = kind /\ m.cmd = k /\ saved' = Append(saved, m)
<1>1. orch.project \in Projects \cup {None} /\ orch.conv \in 0..Len(convs)
  BY DEF TypeInv, OrchOK, Context
<1> QED
  BY <1>1, DispatchIs DEF Say

LEMMA NotifyIs ==
    ASSUME TypeInv, NEW k \in Cmds \cup {None}, Notify(k)
    PROVE  \E m \in MessageRow(Len(convs)) :
              m.conv = 0 /\ m.kind = "notice" /\ m.cmd = k /\ saved' = Append(saved, m)
<1>1. orch.project \in Projects \cup {None} /\ 0 \in 0..Len(convs)
  BY InHand DEF TypeInv, OrchOK, Context, RowsOK
<1>2. "notice" \in Kinds /\ "notice" # "boss_command"
  BY DEF Kinds
<1>3. Dispatch([project |-> orch.project, conv |-> 0, kind |-> "notice", cmd |-> k])
  BY DEF Notify
<1> QED
  BY <1>1, <1>2, <1>3, DispatchIs

LEMMA BroadcastTypes == ASSUME TypeInv, NEW s \in Slots, Broadcast(s) PROVE TypeInv'
<1>1. /\ Notify(None) /\ End(s, TRUE)
      /\ UNCHANGED <<listed, archived, active, convs, deleted, activeConv, cfg, file>>
      /\ UNCHANGED <<orch, lead, forgotten, critique, cmd, count>>
  BY DEF Broadcast, serviceVars, orchVars, cmdVars
<1>2. CallsOK' /\ CountsOK'
  BY <1>1, EndTypes
<1>3. SavedOK'
  BY <1>1, NotifyIs, StoreTypes
<1> QED
  BY <1>1, <1>2, <1>3 DEF TypeInv, RowsOK, ServiceOK, OrchOK, CmdsOK

LEMMA FailTypes == ASSUME TypeInv, NEW s \in Slots, Fail(s) PROVE TypeInv'
<1>1. /\ count.fails < MaxFails /\ count' = [count EXCEPT !.fails = @ + 1] /\ End(s, FALSE)
      /\ UNCHANGED <<listed, archived, active, convs, deleted, saved, activeConv, cfg, file>>
      /\ UNCHANGED <<orch, lead, forgotten, critique, cmd>>
  BY DEF Fail, dbVars, serviceVars, orchVars, cmdVars
<1>2. CallsOK' /\ last' \in [op : Ops \cup {"none"}, id : Projects \cup {None}, ok : BOOLEAN]
  BY <1>1, EndCall
<1>3. CountsOK'
  BY <1>1, <1>2, WorkspaceAssumption DEF TypeInv, CountsOK, Counts
<1> QED
  BY <1>1, <1>2, <1>3 DEF TypeInv, RowsOK, SavedOK, ServiceOK, OrchOK, CmdsOK

(* A command that speaks, or only goes on. *)
LEMMA SpeakTypes ==
    ASSUME TypeInv, NEW k \in Cmds, NEW place \in Places,
           UNCHANGED saved \/ (\E m \in MessageRow(Len(convs)) : saved' = Append(saved, m)),
           cmd' = [cmd EXCEPT ![k] = place],
           UNCHANGED <<listed, archived, active, convs, deleted, activeConv, cfg, file>>,
           lead' \in Seq(Entries),
           UNCHANGED <<orch, forgotten, critique, call, last, count>>
    PROVE  TypeInv'
<1>1. SavedOK'
  BY StoreTypes DEF TypeInv, SavedOK
<1>2. CmdsOK'
  BY DEF TypeInv, CmdsOK
<1> QED
  BY <1>1, <1>2 DEF TypeInv, RowsOK, ServiceOK, OrchOK, CallsOK, CountsOK

LEMMA CommandTypes ==
    ASSUME TypeInv, NEW k \in Cmds,
           SendBossCommand(k) \/ BeginTurn(k) \/ Answer(k) \/ Plan(k) \/ Reply(k) \/ Finish(k)
    PROVE  TypeInv'
<1>1. PICK place \in Places : cmd' = [cmd EXCEPT ![k] = place]
  BY DEF SendBossCommand, BeginTurn, Answer, Plan, Reply, Finish, Places
<1>2. \/ UNCHANGED saved
      \/ Notify(k)
      \/ Say("boss_command", k) \/ Say("agent_message", k) \/ Say("note", k) \/ Say("event", k)
  BY DEF SendBossCommand, BeginTurn, Answer, Plan, Reply, Finish, dbVars
<1>3. UNCHANGED saved \/ (\E m \in MessageRow(Len(convs)) : saved' = Append(saved, m))
  BY <1>2, SayIs, NotifyIs DEF Kinds
<1>4. /\ UNCHANGED <<listed, archived, active, convs, deleted, activeConv, cfg, file>>
      /\ UNCHANGED <<orch, forgotten, critique, call, last, count>>
  BY DEF SendBossCommand, BeginTurn, Answer, Plan, Reply, Finish, dbVars, serviceVars, orchVars
<1>5. lead' \in Seq(Entries)
  <2>1. \/ UNCHANGED lead
        \/ lead' = Append(lead, <<"user", "boss_command", k>>)
        \/ lead' = Append(lead, <<"assistant", "agent_message", k>>)
    BY DEF SendBossCommand, BeginTurn, Answer, Plan, Reply, Finish, orchVars
  <2>2. <<"user", "boss_command", k>> \in Entries /\ <<"assistant", "agent_message", k>> \in Entries
    BY DEF Entries, Recalled
  <2>3. lead \in Seq(Entries)
    BY DEF TypeInv, OrchOK
  <2>4. /\ Append(lead, <<"user", "boss_command", k>>) \in Seq(Entries)
        /\ Append(lead, <<"assistant", "agent_message", k>>) \in Seq(Entries)
    BY <2>2, <2>3, AppendProperties
  <2> QED
    BY <2>1, <2>3, <2>4
<1> QED
  BY <1>1, <1>3, <1>4, <1>5, SpeakTypes

LEMMA HandOverTypes == ASSUME TypeInv, NEW k \in Cmds, HandOver(k) PROVE TypeInv'
<1>1. /\ Say("note", k) /\ count.notes < MaxNotes /\ count' = [count EXCEPT !.notes = @ + 1]
      /\ UNCHANGED <<listed, archived, active, convs, deleted, activeConv, cfg, file>>
      /\ UNCHANGED <<orch, lead, forgotten, critique, cmd, call, last>>
  BY DEF HandOver, serviceVars, orchVars, cmdVars
<1>2. SavedOK'
  BY <1>1, SayIs, StoreTypes DEF Kinds
<1>3. CountsOK'
  BY <1>1, WorkspaceAssumption DEF TypeInv, CountsOK, Counts
<1> QED
  BY <1>1, <1>2, <1>3 DEF TypeInv, RowsOK, ServiceOK, OrchOK, CallsOK, CmdsOK

LEMMA NotifyTaskDoneTypes == ASSUME TypeInv, NEW k \in Cmds, NotifyTaskDone(k) PROVE TypeInv'
<1>1. /\ critique' = [project |-> orch.project, conv |-> orch.conv]
      /\ count.notes < MaxNotes /\ count' = [count EXCEPT !.notes = @ + 1]
      /\ UNCHANGED <<listed, archived, active, convs, deleted, saved, activeConv, cfg, file>>
      /\ UNCHANGED <<orch, lead, forgotten, cmd, call, last>>
  BY DEF NotifyTaskDone, dbVars, serviceVars, orchVars
<1>2. CmdsOK'
  BY <1>1 DEF TypeInv, OrchOK, Context, CmdsOK, Critique
<1>3. CountsOK'
  BY <1>1, WorkspaceAssumption DEF TypeInv, CountsOK, Counts
<1> QED
  BY <1>1, <1>2, <1>3 DEF TypeInv, RowsOK, SavedOK, ServiceOK, OrchOK, CallsOK

LEMMA RunCritiqueTypes == ASSUME TypeInv, RunCritique PROVE TypeInv'
<1>1. /\ critique' = NoCritique
      /\ UNCHANGED <<listed, archived, active, convs, deleted, activeConv, cfg, file>>
      /\ UNCHANGED <<orch, lead, forgotten, cmd, call, last, count>>
  BY DEF RunCritique, serviceVars, orchVars
<1>2. CmdsOK'
  BY <1>1, InHand DEF TypeInv, RowsOK, CmdsOK, Critique, NoCritique
<1>3. SavedOK'
  <2>1. CASE UNCHANGED saved
    BY <1>1, <2>1 DEF TypeInv, SavedOK
  <2>2. CASE Dispatch([project |-> critique.project, conv |-> critique.conv, kind |-> "note", cmd |-> None])
    <3>1. critique.project \in Projects \cup {None} /\ critique.conv \in 0..Len(convs)
      BY DEF TypeInv, CmdsOK, Critique
    <3>2. PICK m \in MessageRow(Len(convs)) : saved' = Append(saved, m)
      BY <2>2, <3>1, DispatchIs DEF Kinds
    <3> QED
      BY <1>1, <3>2, StoreTypes
  <2> QED
    BY <2>1, <2>2 DEF RunCritique
<1> QED
  BY <1>1, <1>2, <1>3 DEF TypeInv, RowsOK, ServiceOK, OrchOK, CallsOK, CountsOK

LEMMA StartTypes == ASSUME TypeInv, Start PROVE TypeInv'
<1> DEFINE p == file.project
           rows == Rows(p, "war-room")
           new == rows = {} /\ p # None
<1>1. /\ count.starts < MaxStarts /\ count' = [count EXCEPT !.starts = @ + 1]
      /\ cfg' = file /\ activeConv' = 0
      /\ convs' = IF new THEN Append(convs, <<p, "war-room">>) ELSE convs
      /\ call' = [s \in Slots |-> NoCall]
      /\ cmd' = [k \in Cmds |-> IF cmd[k] = "idle" THEN "idle" ELSE "ended"]
      /\ forgotten' = {} /\ critique' = NoCritique
      /\ last' = [op |-> "none", id |-> None, ok |-> FALSE]
      /\ UNCHANGED <<listed, archived, active, deleted, saved, file>>
  BY DEF Start
<1>2. PICK conv \in IF p = None THEN {0} ELSE IF new THEN {Len(convs) + 1} ELSE rows :
         /\ orch' = [project |-> p, conv |-> conv, bus |-> p]
         /\ lead' = IF conv = 0 THEN <<>> ELSE Seeds(conv)
  BY DEF Start
<1>3. p \in Projects \cup {None} /\ rows \subseteq 1..Len(convs) /\ Len(convs) \in Nat
  BY RowsAre, InHand DEF TypeInv, ServiceOK, Configs, RowsOK
<1>4. convs' \in Seq(Projects \X Titles) /\ Len(convs') >= Len(convs) /\ conv \in 0..Len(convs')
  <2> HIDE DEF rows
  <2>1. CASE new
    <3>1. <<p, "war-room">> \in Projects \X Titles
      BY <1>3, <2>1 DEF Titles
    <3>2. convs' \in Seq(Projects \X Titles) /\ Len(convs') = Len(convs) + 1
      BY <1>1, <2>1, <3>1, RangeAppend DEF TypeInv, RowsOK
    <3> QED
      BY <1>2, <1>3, <2>1, <3>2
  <2>2. CASE ~new
    <3>1. convs' = convs
      BY <1>1, <2>2
    <3>2. conv \in {0} \cup rows
      BY <1>2, <2>2
    <3> QED
      BY <1>3, <3>1, <3>2 DEF TypeInv, RowsOK
  <2> QED
    BY <2>1, <2>2
<1>5. /\ Len(convs') \in Nat
      /\ saved \in Seq(MessageRow(Len(convs')))
      /\ deleted \in 0..Len(convs')
  BY <1>4, Widened
<1>6. lead' \in Seq(Entries)
  <2>1. Seeds(conv) \in Seq(Entries)
    BY <1>3, SeedIs DEF TypeInv
  <2>2. <<>> \in Seq(Entries)
    OBVIOUS
  <2> QED
    BY <1>2, <2>1, <2>2
<1>7. OrchOK'
  BY <1>1, <1>2, <1>3, <1>4, <1>6 DEF OrchOK, Context
<1>8. CallsOK'
  BY <1>1, <1>5, NoCallIs DEF CallsOK
<1>9. CmdsOK'
  BY <1>1, <1>5 DEF CmdsOK, Places, Critique, NoCritique
<1>10. CountsOK'
  BY <1>1, WorkspaceAssumption DEF TypeInv, CountsOK, Counts
<1>11. RowsOK' /\ SavedOK'
  BY <1>1, <1>4, <1>5 DEF TypeInv, RowsOK, SavedOK
<1>12. ServiceOK'
  BY <1>1, <1>5 DEF TypeInv, ServiceOK
<1> QED
  BY <1>7, <1>8, <1>9, <1>10, <1>11, <1>12 DEF TypeInv

LEMMA StepTypes == ASSUME TypeInv, [Next]_vars PROVE TypeInv'
<1>1. CASE UNCHANGED vars
  BY <1>1 DEF TypeInv, RowsOK, SavedOK, ServiceOK, OrchOK, CallsOK, CmdsOK, CountsOK,
              vars, dbVars, serviceVars, orchVars, cmdVars
<1>2. ASSUME NEW s \in Slots, Open(s) \/ Step(s) PROVE TypeInv'
  BY <1>2, OpenTypes, CreateProjectTypes, ActivateTypes, FindTypes, MakeTypes, SetOrchestratorTypes,
     SetServiceTypes, WriteConfigTypes, GetActiveProjectTypes, SetCacheTypes, ArchiveProjectTypes,
     SeekDMTypes, OpenDMTypes, InitFirstRunTypes, GreetTypes, SaveConfigTypes, WipeTypes,
     SeedLeadTypes, ResetConfigTypes, ResetContextTypes, BroadcastTypes, FailTypes DEF Step
<1>3. ASSUME NEW k \in Cmds,
             \/ SendBossCommand(k) \/ BeginTurn(k) \/ Answer(k) \/ Plan(k) \/ Reply(k)
             \/ HandOver(k) \/ NotifyTaskDone(k) \/ Finish(k)
      PROVE  TypeInv'
  BY <1>3, CommandTypes, HandOverTypes, NotifyTaskDoneTypes
<1>4. CASE Start \/ RunCritique
  BY <1>4, StartTypes, RunCritiqueTypes
<1> QED
  BY <1>1, <1>2, <1>3, <1>4 DEF Next

(* Rows, configuration, contexts and calls keep their form: what a call has *)
(* in hand is a row that exists, a project when it needs one, and what the  *)
(* Lead is seeded with are roles and commands.                              *)
THEOREM WorkspaceTypes == Spec => []TypeOK
<1>1. Init => TypeInv
  BY InitTypes
<1>2. TypeInv /\ [Next]_vars => TypeInv'
  BY StepTypes
<1>3. TypeInv => TypeOK
  BY TypesAreOK
<1> QED
  BY <1>1, <1>2, <1>3, PTL DEF Spec


-----------------------------------------------------------------------------
(* What the Lead recalls.                                                   *)

SaidIn(rows, conv) == {i \in DOMAIN rows : rows[i].conv = conv /\ rows[i].kind \in Recalled}
Window(rows, conv) == {rows[i] : i \in Latest(SaidIn(rows, conv), HistoryLimit)}

(* A message more: nothing older than the window comes back into it. *)
LEMMA WindowAfter ==
    ASSUME NEW T, NEW rows \in Seq(T), NEW m \in T, NEW conv
    PROVE  \A x \in Window(Append(rows, m), conv) :
              x \in Window(rows, conv) \/ (x = m /\ m.conv = conv /\ m.kind \in Recalled)
<1> DEFINE more == Append(rows, m)
           S == SaidIn(rows, conv)
           N == SaidIn(more, conv)
           L == Len(rows)
<1>1. /\ more \in Seq(T) /\ Len(more) = L + 1 /\ L \in Nat
      /\ \A i \in 1..L : more[i] = rows[i]
      /\ more[L + 1] = m
  BY AppendProperties
<1>2. DOMAIN rows = 1..L /\ DOMAIN more = 1..(L + 1)
  BY <1>1
<1>3. S \in SUBSET (1..L) /\ N \in SUBSET (1..(L + 1)) /\ S \subseteq N
  <2>1. 1..L \subseteq 1..(L + 1)
    BY <1>1
  <2> HIDE DEF more
  <2> QED
    BY <1>1, <1>2, <2>1 DEF SaidIn
<1>4. ASSUME NEW i \in Latest(N, HistoryLimit), i # L + 1
      PROVE  i \in Latest(S, HistoryLimit) /\ more[i] = rows[i]
  <2>1. i \in N /\ Cardinality({j \in N : j >= i}) <= HistoryLimit
    BY DEF Latest
  <2>2. i \in 1..L
    BY <1>1, <1>3, <1>4, <2>1
  <2>3. i \in S
    <3> HIDE DEF more
    <3> QED
      BY <1>1, <1>2, <2>1, <2>2 DEF SaidIn
  <2> DEFINE U == {j \in S : j >= i}
             V == {j \in N : j >= i}
  <2>4. U \in SUBSET V /\ V \in SUBSET (1..(L + 1)) /\ L + 1 \in Nat
    BY <1>1, <1>3
  <2>5. Cardinality(U) <= Cardinality(V) /\ Cardinality(U) \in Nat /\ Cardinality(V) \in Nat
    <3> HIDE DEF U, V
    <3> QED
      BY <2>4, Positions
  <2>6. Cardinality(U) <= HistoryLimit
    <3>1. Cardinality(V) <= HistoryLimit
      BY <2>1
    <3> HIDE DEF U, V
    <3> QED
      BY <2>5, <3>1, WorkspaceAssumption
  <2> QED
    BY <1>1, <2>2, <2>3, <2>6 DEF Latest
<1>5. L + 1 \in Latest(N, HistoryLimit) => m.conv = conv /\ m.kind \in Recalled
  <2> HIDE DEF more
  <2> QED
    BY <1>1 DEF Latest, SaidIn
<1> HIDE DEF more
<1>6. ASSUME NEW i \in Latest(N, HistoryLimit)
      PROVE  more[i] \in Window(rows, conv) \/ (more[i] = m /\ m.conv = conv /\ m.kind \in Recalled)
  BY <1>1, <1>4, <1>5 DEF Window
<1>7. \A x \in Window(more, conv) : \E i \in Latest(N, HistoryLimit) : x = more[i]
  BY DEF Window
<1> QED
  BY <1>6, <1>7 DEF more

LEMMA WindowIs ==
    ASSUME TypeInv, NEW conv
    PROVE  /\ \A m \in Window(saved, conv) : m \in MessageRow(Len(convs)) /\ m.kind \in Recalled
           /\ Range(ListConversationHistory(conv, HistoryLimit)) = Window(saved, conv)
           /\ Range(Seeds(conv)) = {Entry(m) : m \in Window(saved, conv)}
<1> DEFINE h == ListConversationHistory(conv, HistoryLimit)
           S == Latest(Said(conv), HistoryLimit)
<1>1. /\ S \subseteq Said(conv) /\ Said(conv) \subseteq 1..Len(saved)
      /\ \A k \in DOMAIN h : \E i \in S : h[k] = saved[i]
      /\ \A i \in S : \E k \in DOMAIN h : h[k] = saved[i]
      /\ Range(Seeds(conv)) = {Entry(saved[i]) : i \in S}
  BY HistoryIs, SeedIs DEF TypeInv, RowsOK
<1>2. Window(saved, conv) = {saved[i] : i \in S}
  BY DEF Window, SaidIn, Said
<1>3. \A i \in S : saved[i] \in MessageRow(Len(convs)) /\ saved[i].kind \in Recalled
  <2>1. saved \in Seq(MessageRow(Len(convs)))
    BY DEF TypeInv, SavedOK
  <2> QED
    BY <1>1, <2>1 DEF Said
<1> HIDE DEF S, h
<1>4. Range(h) = {saved[i] : i \in S}
  BY <1>1 DEF Range
<1> QED
  BY <1>1, <1>2, <1>3, <1>4 DEF h

LEMMA RangeConcat ==
    ASSUME NEW T, NEW q \in Seq(T), NEW r \in Seq(T)
    PROVE  Range(q) \subseteq Range(q \o r) /\ Range(r) \subseteq Range(q \o r)
<1>1. /\ q \o r \in Seq(T) /\ Len(q \o r) = Len(q) + Len(r) /\ Len(q) \in Nat /\ Len(r) \in Nat
      /\ \A i \in 1..Len(q) : (q \o r)[i] = q[i]
      /\ \A i \in 1..Len(r) : (q \o r)[Len(q) + i] = r[i]
  BY ConcatProperties
<1>2. DOMAIN q = 1..Len(q) /\ DOMAIN r = 1..Len(r) /\ DOMAIN (q \o r) = 1..(Len(q) + Len(r))
  BY <1>1
<1>3. \A i \in 1..Len(q) : i \in DOMAIN (q \o r)
  BY <1>1, <1>2
<1>4. \A i \in 1..Len(r) : Len(q) + i \in DOMAIN (q \o r)
  BY <1>1, <1>2
<1>5. Range(q) \subseteq Range(q \o r)
  BY <1>1, <1>2, <1>3 DEF Range
<1>6. Range(r) \subseteq Range(q \o r)
  BY <1>1, <1>2, <1>4 DEF Range
<1> QED
  BY <1>5, <1>6

(* A conversation that is there has the title. *)
Is(rows, i, title) == i \in 1..Len(rows) /\ rows[i][2] = title

CallTitled(rows, c) ==
    /\ c.at \in {"set", "seed"} => Is(rows, c.conv, "war-room")
    /\ c.at = "greet" => Is(rows, c.conv, "dm")

(* The channel is not a direct conversation, so that the greeting, which    *)
(* no history is told, is never said in it.                                 *)
Titled ==
    /\ orch.conv # 0 => Is(convs, orch.conv, "war-room")
    /\ \A s \in Slots : CallTitled(convs, call[s])

LEMMA RowsTitled ==
    ASSUME RowsOK, NEW p, NEW title, NEW i \in Rows(p, title)
    PROVE  Is(convs, i, title)
<1>1. i \in 1..Len(convs)
  BY RowsAre
<1>2. convs[i] = <<p, title>>
  BY DEF Rows
<1> QED
  BY <1>1, <1>2 DEF Is

LEMMA TitledAfter ==
    ASSUME RowsOK, NEW x \in Projects \X Titles, convs' = Append(convs, x)
    PROVE  /\ \A i, title : Is(convs, i, title) => Is(convs', i, title)
           /\ Is(convs', Len(convs) + 1, x[2])
<1>1. /\ Len(convs') = Len(convs) + 1 /\ Len(convs) \in Nat
      /\ \A i \in 1..Len(convs) : convs'[i] = convs[i]
      /\ convs'[Len(convs) + 1] = x
  BY AppendProperties DEF RowsOK
<1>2. \A i \in 1..Len(convs) : i \in 1..Len(convs')
  BY <1>1
<1>3. Len(convs) + 1 \in 1..Len(convs')
  BY <1>1
<1> QED
  BY <1>1, <1>2, <1>3 DEF Is

(* A call moves on. *)
LEMMA TitledMoves ==
    ASSUME TypeInv, Titled, NEW s \in Slots, NEW c, call' = [call EXCEPT ![s] = c],
           \A i, title : Is(convs, i, title) => Is(convs', i, title),
           CallTitled(convs', c),
           orch'.conv = orch.conv \/ Is(convs', orch'.conv, "war-room")
    PROVE  Titled'
<1>1. \A t \in Slots : call'[t] = c \/ call'[t] = call[t]
  BY DEF TypeInv, CallsOK
<1>2. \A t \in Slots : CallTitled(convs', call[t])
  BY DEF Titled, CallTitled
<1> QED
  BY <1>1, <1>2 DEF Titled

(* A call that goes on with no conversation in its hands, or ends. *)
LEMMA TitledGoes ==
    ASSUME TypeInv, Titled, NEW s \in Slots, UNCHANGED convs, orch'.conv = orch.conv,
           \/ \E at \in Ats \ {"set", "seed", "greet"} : Goto(s, at)
           \/ \E by \in {"none", "orch", "service", "cache"} : Enter(s, "find", by)
           \/ \E ok \in BOOLEAN : End(s, ok)
           \/ \E c : c.at \notin {"set", "seed", "greet"} /\ call' = [call EXCEPT ![s] = c]
    PROVE  Titled'
<1>1. ASSUME NEW c, c.at \notin {"set", "seed", "greet"}, call' = [call EXCEPT ![s] = c] PROVE Titled'
  <2>1. CallTitled(convs', c)
    BY <1>1 DEF CallTitled
  <2> QED
    BY <1>1, <2>1, TitledMoves
<1>2. ASSUME NEW at \in Ats \ {"set", "seed", "greet"}, Goto(s, at) PROVE Titled'
  <2> DEFINE c == [call[s] EXCEPT !.at = at]
  <2>1. c.at = at /\ call' = [call EXCEPT ![s] = c]
    BY <1>2, InHand DEF Goto, CallRow
  <2> HIDE DEF c
  <2> QED
    BY <1>1, <2>1
<1>3. ASSUME NEW by \in {"none", "orch", "service", "cache"}, Enter(s, "find", by) PROVE Titled'
  <2> DEFINE c == [call[s] EXCEPT !.at = "find", !.by = by]
  <2>1. c.at = "find" /\ call' = [call EXCEPT ![s] = c]
    BY <1>3, InHand DEF Enter, CallRow
  <2> HIDE DEF c
  <2> QED
    BY <1>1, <2>1
<1>4. ASSUME NEW ok \in BOOLEAN, End(s, ok) PROVE Titled'
  <2>1. NoCall.at = "none"
    BY DEF NoCall, Call
  <2> QED
    BY <1>1, <1>4, <2>1 DEF End
<1> QED
  BY <1>1, <1>2, <1>3, <1>4

(* The rest of the calls: each puts something else than a conversation into *)
(* the hands of the call.                                                   *)
LEMMA TitledRest ==
    ASSUME TypeInv, Titled, NEW s \in Slots,
           \/ Open(s) \/ SetService(s) \/ GetActiveProject(s) \/ SeekDM(s) \/ InitFirstRun(s)
           \/ SaveConfig(s) \/ ResetConfig(s)
    PROVE  Titled'
<1>0. UNCHANGED <<convs, orch>>
  BY DEF Open, SetService, GetActiveProject, SeekDM, InitFirstRun, SaveConfig, ResetConfig, dbVars, orchVars
<1>1. ASSUME NEW ok \in BOOLEAN, End(s, ok) PROVE Titled'
  BY <1>0, <1>1, TitledGoes
<1>2. ASSUME NEW c, c.at \notin {"set", "seed", "greet"}, call' = [call EXCEPT ![s] = c] PROVE Titled'
  BY <1>0, <1>2, TitledGoes
<1>3. ASSUME NEW op, NEW at \in Ats \ {"set", "seed", "greet"}, NEW id,
             call' = [call EXCEPT ![s] = Call(op, at, id)]
      PROVE  Titled'
  <2> DEFINE c == Call(op, at, id)
  <2>1. c.at = at
    BY DEF Call
  <2> HIDE DEF c
  <2> QED
    BY <1>2, <1>3, <2>1 DEF c
<1>4. CASE Open(s)
  BY <1>3, <1>4 DEF Open, NewProject, Ats
<1>5. ASSUME NEW new, call' = [call EXCEPT ![s] = [@ EXCEPT !.at = "write", !.copy = new]] PROVE Titled'
  <2> DEFINE c == [call[s] EXCEPT !.at = "write", !.copy = new]
  <2>1. c.at = "write" /\ call' = [call EXCEPT ![s] = c]
    BY <1>5, InHand DEF CallRow
  <2> HIDE DEF c
  <2> QED
    BY <1>2, <2>1
<1>6. CASE SetService(s) \/ SaveConfig(s) \/ ResetConfig(s)
  BY <1>5, <1>6 DEF SetService, SaveConfig, ResetConfig
<1>7. ASSUME NEW p, call' = [call EXCEPT ![s] = [@ EXCEPT !.at = "find", !.by = "cache", !.id = p]]
      PROVE  Titled'
  <2> DEFINE c == [call[s] EXCEPT !.at = "find", !.by = "cache", !.id = p]
  <2>1. c.at = "find" /\ call' = [call EXCEPT ![s] = c]
    BY <1>7, InHand DEF CallRow
  <2> HIDE DEF c
  <2> QED
    BY <1>2, <2>1
<1>8. ASSUME NEW at \in {"open", "insert"}, NEW p, call' = [call EXCEPT ![s] = [@ EXCEPT !.at = at, !.id = p]]
      PROVE  Titled'
  <2> DEFINE c == [call[s] EXCEPT !.at = at, !.id = p]
  <2>1. c.at = at /\ call' = [call EXCEPT ![s] = c]
    BY <1>8, InHand DEF CallRow
  <2> HIDE DEF c
  <2> QED
    BY <1>2, <2>1
<1>9. CASE GetActiveProject(s)
  BY <1>1, <1>7, <1>9 DEF GetActiveProject
<1>10. CASE SeekDM(s)
  BY <1>1, <1>8, <1>10 DEF SeekDM
<1>11. CASE InitFirstRun(s)
  BY <1>1, <1>8, <1>11 DEF InitFirstRun
<1> QED
  BY <1>4, <1>6, <1>9, <1>10, <1>11

(* The calls that take a conversation into their hands or into the context. *)
LEMMA TitledTaken ==
    ASSUME TypeInv, Titled, NEW s \in Slots, Find(s) \/ Make(s) \/ SetOrchestrator(s) \/ OpenDM(s)
    PROVE  Titled'
<1>1. CASE Find(s)
  <2>1. UNCHANGED <<convs, orch>>
    BY <1>1 DEF Find, dbVars, orchVars
  <2>2. ASSUME NEW i \in Rows(call[s].id, "war-room"), call' = [call EXCEPT ![s] = [@ EXCEPT !.at = "set", !.conv = i]]
        PROVE  Titled'
    <3> DEFINE c == [call[s] EXCEPT !.at = "set", !.conv = i]
    <3>1. c.at = "set" /\ c.conv = i /\ call' = [call EXCEPT ![s] = c]
      BY <2>2, InHand DEF CallRow
    <3>2. Is(convs, i, "war-room")
      BY RowsTitled DEF TypeInv
    <3> HIDE DEF c
    <3>3. CallTitled(convs', c)
      BY <2>1, <3>1, <3>2 DEF CallTitled
    <3> QED
      BY <2>1, <3>1, <3>3, TitledMoves
  <2>3. ASSUME Goto(s, "make") PROVE Titled'
    BY <2>1, <2>3, TitledGoes DEF Ats
  <2> QED
    BY <1>1, <2>2, <2>3 DEF Find, GetConversationByTitle
<1>2. CASE Make(s)
  <2> DEFINE c == [call[s] EXCEPT !.at = "set", !.conv = Len(convs) + 1]
             x == <<call[s].id, "war-room">>
  <2>1. call[s].at = "make" /\ convs' = Append(convs, x) /\ call' = [call EXCEPT ![s] = c] /\ UNCHANGED orch
    BY <1>2 DEF Make, orchVars
  <2>2. x \in Projects \X Titles /\ x[2] = "war-room"
    BY <2>1, InHand DEF Formed, Titles
  <2>3. c.at = "set" /\ c.conv = Len(convs) + 1
    BY InHand DEF CallRow
  <2> HIDE DEF c, x
  <2>4. (\A i, title : Is(convs, i, title) => Is(convs', i, title)) /\ Is(convs', Len(convs) + 1, "war-room")
    BY <2>1, <2>2, TitledAfter DEF TypeInv
  <2>5. CallTitled(convs', c)
    BY <2>3, <2>4 DEF CallTitled
  <2> QED
    BY <2>1, <2>4, <2>5, TitledMoves
<1>3. CASE SetOrchestrator(s)
  <2> DEFINE c == [call[s] EXCEPT !.at = "seed"]
  <2>1. call[s].at = "set" /\ call' = [call EXCEPT ![s] = c] /\ UNCHANGED convs
    BY <1>3 DEF SetOrchestrator, Goto, dbVars
  <2>2. orch'.conv = call[s].conv
    BY <1>3 DEF SetOrchestrator, TypeInv, OrchOK, Context
  <2>3. c.at = "seed" /\ c.conv = call[s].conv
    BY InHand DEF CallRow
  <2>4. Is(convs, call[s].conv, "war-room")
    BY <2>1 DEF Titled, CallTitled
  <2> HIDE DEF c
  <2>5. CallTitled(convs', c)
    BY <2>1, <2>3, <2>4 DEF CallTitled
  <2> QED
    BY <2>1, <2>2, <2>4, <2>5, TitledMoves
<1>4. CASE OpenDM(s)
  <2> DEFINE c == [call[s] EXCEPT !.at = "greet", !.conv = Len(convs) + 1]
             x == <<call[s].id, "dm">>
  <2>1. call[s].at = "open" /\ convs' = Append(convs, x) /\ UNCHANGED orch
    BY <1>4 DEF OpenDM, orchVars
  <2>2. x \in Projects \X Titles /\ x[2] = "dm"
    BY <2>1, InHand DEF Formed, Titles
  <2>3. c.at = "greet" /\ c.conv = Len(convs) + 1
    BY InHand DEF CallRow
  <2>6. call' = [call EXCEPT ![s] = c] \/ call' = [call EXCEPT ![s] = NoCall]
    BY <1>4 DEF OpenDM, End
  <2> HIDE DEF c, x
  <2>4. (\A i, title : Is(convs, i, title) => Is(convs', i, title)) /\ Is(convs', Len(convs) + 1, "dm")
    BY <2>1, <2>2, TitledAfter DEF TypeInv
  <2>5. CallTitled(convs', c)
    BY <2>3, <2>4 DEF CallTitled
  <2>7. CallTitled(convs', NoCall)
    BY DEF CallTitled, NoCall, Call
  <2> QED
    BY <2>1, <2>4, <2>5, <2>6, <2>7, TitledMoves
<1> QED
  BY <1>1, <1>2, <1>3, <1>4

LEMMA TitledStart == ASSUME TypeInv, Start PROVE Titled'
<1> DEFINE p == file.project
           rows == Rows(p, "war-room")
           new == rows = {} /\ p # None
<1>1. /\ convs' = IF new THEN Append(convs, <<p, "war-room">>) ELSE convs
      /\ call' = [s \in Slots |-> NoCall]
  BY DEF Start
<1>2. PICK conv \in IF p = None THEN {0} ELSE IF new THEN {Len(convs) + 1} ELSE rows :
         orch' = [project |-> p, conv |-> conv, bus |-> p]
  BY DEF Start
<1>3. orch'.conv = conv
  BY <1>2
<1>4. conv # 0 => Is(convs', conv, "war-room")
  <2>1. CASE new
    <3>1. <<p, "war-room">> \in Projects \X Titles
      BY <2>1 DEF TypeInv, ServiceOK, Configs, Titles
    <3>2. Is(convs', Len(convs) + 1, "war-room")
      BY <1>1, <2>1, <3>1, TitledAfter DEF TypeInv
    <3> QED
      BY <1>2, <2>1, <3>2
  <2>2. CASE ~new
    <3>1. conv # 0 => conv \in rows
      BY <1>2, <2>2
    <3>2. conv # 0 => Is(convs, conv, "war-room")
      BY <3>1, RowsTitled DEF TypeInv
    <3> QED
      BY <1>1, <2>2, <3>2
  <2> QED
    BY <2>1, <2>2
<1>5. \A s \in Slots : CallTitled(convs', call'[s])
  BY <1>1 DEF CallTitled, NoCall, Call
<1> QED
  BY <1>3, <1>4, <1>5 DEF Titled

LEMMA TitledStep == ASSUME TypeInv, Titled, [Next]_vars PROVE Titled'
<1>1. ASSUME NEW s \in Slots, Activate(s) PROVE Titled'
  <2>1. UNCHANGED convs /\ orch'.conv = orch.conv
    BY <1>1 DEF Activate, TypeInv, OrchOK, Context
  <2>2. Enter(s, "find", "orch") \/ End(s, FALSE)
    BY <1>1 DEF Activate
  <2> QED
    BY <2>1, <2>2, TitledGoes
<1>2. ASSUME NEW s \in Slots,
             \/ CreateProject(s) \/ SeedLead(s) \/ WriteConfig(s) \/ SetCache(s) \/ ArchiveProject(s)
             \/ Greet(s) \/ Wipe(s) \/ ResetContext(s) \/ Broadcast(s) \/ Fail(s)
      PROVE  Titled'
  <2>1. UNCHANGED <<convs, orch>>
    BY <1>2 DEF CreateProject, SeedLead, WriteConfig, SetCache, ArchiveProject, Greet, Wipe, ResetContext,
       Broadcast, Fail, dbVars, orchVars
  <2>2. \/ Goto(s, "activate") \/ Goto(s, "open") \/ Goto(s, "wipe_conversations") \/ Goto(s, "wipe_projects")
        \/ Goto(s, "defaults") \/ Goto(s, "tell") \/ Enter(s, "find", "service")
        \/ End(s, TRUE) \/ End(s, FALSE)
    BY <1>2 DEF CreateProject, SeedLead, WriteConfig, SetCache, ArchiveProject, Greet, Wipe, ResetContext,
       Broadcast, Fail
  <2> QED
    BY <2>1, <2>2, TitledGoes DEF Ats
<1>3. ASSUME NEW s \in Slots, Open(s) \/ Step(s) PROVE Titled'
  BY <1>1, <1>2, <1>3, TitledRest, TitledTaken DEF Step
<1>4. CASE UNCHANGED <<convs, orch, call>>
  BY <1>4 DEF Titled
<1>5. ASSUME NEW k \in Cmds,
             \/ SendBossCommand(k) \/ BeginTurn(k) \/ Answer(k) \/ Plan(k) \/ Reply(k)
             \/ HandOver(k) \/ NotifyTaskDone(k) \/ Finish(k)
      PROVE  Titled'
  <2>1. UNCHANGED <<convs, orch, call>>
    BY <1>5 DEF SendBossCommand, BeginTurn, Answer, Plan, Reply, HandOver, NotifyTaskDone, Finish, dbVars, orchVars
  <2> QED
    BY <1>4, <2>1
<1>6. CASE RunCritique \/ UNCHANGED vars
  BY <1>4, <1>6 DEF RunCritique, vars, dbVars, orchVars
<1>7. CASE Start
  BY <1>7, TitledStart
<1> QED
  BY <1>3, <1>5, <1>6, <1>7 DEF Next

(* What the Lead has been told, whether or not it was told to forget it. *)
Heard == forgotten \cup Range(lead)

KnownBy(m, places, heard) ==
    \/ m.kind = "note"
    \/ m.kind = "boss_command" /\ places[m.cmd] = "classify"
    \/ Entry(m) \in heard

Seeding == \E s \in Slots : call[s].at = "seed" /\ call[s].conv = orch.conv
Answered(k) == <<"assistant", "agent_message", k>>

RecallInv ==
    /\ orch.conv # 0 /\ ~Seeding => \A m \in Window(saved, orch.conv) : KnownBy(m, cmd, Heard)
    /\ \A k \in Cmds : cmd[k] = "reply" => Answered(k) \in Heard

(* Nothing is lost of what was heard, and what is new in the window is known. *)
LEMMA RecallGoes ==
    ASSUME TypeInv, RecallInv, orch'.conv = orch.conv, orch.conv # 0 /\ Seeding => Seeding',
           \A m \in Window(saved', orch.conv) :
              m \in Window(saved, orch.conv) \/ KnownBy(m, cmd', Heard'),
           Heard \subseteq Heard',
           \A k \in Cmds : cmd[k] = "classify" =>
              cmd'[k] = "classify" \/ <<"user", "boss_command", k>> \in Heard',
           \A k \in Cmds : cmd'[k] = "reply" => cmd[k] = "reply" \/ Answered(k) \in Heard'
    PROVE  RecallInv'
<1>1. ASSUME NEW m \in Window(saved, orch.conv), KnownBy(m, cmd, Heard) PROVE KnownBy(m, cmd', Heard')
  <2>1. m \in MessageRow(Len(convs))
    BY WindowIs
  <2>2. m.kind = "boss_command" => m.cmd \in Cmds /\ Entry(m) = <<"user", "boss_command", m.cmd>>
    BY <2>1 DEF MessageRow, Entry, Role
  <2> QED
    BY <1>1, <2>2 DEF KnownBy
<1>2. orch'.conv # 0 /\ ~Seeding' => \A m \in Window(saved', orch.conv) : KnownBy(m, cmd', Heard')
  BY <1>1 DEF RecallInv
<1>3. \A k \in Cmds : cmd'[k] = "reply" => Answered(k) \in Heard'
  BY DEF RecallInv
<1> QED
  BY <1>2, <1>3 DEF RecallInv

(* Nothing that the Lead recalls has changed. *)
LEMMA RecallStill ==
    ASSUME TypeInv, RecallInv, UNCHANGED <<saved, cmd>>, orch'.conv = orch.conv, Heard \subseteq Heard',
           Seeding => Seeding'
    PROVE  RecallInv'
BY RecallGoes

(* A call that is not seeding leaves the others to it. *)
LEMMA SeedingStays ==
    ASSUME TypeInv, NEW s \in Slots, call[s].at # "seed", orch'.conv = orch.conv,
           \A t \in Slots \ {s} : call'[t] = call[t]
    PROVE  Seeding => Seeding'
BY DEF Seeding

LEMMA OthersStay ==
    ASSUME TypeInv, NEW s \in Slots, Open(s) \/ Step(s)
    PROVE  \A t \in Slots \ {s} : call'[t] = call[t]
<1>1. call \in [Slots -> CallRow(Len(convs))]
  BY DEF TypeInv, CallsOK
<1>2. ASSUME NEW c, call' = [call EXCEPT ![s] = c] PROVE \A t \in Slots \ {s} : call'[t] = call[t]
  BY <1>1, <1>2
<1>3. ASSUME NEW at, Goto(s, at) PROVE \A t \in Slots \ {s} : call'[t] = call[t]
  BY <1>1, <1>3 DEF Goto
<1>4. ASSUME NEW at, NEW by, Enter(s, at, by) PROVE \A t \in Slots \ {s} : call'[t] = call[t]
  BY <1>1, <1>4 DEF Enter
<1>5. ASSUME NEW ok, End(s, ok) PROVE \A t \in Slots \ {s} : call'[t] = call[t]
  BY <1>1, <1>5 DEF End
<1>6. CASE \/ CreateProject(s) \/ Activate(s) \/ SetOrchestrator(s) \/ SeedLead(s) \/ WriteConfig(s)
           \/ SetCache(s) \/ ArchiveProject(s) \/ Greet(s) \/ Wipe(s) \/ ResetContext(s) \/ Broadcast(s)
           \/ Fail(s)
  BY <1>3, <1>4, <1>5, <1>6 DEF CreateProject, Activate, SetOrchestrator, SeedLead, WriteConfig, SetCache,
     ArchiveProject, Greet, Wipe, ResetContext, Broadcast, Fail
<1>7. CASE Open(s)
  BY <1>1, <1>7 DEF Open, NewProject
<1>8. CASE Find(s) \/ Make(s) \/ OpenDM(s)
  BY <1>1, <1>8 DEF Find, Make, OpenDM, Goto, End
<1>9. CASE \/ SetService(s) \/ GetActiveProject(s) \/ SeekDM(s) \/ InitFirstRun(s)
           \/ SaveConfig(s) \/ ResetConfig(s)
  BY <1>1, <1>9 DEF SetService, GetActiveProject, SeekDM, InitFirstRun, SaveConfig, ResetConfig, End
<1> QED
  BY <1>6, <1>7, <1>8, <1>9 DEF Step

(* The calls that leave the store of messages and the history alone. *)
LEMMA RecallCalls ==
    ASSUME TypeInv, RecallInv, NEW s \in Slots,
           \/ Open(s) \/ CreateProject(s) \/ Activate(s) \/ Find(s) \/ Make(s) \/ SetService(s)
           \/ WriteConfig(s) \/ GetActiveProject(s) \/ SetCache(s) \/ ArchiveProject(s) \/ SeekDM(s)
           \/ OpenDM(s) \/ InitFirstRun(s) \/ SaveConfig(s) \/ ResetConfig(s) \/ Fail(s)
    PROVE  RecallInv'
<1>1. CASE Activate(s)
  <2>1. UNCHANGED <<saved, lead, forgotten, cmd>> /\ orch'.conv = orch.conv /\ call[s].at # "seed"
    BY <1>1 DEF Activate, At, cmdVars, TypeInv, OrchOK, Context
  <2>2. Seeding => Seeding'
    BY <1>1, <2>1, OthersStay, SeedingStays DEF Step
  <2> QED
    BY <2>1, <2>2, RecallStill DEF Heard
<1>2. CASE ~Activate(s)
  <2>1. UNCHANGED <<saved, orch, lead, forgotten, cmd>>
    BY <1>2 DEF Open, CreateProject, Find, Make, SetService, WriteConfig, GetActiveProject, SetCache,
       ArchiveProject, SeekDM, OpenDM, InitFirstRun, SaveConfig, ResetConfig, Fail, dbVars, orchVars, cmdVars
  <2>2. call[s].at # "seed"
    <3>1. NoCall.at # "seed"
      BY DEF NoCall, Call
    <3> QED
      BY <1>2, <3>1 DEF Open, CreateProject, Find, Make, SetService, WriteConfig, GetActiveProject, SetCache,
         ArchiveProject, SeekDM, OpenDM, InitFirstRun, SaveConfig, ResetConfig, Fail, At
  <2>3. Seeding => Seeding'
    BY <2>1, <2>2, OthersStay, SeedingStays DEF Step
  <2> QED
    BY <2>1, <2>3, RecallStill DEF Heard
<1> QED
  BY <1>1, <1>2

(* Seeding itself: what is in the window is told, or could not be read. *)
LEMMA RecallSeeds ==
    ASSUME TypeInv, RecallInv, NEW s \in Slots, SetOrchestrator(s) \/ SeedLead(s)
    PROVE  RecallInv'
<1>1. CASE SetOrchestrator(s)
  <2>1. UNCHANGED <<saved, lead, forgotten, cmd>> /\ orch'.conv = call[s].conv
    BY <1>1 DEF SetOrchestrator, dbVars, cmdVars, TypeInv, OrchOK, Context
  <2>2. call'[s].at = "seed" /\ call'[s].conv = call[s].conv
    BY <1>1, InHand DEF SetOrchestrator, Goto, CallRow, TypeInv, CallsOK
  <2>3. Seeding'
    BY <2>1, <2>2 DEF Seeding
  <2> QED
    BY <2>1, <2>3 DEF RecallInv, Heard
<1>2. CASE SeedLead(s)
  <2> DEFINE seeds == Seeds(call[s].conv)
  <2>1. UNCHANGED <<saved, orch, cmd>>
    BY <1>2 DEF SeedLead, dbVars, cmdVars
  <2>2. seeds \in Seq(Entries) /\ lead \in Seq(Entries)
    BY SeedIs, InHand DEF TypeInv, OrchOK
  <2>3. \/ lead' = seeds \o lead /\ forgotten' = forgotten \ Range(seeds)
        \/ forgotten' = forgotten \cup Range(seeds) /\ UNCHANGED lead
    BY <1>2 DEF SeedLead, SeedHistory
  <2>4. Range(seeds) = {Entry(m) : m \in Window(saved, call[s].conv)}
    BY WindowIs
  <2> HIDE DEF seeds
  <2>5. Heard \subseteq Heard' /\ Range(seeds) \subseteq Heard'
    <3>1. Range(seeds) \subseteq Range(seeds \o lead) /\ Range(lead) \subseteq Range(seeds \o lead)
      BY <2>2, RangeConcat
    <3> QED
      BY <2>3, <3>1 DEF Heard
  <2>6. CASE call[s].conv = orch.conv
    <3>1. \A m \in Window(saved, orch.conv) : KnownBy(m, cmd', Heard')
      BY <2>4, <2>5, <2>6 DEF KnownBy
    <3> QED
      BY <2>1, <2>5, <3>1 DEF RecallInv
  <2>7. CASE call[s].conv # orch.conv
    <3>1. Seeding => Seeding'
      BY <1>2, <2>1, <2>7, OthersStay DEF Step, Seeding
    <3> QED
      BY <2>1, <2>5, <3>1, RecallStill
  <2> QED
    BY <2>6, <2>7
<1> QED
  BY <1>1, <1>2

(* The calls that store or delete messages, or empty the history. *)
LEMMA RecallStores ==
    ASSUME TypeInv, RecallInv, Titled, NEW s \in Slots,
           Greet(s) \/ Wipe(s) \/ ResetContext(s) \/ Broadcast(s)
    PROVE  RecallInv'
<1>0. UNCHANGED <<orch, cmd>> /\ call[s].at # "seed"
  BY DEF Greet, Wipe, ResetContext, Broadcast, At, orchVars, cmdVars
<1>1. Seeding => Seeding'
  BY <1>0, OthersStay, SeedingStays DEF Step
<1>2. CASE Greet(s)
  <2> DEFINE m == [project |-> call[s].id, conv |-> call[s].conv, kind |-> "agent_message", cmd |-> None]
  <2>1. call[s].at = "greet" /\ saved' = Append(saved, m) /\ UNCHANGED <<lead, forgotten>>
    BY <1>2 DEF Greet, orchVars
  <2>2. m \in MessageRow(Len(convs)) /\ m.conv = call[s].conv
    BY InHand DEF MessageRow, Kinds
  <2>3. orch.conv # 0 => call[s].conv # orch.conv
    BY <2>1 DEF Titled, CallTitled, Is
  <2> HIDE DEF m
  <2>4. orch.conv # 0 => \A x \in Window(saved', orch.conv) : x \in Window(saved, orch.conv)
    BY <2>1, <2>2, <2>3, WindowAfter DEF TypeInv, SavedOK
  <2> QED
    BY <1>0, <1>1, <2>1, <2>4 DEF RecallInv, Heard
<1>3. CASE Wipe(s)
  <2>1. (saved' = <<>> \/ saved' = saved) /\ UNCHANGED <<lead, forgotten>>
    BY <1>3 DEF Wipe, orchVars
  <2>2. saved' = <<>> => \A conv : Window(saved', conv) = {}
    BY DEF Window, Latest, SaidIn
  <2> QED
    BY <1>0, <1>1, <2>1, <2>2 DEF RecallInv, Heard
<1>4. CASE ResetContext(s)
  <2>1. UNCHANGED saved /\ Heard \subseteq Heard'
    BY <1>4 DEF ResetContext, dbVars, Heard
  <2> QED
    BY <1>0, <1>1, <2>1, RecallStill
<1>5. CASE Broadcast(s)
  <2>1. Notify(None) /\ UNCHANGED <<lead, forgotten>>
    BY <1>5 DEF Broadcast, orchVars
  <2>2. PICK m \in MessageRow(Len(convs)) : m.kind = "notice" /\ saved' = Append(saved, m)
    BY <2>1, NotifyIs
  <2>3. m.kind \notin Recalled
    BY <2>2 DEF Recalled
  <2>4. \A x \in Window(saved', orch.conv) : x \in Window(saved, orch.conv)
    BY <2>2, <2>3, WindowAfter DEF TypeInv, SavedOK
  <2> QED
    BY <1>0, <1>1, <2>1, <2>4, RecallGoes DEF Heard
<1> QED
  BY <1>2, <1>3, <1>4, <1>5

(* A message that nobody needs to be told of. *)
LEMMA QuietMessage ==
    ASSUME TypeInv, NEW conv,
           \/ UNCHANGED saved
           \/ \E m \in MessageRow(Len(convs)) : m.kind \in {"event", "notice", "note"} /\ saved' = Append(saved, m)
    PROVE  \A x \in Window(saved', conv) : x \in Window(saved, conv) \/ x.kind = "note"
<1>1. ASSUME NEW m \in MessageRow(Len(convs)), m.kind \in {"event", "notice", "note"}, saved' = Append(saved, m),
             NEW x \in Window(saved', conv)
      PROVE  x \in Window(saved, conv) \/ x.kind = "note"
  <2>1. x \in Window(saved, conv) \/ (x = m /\ m.kind \in Recalled)
    BY <1>1, WindowAfter DEF TypeInv, SavedOK
  <2> QED
    BY <1>1, <2>1 DEF Recalled
<1> QED
  BY <1>1

(* A command speaks after it has been heard, at the latest when it is       *)
(* stored; its own message is known while it is being classified.           *)
LEMMA RecallCommands ==
    ASSUME TypeInv, RecallInv, NEW k \in Cmds,
           \/ SendBossCommand(k) \/ BeginTurn(k) \/ Answer(k) \/ Plan(k) \/ Reply(k)
           \/ HandOver(k) \/ NotifyTaskDone(k) \/ Finish(k)
    PROVE  RecallInv'
<1>0. UNCHANGED <<orch, forgotten, call>>
  BY DEF SendBossCommand, BeginTurn, Answer, Plan, Reply, HandOver, NotifyTaskDone, Finish, orchVars
<1>1. Seeding => Seeding'
  BY <1>0 DEF Seeding
<1>2. lead \in Seq(Entries) /\ <<"user", "boss_command", k>> \in Entries /\ Answered(k) \in Entries
  BY DEF TypeInv, OrchOK, Entries, Recalled, Answered
<1>3. cmd \in [Cmds -> Places]
  BY DEF TypeInv, CmdsOK
<1>4. CASE SendBossCommand(k)
  <2>1. Say("boss_command", k) /\ UNCHANGED lead /\ cmd[k] = "idle" /\ cmd' = [cmd EXCEPT ![k] = "classify"]
    BY <1>4 DEF SendBossCommand, orchVars
  <2>2. PICK m \in MessageRow(Len(convs)) : m.kind = "boss_command" /\ m.cmd = k /\ saved' = Append(saved, m)
    BY <2>1, SayIs DEF Kinds
  <2>3. KnownBy(m, cmd', Heard')
    BY <1>3, <2>1, <2>2 DEF KnownBy
  <2>4. \A x \in Window(saved', orch.conv) : x \in Window(saved, orch.conv) \/ KnownBy(x, cmd', Heard')
    BY <2>2, <2>3, WindowAfter DEF TypeInv, SavedOK
  <2>5. \A j \in Cmds : /\ cmd[j] = "classify" => cmd'[j] = "classify"
                        /\ cmd'[j] = "reply" => cmd[j] = "reply"
    BY <1>3, <2>1
  <2>6. Heard \subseteq Heard'
    BY <1>0, <2>1 DEF Heard
  <2> QED
    BY <1>0, <1>1, <2>4, <2>5, <2>6, RecallGoes
<1>5. CASE BeginTurn(k)
  <2>1. /\ lead' = Append(lead, <<"user", "boss_command", k>>) /\ UNCHANGED saved
        /\ cmd' = [cmd EXCEPT ![k] = "infer"]
    BY <1>5 DEF BeginTurn, dbVars
  <2>2. Heard \subseteq Heard' /\ <<"user", "boss_command", k>> \in Heard'
    BY <1>0, <1>2, <2>1, RangeAppend DEF Heard
  <2>3. \A j \in Cmds : /\ cmd[j] = "classify" => cmd'[j] = "classify" \/ j = k
                        /\ cmd'[j] = "reply" => cmd[j] = "reply"
    BY <1>3, <2>1
  <2> QED
    BY <1>0, <1>1, <2>1, <2>2, <2>3, RecallGoes
<1>6. CASE Answer(k)
  <2>1. /\ lead' = Append(lead, Answered(k)) /\ UNCHANGED saved
        /\ cmd[k] = "infer" /\ cmd' = [cmd EXCEPT ![k] = "reply"]
    BY <1>6 DEF Answer, dbVars, Answered
  <2>2. Heard \subseteq Heard' /\ Answered(k) \in Heard'
    BY <1>0, <1>2, <2>1, RangeAppend DEF Heard
  <2>3. \A j \in Cmds : /\ cmd[j] = "classify" => cmd'[j] = "classify"
                        /\ cmd'[j] = "reply" => cmd[j] = "reply" \/ j = k
    BY <1>3, <2>1
  <2> QED
    BY <1>0, <1>1, <2>1, <2>2, <2>3, RecallGoes
<1>7. CASE Plan(k)
  <2>1. UNCHANGED <<saved, lead>> /\ cmd[k] = "infer" /\ cmd' = [cmd EXCEPT ![k] = "work"]
    BY <1>7 DEF Plan, dbVars, orchVars
  <2>2. \A j \in Cmds : /\ cmd[j] = "classify" => cmd'[j] = "classify"
                        /\ cmd'[j] = "reply" => cmd[j] = "reply"
    BY <1>3, <2>1
  <2>3. Heard \subseteq Heard'
    BY <1>0, <2>1 DEF Heard
  <2> QED
    BY <1>0, <1>1, <2>1, <2>2, <2>3, RecallGoes
<1>8. CASE Reply(k)
  <2>1. Say("agent_message", k) /\ UNCHANGED lead /\ cmd[k] = "reply" /\ cmd' = [cmd EXCEPT ![k] = "ended"]
    BY <1>8 DEF Reply, orchVars
  <2>2. PICK m \in MessageRow(Len(convs)) : m.kind = "agent_message" /\ m.cmd = k /\ saved' = Append(saved, m)
    BY <2>1, SayIs DEF Kinds
  <2>3. Heard = Heard'
    BY <1>0, <2>1 DEF Heard
  <2>4. KnownBy(m, cmd', Heard')
    <3>1. Answered(k) \in Heard'
      BY <2>1, <2>3 DEF RecallInv
    <3> QED
      BY <2>2, <3>1 DEF KnownBy, Entry, Role, Answered
  <2>5. \A x \in Window(saved', orch.conv) : x \in Window(saved, orch.conv) \/ KnownBy(x, cmd', Heard')
    BY <2>2, <2>4, WindowAfter DEF TypeInv, SavedOK
  <2>6. \A j \in Cmds : /\ cmd[j] = "classify" => cmd'[j] = "classify"
                        /\ cmd'[j] = "reply" => cmd[j] = "reply"
    BY <1>3, <2>1
  <2> QED
    BY <1>0, <1>1, <2>3, <2>5, <2>6, RecallGoes
<1>9. CASE HandOver(k) \/ NotifyTaskDone(k)
  <2>1. UNCHANGED <<lead, cmd>> /\ (UNCHANGED saved \/ Say("note", k))
    BY <1>9 DEF HandOver, NotifyTaskDone, dbVars, orchVars, cmdVars
  <2>2. UNCHANGED saved \/ (\E m \in MessageRow(Len(convs)) : m.kind = "note" /\ saved' = Append(saved, m))
    BY <2>1, SayIs DEF Kinds
  <2>3. \A x \in Window(saved', orch.conv) : x \in Window(saved, orch.conv) \/ KnownBy(x, cmd', Heard')
    BY <2>2, QuietMessage DEF KnownBy
  <2>4. Heard \subseteq Heard'
    BY <1>0, <2>1 DEF Heard
  <2> QED
    BY <1>0, <1>1, <2>1, <2>3, <2>4, RecallGoes
<1>10. CASE Finish(k)
  <2>1. /\ UNCHANGED lead /\ cmd[k] \in {"infer", "work"} /\ cmd' = [cmd EXCEPT ![k] = "ended"]
        /\ UNCHANGED saved \/ Notify(k) \/ Say("event", k) \/ Say("note", k)
    BY <1>10 DEF Finish, orchVars
  <2>2. \/ UNCHANGED saved
        \/ \E m \in MessageRow(Len(convs)) : m.kind \in {"event", "notice", "note"} /\ saved' = Append(saved, m)
    BY <2>1, SayIs, NotifyIs DEF Kinds
  <2>3. \A x \in Window(saved', orch.conv) : x \in Window(saved, orch.conv) \/ KnownBy(x, cmd', Heard')
    BY <2>2, QuietMessage DEF KnownBy
  <2>4. \A j \in Cmds : /\ cmd[j] = "classify" => cmd'[j] = "classify"
                        /\ cmd'[j] = "reply" => cmd[j] = "reply"
    BY <1>3, <2>1
  <2>5. Heard \subseteq Heard'
    BY <1>0, <2>1 DEF Heard
  <2> QED
    BY <1>0, <1>1, <2>3, <2>4, <2>5, RecallGoes
<1> QED
  BY <1>4, <1>5, <1>6, <1>7, <1>8, <1>9, <1>10

LEMMA RecallCritique == ASSUME TypeInv, RecallInv, RunCritique PROVE RecallInv'
<1>1. UNCHANGED <<orch, lead, forgotten, call, cmd>>
  BY DEF RunCritique, orchVars
<1>2. UNCHANGED saved \/ (\E m \in MessageRow(Len(convs)) : m.kind = "note" /\ saved' = Append(saved, m))
  <2>1. CASE UNCHANGED saved
    BY <2>1
  <2>2. CASE Dispatch([project |-> critique.project, conv |-> critique.conv, kind |-> "note", cmd |-> None])
    <3>1. critique.project \in Projects \cup {None} /\ critique.conv \in 0..Len(convs)
      BY DEF TypeInv, CmdsOK, Critique
    <3> QED
      BY <2>2, <3>1, DispatchIs DEF Kinds
  <2> QED
    BY <2>1, <2>2 DEF RunCritique
<1>3. \A x \in Window(saved', orch.conv) : x \in Window(saved, orch.conv) \/ KnownBy(x, cmd', Heard')
  BY <1>2, QuietMessage DEF KnownBy
<1> QED
  BY <1>1, <1>3, RecallGoes DEF Heard, Seeding

LEMMA RecallStart == ASSUME TypeInv, Start PROVE RecallInv'
<1>1. PICK conv : /\ orch' = [project |-> file.project, conv |-> conv, bus |-> file.project]
                  /\ lead' = IF conv = 0 THEN <<>> ELSE Seeds(conv)
  BY DEF Start
<1>2. /\ cmd' = [k \in Cmds |-> IF cmd[k] = "idle" THEN "idle" ELSE "ended"]
      /\ forgotten' = {} /\ UNCHANGED saved
  BY DEF Start
<1>3. conv # 0 => \A m \in Window(saved, conv) : KnownBy(m, cmd', Heard')
  <2>1. Range(Seeds(conv)) = {Entry(m) : m \in Window(saved, conv)}
    BY WindowIs
  <2> QED
    BY <1>1, <2>1 DEF KnownBy, Heard
<1>4. \A k \in Cmds : cmd'[k] # "reply"
  BY <1>2
<1> QED
  BY <1>1, <1>2, <1>3, <1>4 DEF RecallInv

LEMMA RecallStep == ASSUME TypeInv, Titled, RecallInv, [Next]_vars PROVE RecallInv'
<1>1. ASSUME NEW s \in Slots, Open(s) \/ Step(s) PROVE RecallInv'
  BY <1>1, RecallCalls, RecallSeeds, RecallStores DEF Step
<1>2. ASSUME NEW k \in Cmds,
             \/ SendBossCommand(k) \/ BeginTurn(k) \/ Answer(k) \/ Plan(k) \/ Reply(k)
             \/ HandOver(k) \/ NotifyTaskDone(k) \/ Finish(k)
      PROVE  RecallInv'
  BY <1>2, RecallCommands
<1>3. CASE RunCritique \/ Start
  BY <1>3, RecallCritique, RecallStart
<1>4. CASE UNCHANGED vars
  BY <1>4, RecallStill DEF vars, dbVars, orchVars, cmdVars, Heard, Seeding
<1> QED
  BY <1>1, <1>2, <1>3, <1>4 DEF Next

(* However window calls, commands, broadcasts, failures and restarts        *)
(* interleave, the Lead has been told the last commands and replies of the  *)
(* conversation in which the orchestrator stores the next one, unless the   *)
(* history is just being seeded with them: a command that is still being    *)
(* classified is told when its turn begins, a reply before it is stored,    *)
(* and every way of changing the conversation seeds the history.  What a    *)
(* broadcast has emptied, or a failing query not brought, counts as         *)
(* forgotten until a switch or a start seeds it again.                      *)
THEOREM LeadRecalls == Spec => []ChannelRecalled
<1>1. Init => TypeInv /\ Titled /\ RecallInv
  <2> SUFFICES ASSUME Init PROVE Titled /\ RecallInv
    BY InitTypes
  <2>1. orch.conv = 0 /\ (\A s \in Slots : call[s] = NoCall) /\ (\A k \in Cmds : cmd[k] = "idle")
    BY DEF Init
  <2> QED
    BY <2>1 DEF Titled, CallTitled, NoCall, Call, RecallInv
<1>2. TypeInv /\ Titled /\ RecallInv /\ [Next]_vars => TypeInv' /\ Titled' /\ RecallInv'
  BY StepTypes, TitledStep, RecallStep
<1>3. TypeInv /\ RecallInv => ChannelRecalled
  <2> SUFFICES ASSUME TypeInv, RecallInv, orch.conv # 0,
                      \A s \in Slots : call[s].at = "seed" => call[s].conv # orch.conv
               PROVE  \A msg \in Range(ListConversationHistory(orch.conv, HistoryLimit)) : KnownBy(msg, cmd, Heard)
    BY DEF ChannelRecalled, KnownBy, Heard
  <2>1. ~Seeding
    BY DEF Seeding
  <2>2. Range(ListConversationHistory(orch.conv, HistoryLimit)) = Window(saved, orch.conv)
    BY WindowIs
  <2> QED
    BY <2>1, <2>2 DEF RecallInv
<1> QED
  BY <1>1, <1>2, <1>3, PTL DEF Spec


-----------------------------------------------------------------------------
(* One call of the window at a time.                                        *)

OneCall == \A s, t \in Slots : s = t

SwitchOps == {"create", "switch", "first_run"}

(* A project has one war-room conversation: the query and the insertion of  *)
(* GetOrCreateWarRoomConversation are two statements, but nothing of        *)
(* another call comes between them.                                        *)
OneConversation == \A p \in Projects : \A i, j \in Rows(p, "war-room") : i = j

(* A conversation is looked for by a switch, twice, or to be cached; until  *)
(* it looks, the first run has no project.                                  *)
Script(c) ==
    /\ c.at = "seed" => c.by = "orch"
    /\ c.at \in {"find", "make", "set", "seed"} =>
          \/ c.op \in SwitchOps /\ c.by \in {"orch", "service"}
          \/ c.op = "conversation" /\ c.by = "cache"
    /\ c.at = "write" => c.op \in SwitchOps \cup {"save", "reset"}
    /\ c.at = "greet" => c.op = "first_run" /\ c.conv # 0
    /\ c.at = "lookup" => c.id = None

(* A call that makes a conversation finds none, and one that sets it has it. *)
Looking(c) ==
    /\ c.at = "make" => Rows(c.id, "war-room") = {}
    /\ c.at = "set" => c.conv \in Rows(c.id, "war-room")

(* How far a switch has come: the row and the context have the project,     *)
(* the context has its conversation, the window and the configuration too.  *)
Told(c) == c.op \in SwitchOps /\ c.at \in {"find", "make", "set", "seed", "write", "open", "greet"}
Shown(c) == c.op \in SwitchOps /\ c.at \in {"write", "open", "greet"}
Joined(c) == Told(c) /\ (c.by = "service" \/ c.at = "seed" \/ Shown(c))

ToldTo(p) == active = {p} /\ orch.project = p /\ orch.bus = p
JoinedTo(p) == orch.conv \in Rows(p, "war-room")
ShownTo(p) == activeConv = orch.conv /\ cfg.project = p

Stage(c) ==
    /\ Script(c)
    /\ Told(c) => ToldTo(c.id)
    /\ Joined(c) => JoinedTo(c.id)
    /\ Shown(c) => ShownTo(c.id)

SwitchInv ==
    /\ OneConversation
    /\ \A s \in Slots : Looking(call[s]) /\ Stage(call[s])
    /\ SwitchTakesEffect

LEMMA NoCallOp == NoCall.at = "none" /\ NoCall.op = "none" /\ NoCall.by = "none"
BY DEF NoCall, Call

(* What is under way is the only call. *)
LEMMA Alone ==
    ASSUME OneCall, TypeInv, NEW s \in Slots, NEW c, call' = [call EXCEPT ![s] = c]
    PROVE  \A t \in Slots : t = s /\ call'[t] = c
BY DEF OneCall, TypeInv, CallsOK

(* A conversation more in a project. *)
LEMMA RowsGrow ==
    ASSUME TypeInv, NEW q, NEW title, convs' = Append(convs, <<q, title>>), UNCHANGED deleted,
           q \in Projects, title \in Titles
    PROVE  /\ \A p : Rows(p, "war-room")' =
                       Rows(p, "war-room") \cup (IF <<q, title>> = <<p, "war-room">> THEN {Len(convs) + 1} ELSE {})
           /\ Len(convs) + 1 # 0
<1>1. /\ convs' \in Seq(Projects \X Titles) /\ Len(convs') = Len(convs) + 1 /\ Len(convs) \in Nat
      /\ \A i \in 1..Len(convs) : convs'[i] = convs[i]
      /\ convs'[Len(convs) + 1] = <<q, title>>
      /\ deleted \in 0..Len(convs)
  BY AppendProperties DEF TypeInv, RowsOK
<1>2. \A i \in (deleted + 1)..Len(convs) : i \in 1..Len(convs) /\ i \in (deleted + 1)..(Len(convs) + 1)
  BY <1>1
<1>3. Len(convs) + 1 \in (deleted + 1)..(Len(convs) + 1)
  BY <1>1
<1>4. \A i \in (deleted + 1)..(Len(convs) + 1) : i \in (deleted + 1)..Len(convs) \/ i = Len(convs) + 1
  BY <1>1
<1> QED
  BY <1>1, <1>2, <1>3, <1>4 DEF Rows

(* Nothing but the rows of conversations says which they are. *)
LEMMA RowsStay ==
    ASSUME UNCHANGED <<convs, deleted>>
    PROVE  /\ \A p, title : Rows(p, title)' = Rows(p, title)
           /\ OneConversation => OneConversation'
BY DEF Rows, OneConversation

(* A call that ends leaves no stage. *)
LEMMA EndStage ==
    ASSUME OneCall, TypeInv, NEW s \in Slots, NEW ok, End(s, ok)
    PROVE  \A t \in Slots : Looking(call[t])' /\ Stage(call[t])'
<1>1. \A t \in Slots : call'[t].at = "none" /\ call'[t].op = "none"
  BY Alone, NoCallOp DEF End
<1> QED
  BY <1>1 DEF Looking, Stage, Script, Told, Joined, Shown, SwitchOps

(* ... and a call under way leaves nothing to claim of the last switch. *)
LEMMA NotQuiet ==
    ASSUME NEW s \in Slots, call'[s].at # "none"
    PROVE  SwitchTakesEffect'
BY NoCallOp DEF SwitchTakesEffect, Quiet

(* A call that has told nobody yet. *)
LEMMA EarlyStage ==
    ASSUME OneCall, TypeInv, NEW s \in Slots, NEW c, call' = [call EXCEPT ![s] = c],
           c.at \notin {"none", "find", "make", "set", "seed", "greet"}, c.at = "lookup" => c.id = None,
           c.op \notin SwitchOps \/ c.at \notin {"write", "open"},
           c.at = "write" => c.op \in {"save", "reset"}
    PROVE  (\A t \in Slots : Looking(call[t])' /\ Stage(call[t])') /\ SwitchTakesEffect'
<1>1. \A t \in Slots : call'[t] = c
  BY Alone
<1>2. \A t \in Slots : Looking(call[t])'
  BY <1>1 DEF Looking
<1>3. \A t \in Slots : Stage(call[t])'
  BY <1>1 DEF Stage, Script, Told, Joined, Shown
<1> QED
  BY <1>1, <1>2, <1>3, NotQuiet

(* The end of a switch: all sides have been told. *)
LEMMA EndShown ==
    ASSUME OneCall, TypeInv, SwitchInv, NEW s \in Slots, NEW ok, End(s, ok),
           \/ ok = FALSE
           \/ call[s].op \notin SwitchOps
           \/ call[s].id = None
           \/ /\ active = {call[s].id} /\ orch.project = call[s].id /\ orch.bus = call[s].id
              /\ orch.conv \in Rows(call[s].id, "war-room")
              /\ activeConv = orch.conv /\ cfg.project = call[s].id
              /\ UNCHANGED <<active, orch, activeConv, cfg, convs, deleted>>
    PROVE  SwitchTakesEffect'
<1>1. last' = [op |-> call[s].op, id |-> call[s].id, ok |-> ok]
  BY DEF End
<1>2. last'.op = call[s].op /\ last'.id = call[s].id /\ last'.ok = ok
  BY <1>1
<1>3. UNCHANGED <<convs, deleted>> => \A p : Rows(p, "war-room")' = Rows(p, "war-room")
  BY RowsStay
<1> QED
  BY <1>2, <1>3 DEF SwitchTakesEffect, SwitchOps

LEMMA SwitchOpen == ASSUME OneCall, TypeInv, SwitchInv, NEW s \in Slots, Open(s) PROVE SwitchInv'
<1>1. UNCHANGED <<convs, deleted>>
  BY DEF Open, dbVars
<1>2. ASSUME NEW op, NEW at, NEW id, call' = [call EXCEPT ![s] = Call(op, at, id)],
             at \in {"insert", "activate", "archive", "seek", "lock", "wipe_messages", "empty", "read"}
                \/ (at = "lookup" /\ id = None)
      PROVE  (\A t \in Slots : Looking(call[t])' /\ Stage(call[t])') /\ SwitchTakesEffect'
  <2> DEFINE c == Call(op, at, id)
  <2>1. c.at = at /\ c.op = op /\ c.id = id
    BY DEF Call
  <2>2. call' = [call EXCEPT ![s] = c]
    BY <1>2
  <2> HIDE DEF c
  <2>3. /\ c.at \notin {"none", "find", "make", "set", "seed", "greet", "write", "open"}
        /\ c.at = "lookup" => c.id = None
    BY <1>2, <2>1
  <2> QED
    BY <2>2, <2>3, EarlyStage
<1>3. (\A t \in Slots : Looking(call[t])' /\ Stage(call[t])') /\ SwitchTakesEffect'
  BY <1>2 DEF Open, NewProject
<1> QED
  BY <1>1, <1>3, RowsStay DEF SwitchInv

LEMMA SwitchCreateProject == ASSUME OneCall, TypeInv, SwitchInv, NEW s \in Slots, CreateProject(s) PROVE SwitchInv'
<1> DEFINE c == [call[s] EXCEPT !.at = "activate"]
<1>0. UNCHANGED <<convs, deleted>>
  BY DEF CreateProject
<1>1. CASE Goto(s, "activate")
  <2>1. call' = [call EXCEPT ![s] = c] /\ c.at = "activate"
    BY <1>1, InHand DEF Goto, CallRow
  <2> HIDE DEF c
  <2>2. (\A t \in Slots : Looking(call[t])' /\ Stage(call[t])') /\ SwitchTakesEffect'
    BY <2>1, EarlyStage
  <2> QED
    BY <1>0, <2>2, RowsStay DEF SwitchInv
<1>2. CASE End(s, FALSE)
  BY <1>0, <1>2, EndStage, EndShown, RowsStay DEF SwitchInv
<1> QED
  BY <1>1, <1>2 DEF CreateProject

LEMMA SwitchActivate == ASSUME OneCall, TypeInv, SwitchInv, NEW s \in Slots, Activate(s) PROVE SwitchInv'
<1> DEFINE p == call[s].id
           c == [call[s] EXCEPT !.at = "find", !.by = "orch"]
<1>0. call[s].op \in SwitchOps /\ UNCHANGED <<convs, deleted>>
  BY DEF Activate, At, SwitchOps
<1>1. CASE active' = {p} /\ orch' = [orch EXCEPT !.project = p, !.bus = p] /\ Enter(s, "find", "orch")
  <2>1. c.at = "find" /\ c.by = "orch" /\ c.op = call[s].op /\ c.id = p
    BY InHand DEF CallRow
  <2>2. call' = [call EXCEPT ![s] = c]
    BY <1>1 DEF Enter
  <2> HIDE DEF c
  <2>3. \A t \in Slots : call'[t] = c
    BY <2>2, Alone
  <2>4. active' = {p} /\ orch'.project = p /\ orch'.bus = p
    BY <1>1 DEF TypeInv, OrchOK, Context
  <2>5. \A t \in Slots : Looking(call[t])' /\ Stage(call[t])'
    BY <1>0, <2>1, <2>3, <2>4 DEF Looking, Stage, Script, Told, Joined, Shown, ToldTo
  <2>6. SwitchTakesEffect'
    BY <2>1, <2>3, NotQuiet
  <2> QED
    BY <1>0, <2>5, <2>6, RowsStay DEF SwitchInv
<1>2. CASE End(s, FALSE)
  BY <1>0, <1>2, EndStage, EndShown, RowsStay DEF SwitchInv
<1> QED
  BY <1>1, <1>2 DEF Activate, SetActiveProject

LEMMA SwitchFind == ASSUME OneCall, TypeInv, SwitchInv, NEW s \in Slots, Find(s) PROVE SwitchInv'
<1>0. call[s].at = "find" /\ UNCHANGED <<convs, deleted, active, orch, activeConv, cfg>>
  BY DEF Find, dbVars, serviceVars, orchVars
<1>1. Stage(call[s]) /\ \A p : Rows(p, "war-room")' = Rows(p, "war-room")
  BY <1>0, RowsStay DEF SwitchInv
<1>2. ASSUME NEW c, call' = [call EXCEPT ![s] = c], c.op = call[s].op, c.id = call[s].id, c.by = call[s].by,
             \/ c.at = "set" /\ c.conv \in Rows(c.id, "war-room")
             \/ c.at = "make" /\ Rows(c.id, "war-room") = {}
      PROVE  SwitchInv'
  <2>1. \A t \in Slots : call'[t] = c
    BY <1>2, Alone
  <2>2. c.at # "none"
    BY <1>2
  <2>3. \A t \in Slots : Looking(call[t])'
    BY <1>1, <1>2, <2>1 DEF Looking
  <2>4. \A t \in Slots : Stage(call[t])'
    BY <1>0, <1>1, <1>2, <2>1 DEF Stage, Script, Told, Joined, Shown, ToldTo, JoinedTo
  <2>5. SwitchTakesEffect'
    BY <2>1, <2>2, NotQuiet
  <2> QED
    BY <1>0, <2>3, <2>4, <2>5, RowsStay DEF SwitchInv
<1>3. ASSUME NEW i \in Rows(call[s].id, "war-room"), call' = [call EXCEPT ![s] = [@ EXCEPT !.at = "set", !.conv = i]]
      PROVE  SwitchInv'
  <2> DEFINE c == [call[s] EXCEPT !.at = "set", !.conv = i]
  <2>1. c.at = "set" /\ c.conv = i /\ c.op = call[s].op /\ c.id = call[s].id /\ c.by = call[s].by
    BY InHand DEF CallRow
  <2>2. call' = [call EXCEPT ![s] = c]
    BY <1>3
  <2> HIDE DEF c
  <2> QED
    BY <1>2, <2>1, <2>2
<1>4. ASSUME Rows(call[s].id, "war-room") = {}, Goto(s, "make") PROVE SwitchInv'
  <2> DEFINE c == [call[s] EXCEPT !.at = "make"]
  <2>1. c.at = "make" /\ c.op = call[s].op /\ c.id = call[s].id /\ c.by = call[s].by
    BY InHand DEF CallRow
  <2>2. call' = [call EXCEPT ![s] = c]
    BY <1>4 DEF Goto
  <2> HIDE DEF c
  <2> QED
    BY <1>2, <1>4, <2>1, <2>2
<1> QED
  BY <1>3, <1>4 DEF Find, GetConversationByTitle


LEMMA SwitchMake == ASSUME OneCall, TypeInv, SwitchInv, NEW s \in Slots, Make(s) PROVE SwitchInv'
<1> DEFINE n == Len(convs) + 1
           c == [call[s] EXCEPT !.at = "set", !.conv = n]
<1>0. /\ call[s].at = "make" /\ convs' = Append(convs, <<call[s].id, "war-room">>)
      /\ call' = [call EXCEPT ![s] = c]
      /\ UNCHANGED <<deleted, active, orch, activeConv, cfg>>
  BY DEF Make, serviceVars, orchVars
<1>1. call[s].id \in Projects
  BY <1>0, InHand DEF Formed
<1>2. \A p : Rows(p, "war-room")' =
               Rows(p, "war-room") \cup (IF <<call[s].id, "war-room">> = <<p, "war-room">> THEN {n} ELSE {})
  BY <1>0, <1>1, RowsGrow DEF Titles
<1>3. Rows(call[s].id, "war-room") = {} /\ Stage(call[s])
  BY <1>0 DEF SwitchInv, Looking
<1>4. c.at = "set" /\ c.conv = n /\ c.op = call[s].op /\ c.id = call[s].id /\ c.by = call[s].by
  BY InHand DEF CallRow
<1> HIDE DEF c, n
<1>5. \A t \in Slots : call'[t] = c
  BY <1>0, Alone
<1>6. \A t \in Slots : Looking(call[t])'
  BY <1>2, <1>4, <1>5 DEF Looking
<1>7. \A t \in Slots : Stage(call[t])'
  BY <1>0, <1>2, <1>3, <1>4, <1>5 DEF Stage, Script, Told, Joined, Shown, ToldTo, JoinedTo
<1>8. OneConversation'
  BY <1>2, <1>3 DEF SwitchInv, OneConversation
<1>9. SwitchTakesEffect'
  BY <1>4, <1>5, NotQuiet
<1> QED
  BY <1>6, <1>7, <1>8, <1>9 DEF SwitchInv

LEMMA SwitchSetOrchestrator == ASSUME OneCall, TypeInv, SwitchInv, NEW s \in Slots, SetOrchestrator(s) PROVE SwitchInv'
<1> DEFINE c == [call[s] EXCEPT !.at = "seed"]
<1>0. /\ call[s].at = "set" /\ call[s].by = "orch" /\ orch' = [orch EXCEPT !.conv = call[s].conv]
      /\ call' = [call EXCEPT ![s] = c]
      /\ UNCHANGED <<convs, deleted, active, activeConv, cfg>>
  BY DEF SetOrchestrator, Goto, dbVars, serviceVars
<1>1. call[s].conv \in Rows(call[s].id, "war-room") /\ Stage(call[s])
  BY <1>0 DEF SwitchInv, Looking
<1>2. c.at = "seed" /\ c.op = call[s].op /\ c.id = call[s].id /\ c.by = call[s].by
  BY InHand DEF CallRow
<1>3. orch'.conv = call[s].conv /\ orch'.project = orch.project /\ orch'.bus = orch.bus
  BY <1>0 DEF TypeInv, OrchOK, Context
<1>4. \A p : Rows(p, "war-room")' = Rows(p, "war-room")
  BY <1>0, RowsStay
<1> HIDE DEF c
<1>5. \A t \in Slots : call'[t] = c
  BY <1>0, Alone
<1>6. \A t \in Slots : Looking(call[t])'
  BY <1>2, <1>5 DEF Looking
<1>7. \A t \in Slots : Stage(call[t])'
  BY <1>0, <1>1, <1>2, <1>3, <1>4, <1>5 DEF Stage, Script, Told, Joined, Shown, ToldTo, JoinedTo
<1>8. SwitchTakesEffect'
  BY <1>2, <1>5, NotQuiet
<1> QED
  BY <1>0, <1>6, <1>7, <1>8, RowsStay DEF SwitchInv

LEMMA SwitchSeedLead == ASSUME OneCall, TypeInv, SwitchInv, NEW s \in Slots, SeedLead(s) PROVE SwitchInv'
<1> DEFINE c == [call[s] EXCEPT !.at = "find", !.by = "service"]
<1>0. /\ call[s].at = "seed" /\ call' = [call EXCEPT ![s] = c]
      /\ UNCHANGED <<convs, deleted, active, orch, activeConv, cfg>>
  BY DEF SeedLead, Enter, dbVars, serviceVars
<1>1. Stage(call[s])
  BY DEF SwitchInv
<1>2. c.at = "find" /\ c.op = call[s].op /\ c.id = call[s].id /\ c.by = "service"
  BY InHand DEF CallRow
<1>3. \A p : Rows(p, "war-room")' = Rows(p, "war-room")
  BY <1>0, RowsStay
<1> HIDE DEF c
<1>4. \A t \in Slots : call'[t] = c
  BY <1>0, Alone
<1>5. \A t \in Slots : Looking(call[t])'
  BY <1>2, <1>4 DEF Looking
<1>6. \A t \in Slots : Stage(call[t])'
  BY <1>0, <1>1, <1>2, <1>3, <1>4 DEF Stage, Script, Told, Joined, Shown, ToldTo, JoinedTo
<1>7. SwitchTakesEffect'
  BY <1>2, <1>4, NotQuiet
<1> QED
  BY <1>0, <1>5, <1>6, <1>7, RowsStay DEF SwitchInv

LEMMA SwitchSetService == ASSUME OneCall, TypeInv, SwitchInv, NEW s \in Slots, SetService(s) PROVE SwitchInv'
<1> DEFINE new == [cfg EXCEPT !.project = call[s].id]
           c == [call[s] EXCEPT !.at = "write", !.copy = new]
<1>0. /\ call[s].at = "set" /\ call[s].by = "service" /\ activeConv' = call[s].conv /\ cfg' = new
      /\ call' = [call EXCEPT ![s] = c]
      /\ UNCHANGED <<convs, deleted, active, orch>>
  BY DEF SetService, dbVars, orchVars
<1>1. call[s].conv \in Rows(call[s].id, "war-room") /\ Stage(call[s]) /\ call[s].id \in Projects
  BY <1>0, InHand DEF SwitchInv, Looking, Formed
<1>2. c.at = "write" /\ c.op = call[s].op /\ c.id = call[s].id /\ c.by = "service"
  BY <1>0, InHand DEF CallRow
<1>3. cfg'.project = call[s].id
  BY <1>0 DEF TypeInv, ServiceOK, Configs
<1>4. \A p : Rows(p, "war-room")' = Rows(p, "war-room")
  BY <1>0, RowsStay
<1>5. call[s].op \in SwitchOps /\ ToldTo(call[s].id) /\ orch.conv \in Rows(call[s].id, "war-room")
  BY <1>0, <1>1 DEF Stage, Script, Told, Joined, JoinedTo
<1>6. activeConv' = orch'.conv
  BY <1>0, <1>1, <1>5 DEF SwitchInv, OneConversation
<1> HIDE DEF c, new
<1>7. \A t \in Slots : call'[t] = c
  BY <1>0, Alone
<1>8. \A t \in Slots : Looking(call[t])'
  BY <1>2, <1>7 DEF Looking
<1>9. \A t \in Slots : Stage(call[t])'
  BY <1>0, <1>2, <1>3, <1>4, <1>5, <1>6, <1>7 DEF Stage, Script, Told, Joined, Shown, ToldTo, JoinedTo, ShownTo
<1>10. SwitchTakesEffect'
  BY <1>2, <1>7, NotQuiet
<1> QED
  BY <1>0, <1>8, <1>9, <1>10, RowsStay DEF SwitchInv

(* What a switch that has been shown has brought about. *)
LEMMA ShownIs ==
    ASSUME SwitchInv, NEW s \in Slots, Shown(call[s])
    PROVE  ToldTo(call[s].id) /\ JoinedTo(call[s].id) /\ ShownTo(call[s].id)
BY DEF SwitchInv, Stage, Told, Joined, Shown

LEMMA SwitchWriteConfig == ASSUME OneCall, TypeInv, SwitchInv, NEW s \in Slots, WriteConfig(s) PROVE SwitchInv'
<1>0. call[s].at = "write" /\ UNCHANGED <<convs, deleted, active, orch, activeConv, cfg>>
  BY DEF WriteConfig, dbVars, orchVars
<1>1. call[s].op \in SwitchOps => ToldTo(call[s].id) /\ JoinedTo(call[s].id) /\ ShownTo(call[s].id)
  BY <1>0, ShownIs DEF Shown
<1>2. CASE call[s].op = "first_run"
  <2> DEFINE c == [call[s] EXCEPT !.at = "open"]
  <2>1. c.at = "open" /\ c.op = call[s].op /\ c.id = call[s].id
    BY InHand DEF CallRow
  <2>2. call' = [call EXCEPT ![s] = c]
    BY <1>2 DEF WriteConfig, Goto
  <2> HIDE DEF c
  <2>3. \A t \in Slots : call'[t] = c
    BY <2>2, Alone
  <2>4. \A p : Rows(p, "war-room")' = Rows(p, "war-room")
    BY <1>0, RowsStay
  <2>5. ToldTo(call[s].id) /\ JoinedTo(call[s].id) /\ ShownTo(call[s].id)
    BY <1>1, <1>2 DEF SwitchOps
  <2>6. \A t \in Slots : Looking(call[t])'
    BY <2>1, <2>3 DEF Looking
  <2>7. \A t \in Slots : Stage(call[t])'
    BY <1>0, <2>1, <2>3, <2>4, <2>5 DEF Stage, Script, Told, Joined, Shown, ToldTo, JoinedTo, ShownTo
  <2>8. SwitchTakesEffect'
    BY <2>1, <2>3, NotQuiet
  <2> QED
    BY <1>0, <2>6, <2>7, <2>8, RowsStay DEF SwitchInv
<1>3. CASE call[s].op # "first_run"
  <2>1. End(s, TRUE)
    BY <1>3 DEF WriteConfig
  <2>2. SwitchTakesEffect'
    BY <1>0, <1>1, <2>1, EndShown DEF ToldTo, JoinedTo, ShownTo
  <2> QED
    BY <1>0, <2>1, <2>2, EndStage, RowsStay DEF SwitchInv
<1> QED
  BY <1>2, <1>3

LEMMA SwitchGetActiveProject == ASSUME OneCall, TypeInv, SwitchInv, NEW s \in Slots, GetActiveProject(s) PROVE SwitchInv'
<1>0. call[s].op = "conversation" /\ UNCHANGED <<convs, deleted>>
  BY DEF GetActiveProject, At, dbVars
<1>1. CASE End(s, TRUE)
  BY <1>0, <1>1, EndStage, EndShown, RowsStay DEF SwitchInv, SwitchOps
<1>2. ASSUME NEW p, call' = [call EXCEPT ![s] = [@ EXCEPT !.at = "find", !.by = "cache", !.id = p]]
      PROVE  SwitchInv'
  <2> DEFINE c == [call[s] EXCEPT !.at = "find", !.by = "cache", !.id = p]
  <2>1. c.at = "find" /\ c.by = "cache" /\ c.op = "conversation"
    BY <1>0, InHand DEF CallRow
  <2>2. call' = [call EXCEPT ![s] = c]
    BY <1>2
  <2> HIDE DEF c
  <2>3. \A t \in Slots : call'[t] = c
    BY <2>2, Alone
  <2>4. \A t \in Slots : Looking(call[t])' /\ Stage(call[t])'
    BY <2>1, <2>3 DEF Looking, Stage, Script, Told, Joined, Shown, SwitchOps
  <2>5. SwitchTakesEffect'
    BY <2>1, <2>3, NotQuiet
  <2> QED
    BY <1>0, <2>4, <2>5, RowsStay DEF SwitchInv
<1> QED
  BY <1>1, <1>2 DEF GetActiveProject

LEMMA SwitchSetCache == ASSUME OneCall, TypeInv, SwitchInv, NEW s \in Slots, SetCache(s) PROVE SwitchInv'
<1>0. call[s].at = "set" /\ call[s].by = "cache" /\ End(s, TRUE) /\ UNCHANGED <<convs, deleted>>
  BY DEF SetCache, dbVars
<1>1. call[s].op \notin SwitchOps
  BY <1>0 DEF SwitchInv, Stage, Script, SwitchOps
<1> QED
  BY <1>0, <1>1, EndStage, EndShown, RowsStay DEF SwitchInv

LEMMA SwitchArchiveProject == ASSUME OneCall, TypeInv, SwitchInv, NEW s \in Slots, ArchiveProject(s) PROVE SwitchInv'
<1>0. call[s].op \notin SwitchOps /\ End(s, TRUE) /\ UNCHANGED <<convs, deleted>>
  BY DEF ArchiveProject, At, SwitchOps
<1> QED
  BY <1>0, EndStage, EndShown, RowsStay DEF SwitchInv

LEMMA SwitchSeekDM == ASSUME OneCall, TypeInv, SwitchInv, NEW s \in Slots, SeekDM(s) PROVE SwitchInv'
<1> DEFINE c == [call[s] EXCEPT !.at = "open", !.id = CHOOSE p \in active : TRUE]
<1>0. call[s].op = "dm" /\ UNCHANGED <<convs, deleted>>
  BY DEF SeekDM, At, dbVars
<1>1. ASSUME NEW ok, End(s, ok) PROVE SwitchInv'
  BY <1>0, <1>1, EndStage, EndShown, RowsStay DEF SwitchInv, SwitchOps
<1>2. ASSUME call' = [call EXCEPT ![s] = c] PROVE SwitchInv'
  <2>1. c.at = "open" /\ c.op = "dm"
    BY <1>0, InHand DEF CallRow
  <2> HIDE DEF c
  <2>2. (\A t \in Slots : Looking(call[t])' /\ Stage(call[t])') /\ SwitchTakesEffect'
    BY <1>2, <2>1, EarlyStage DEF SwitchOps
  <2> QED
    BY <1>0, <2>2, RowsStay DEF SwitchInv
<1> QED
  BY <1>1, <1>2 DEF SeekDM

LEMMA SwitchOpenDM == ASSUME OneCall, TypeInv, SwitchInv, NEW s \in Slots, OpenDM(s) PROVE SwitchInv'
<1>0. /\ call[s].at = "open" /\ convs' = Append(convs, <<call[s].id, "dm">>)
      /\ UNCHANGED <<deleted, active, orch, activeConv, cfg>>
  BY DEF OpenDM, serviceVars, orchVars
<1>1. call[s].id \in Projects
  BY <1>0, InHand DEF Formed
<1>2. (\A p : Rows(p, "war-room")' = Rows(p, "war-room")) /\ Len(convs) + 1 # 0
  <2>1. \A p : <<call[s].id, "dm">> # <<p, "war-room">>
    OBVIOUS
  <2> QED
    BY <1>0, <1>1, <2>1, RowsGrow DEF Titles
<1>3. OneConversation'
  BY <1>2 DEF SwitchInv, OneConversation
<1>4. call[s].op \in SwitchOps => ToldTo(call[s].id) /\ JoinedTo(call[s].id) /\ ShownTo(call[s].id)
  BY <1>0, ShownIs DEF Shown
<1>5. CASE call[s].op = "first_run"
  <2> DEFINE c == [call[s] EXCEPT !.at = "greet", !.conv = Len(convs) + 1]
  <2>1. c.at = "greet" /\ c.op = "first_run" /\ c.id = call[s].id /\ c.conv # 0
    BY <1>2, <1>5, InHand DEF CallRow
  <2>2. call' = [call EXCEPT ![s] = c]
    BY <1>5 DEF OpenDM
  <2> HIDE DEF c
  <2>3. \A t \in Slots : call'[t] = c
    BY <2>2, Alone
  <2>4. ToldTo(call[s].id) /\ JoinedTo(call[s].id) /\ ShownTo(call[s].id)
    BY <1>4, <1>5 DEF SwitchOps
  <2>5. \A t \in Slots : Looking(call[t])'
    BY <2>1, <2>3 DEF Looking
  <2>6. \A t \in Slots : Stage(call[t])'
    BY <1>0, <1>2, <2>1, <2>3, <2>4 DEF Stage, Script, Told, Joined, Shown, ToldTo, JoinedTo, ShownTo
  <2>7. SwitchTakesEffect'
    BY <2>1, <2>3, NotQuiet
  <2> QED
    BY <1>3, <2>5, <2>6, <2>7 DEF SwitchInv
<1>6. CASE call[s].op # "first_run"
  <2>1. End(s, TRUE)
    BY <1>6 DEF OpenDM
  <2>2. SwitchTakesEffect'
    <3>1. last'.op = call[s].op /\ last'.id = call[s].id
      BY <2>1 DEF End
    <3> QED
      BY <1>0, <1>2, <1>4, <3>1 DEF SwitchTakesEffect, SwitchOps, ToldTo, JoinedTo, ShownTo
  <2> QED
    BY <1>3, <2>1, <2>2, EndStage DEF SwitchInv
<1> QED
  BY <1>5, <1>6

LEMMA SwitchInitFirstRun == ASSUME OneCall, TypeInv, SwitchInv, NEW s \in Slots, InitFirstRun(s) PROVE SwitchInv'
<1>0. call[s].at = "lookup" /\ UNCHANGED <<convs, deleted>>
  BY DEF InitFirstRun, At, dbVars
<1>1. call[s].id = None
  BY <1>0 DEF SwitchInv, Stage, Script
<1>2. CASE End(s, TRUE)
  BY <1>0, <1>1, <1>2, EndStage, EndShown, RowsStay DEF SwitchInv
<1>3. ASSUME NEW p, call' = [call EXCEPT ![s] = [@ EXCEPT !.at = "insert", !.id = p]] PROVE SwitchInv'
  <2> DEFINE c == [call[s] EXCEPT !.at = "insert", !.id = p]
  <2>1. c.at = "insert"
    BY InHand DEF CallRow
  <2>2. call' = [call EXCEPT ![s] = c]
    BY <1>3
  <2> HIDE DEF c
  <2>3. (\A t \in Slots : Looking(call[t])' /\ Stage(call[t])') /\ SwitchTakesEffect'
    BY <2>1, <2>2, EarlyStage
  <2> QED
    BY <1>0, <2>3, RowsStay DEF SwitchInv
<1> QED
  BY <1>2, <1>3 DEF InitFirstRun

LEMMA SwitchGreet == ASSUME OneCall, TypeInv, SwitchInv, NEW s \in Slots, Greet(s) PROVE SwitchInv'
<1>0. call[s].at = "greet" /\ End(s, TRUE) /\ UNCHANGED <<convs, deleted, active, orch, activeConv, cfg>>
  BY DEF Greet, serviceVars, orchVars
<1>1. call[s].op \in SwitchOps => ToldTo(call[s].id) /\ JoinedTo(call[s].id) /\ ShownTo(call[s].id)
  BY <1>0, ShownIs DEF Shown
<1>2. SwitchTakesEffect'
  BY <1>0, <1>1, EndShown DEF ToldTo, JoinedTo, ShownTo
<1> QED
  BY <1>0, <1>2, EndStage, RowsStay DEF SwitchInv

LEMMA SwitchSaveConfig == ASSUME OneCall, TypeInv, SwitchInv, NEW s \in Slots, SaveConfig(s) \/ ResetConfig(s) PROVE SwitchInv'
<1>1. PICK new : call' = [call EXCEPT ![s] = [@ EXCEPT !.at = "write", !.copy = new]]
  BY DEF SaveConfig, ResetConfig
<1>2. call[s].op \in {"save", "reset"} /\ UNCHANGED <<convs, deleted>>
  BY DEF SaveConfig, ResetConfig, At, dbVars
<1> DEFINE c == [call[s] EXCEPT !.at = "write", !.copy = new]
<1>3. c.at = "write" /\ c.op \in {"save", "reset"}
  BY <1>2, InHand DEF CallRow
<1>4. call' = [call EXCEPT ![s] = c]
  BY <1>1
<1> HIDE DEF c
<1>5. (\A t \in Slots : Looking(call[t])' /\ Stage(call[t])') /\ SwitchTakesEffect'
  BY <1>3, <1>4, EarlyStage DEF SwitchOps
<1> QED
  BY <1>2, <1>5, RowsStay DEF SwitchInv

LEMMA SwitchWipe ==
    ASSUME OneCall, TypeInv, SwitchInv, NEW s \in Slots, Wipe(s) \/ ResetContext(s) PROVE SwitchInv'
<1>1. PICK at \in {"wipe_conversations", "wipe_projects", "defaults", "tell"} : Goto(s, at)
  BY DEF Wipe, ResetContext
<1> DEFINE c == [call[s] EXCEPT !.at = at]
<1>2. c.at = at
  BY InHand DEF CallRow
<1>3. call' = [call EXCEPT ![s] = c]
  BY <1>1 DEF Goto
<1> HIDE DEF c
<1>4. (\A t \in Slots : Looking(call[t])' /\ Stage(call[t])') /\ SwitchTakesEffect'
  BY <1>2, <1>3, EarlyStage
<1>5. OneConversation'
  <2>1. CASE UNCHANGED <<convs, deleted>>
    BY <2>1, RowsStay DEF SwitchInv
  <2>2. CASE UNCHANGED convs /\ deleted' = Len(convs)
    <3>1. (deleted' + 1)..Len(convs') = {}
      BY <2>2, InHand
    <3> QED
      BY <3>1 DEF OneConversation, Rows
  <2> QED
    BY <2>1, <2>2 DEF Wipe, ResetContext, dbVars
<1> QED
  BY <1>4, <1>5 DEF SwitchInv

LEMMA SwitchBroadcast == ASSUME OneCall, TypeInv, SwitchInv, NEW s \in Slots, Broadcast(s) PROVE SwitchInv'
<1>0. call[s].op = "broadcast" /\ End(s, TRUE) /\ UNCHANGED <<convs, deleted>>
  BY DEF Broadcast, At
<1>1. call[s].op \notin SwitchOps
  BY <1>0 DEF SwitchOps
<1> QED
  BY <1>0, <1>1, EndStage, EndShown, RowsStay DEF SwitchInv

LEMMA SwitchFail == ASSUME OneCall, TypeInv, SwitchInv, NEW s \in Slots, Fail(s) PROVE SwitchInv'
<1>0. End(s, FALSE) /\ UNCHANGED <<convs, deleted>>
  BY DEF Fail, dbVars
<1> QED
  BY <1>0, EndStage, EndShown, RowsStay DEF SwitchInv

(* Nothing that the claims are about has changed. *)
LEMMA SwitchStill ==
    ASSUME SwitchInv, UNCHANGED <<convs, deleted, active, orch, activeConv, cfg, call, last>>
    PROVE  SwitchInv'
BY DEF SwitchInv, OneConversation, Rows, Looking, Stage, Script, Told, Joined, Shown, ToldTo, JoinedTo, ShownTo,
       SwitchTakesEffect, Quiet

(* A start leaves no call, and makes a conversation only where there is none. *)
LEMMA SwitchStart == ASSUME TypeInv, SwitchInv, Start PROVE SwitchInv'
<1> DEFINE p == file.project
           new == Rows(p, "war-room") = {} /\ p # None
<1>1. /\ convs' = IF new THEN Append(convs, <<p, "war-room">>) ELSE convs
      /\ call' = [s \in Slots |-> NoCall] /\ last'.ok = FALSE /\ UNCHANGED deleted
  BY DEF Start
<1>2. \A t \in Slots : call'[t].at = "none" /\ call'[t].op = "none"
  BY <1>1, NoCallOp
<1>3. \A t \in Slots : Looking(call[t])' /\ Stage(call[t])'
  BY <1>2 DEF Looking, Stage, Script, Told, Joined, Shown, SwitchOps
<1>4. OneConversation'
  <2>1. CASE new
    <3>1. p \in Projects
      BY <2>1 DEF TypeInv, ServiceOK, Configs
    <3>2. \A q : Rows(q, "war-room")' =
                   Rows(q, "war-room") \cup (IF <<p, "war-room">> = <<q, "war-room">> THEN {Len(convs) + 1} ELSE {})
      BY <1>1, <2>1, <3>1, RowsGrow DEF Titles
    <3> QED
      BY <2>1, <3>2 DEF SwitchInv, OneConversation
  <2>2. CASE ~new
    BY <1>1, <2>2, RowsStay DEF SwitchInv
  <2> QED
    BY <2>1, <2>2
<1>5. SwitchTakesEffect'
  BY <1>1 DEF SwitchTakesEffect
<1> QED
  BY <1>3, <1>4, <1>5 DEF SwitchInv

LEMMA SwitchStep == ASSUME OneCall, TypeInv, SwitchInv, [Next]_vars PROVE SwitchInv'
<1>1. ASSUME NEW s \in Slots, Open(s) \/ Step(s) PROVE SwitchInv'
  BY <1>1, SwitchOpen, SwitchCreateProject, SwitchActivate, SwitchFind, SwitchMake, SwitchSetOrchestrator,
     SwitchSetService, SwitchWriteConfig, SwitchGetActiveProject, SwitchSetCache, SwitchArchiveProject,
     SwitchSeekDM, SwitchOpenDM, SwitchInitFirstRun, SwitchGreet, SwitchSaveConfig, SwitchWipe, SwitchFail,
     SwitchSeedLead, SwitchBroadcast
     DEF Step
<1>2. ASSUME RunCritique \/ \E k \in Cmds :
                \/ SendBossCommand(k) \/ BeginTurn(k) \/ Answer(k) \/ Plan(k) \/ Reply(k)
                \/ HandOver(k) \/ NotifyTaskDone(k) \/ Finish(k)
      PROVE  SwitchInv'
  <2>1. UNCHANGED <<convs, deleted, active, orch, activeConv, cfg, call, last>>
    BY <1>2 DEF RunCritique, SendBossCommand, BeginTurn, Answer, Plan, Reply, HandOver, NotifyTaskDone, Finish,
       dbVars, serviceVars, orchVars
  <2> QED
    BY <2>1, SwitchStill
<1>3. CASE Start
  BY <1>3, SwitchStart
<1>4. CASE UNCHANGED vars
  BY <1>4, SwitchStill DEF vars, dbVars, serviceVars, orchVars
<1> QED
  BY <1>1, <1>2, <1>3, <1>4 DEF Next

LEMMA SwitchInit == Init => SwitchInv
<1> SUFFICES ASSUME Init PROVE SwitchInv
  OBVIOUS
<1>1. \A t \in Slots : call[t].at = "none" /\ call[t].op = "none"
  BY NoCallOp DEF Init
<1>2. \A t \in Slots : Looking(call[t]) /\ Stage(call[t])
  BY <1>1 DEF Looking, Stage, Script, Told, Joined, Shown, SwitchOps
<1>3. OneConversation
  BY DEF Init, OneConversation, Rows
<1>4. SwitchTakesEffect
  BY DEF Init, SwitchTakesEffect
<1> QED
  BY <1>2, <1>3, <1>4 DEF SwitchInv

(* When the window makes one call at a time, a switch that ends well leaves *)
(* the row, the window, both contexts and the configuration agreed on the   *)
(* project and its one conversation, whatever failed, restarted or was said *)
(* before or meanwhile; two switches at once need not, and that is the      *)
(* hypothesis.                                                              *)
THEOREM SwitchesTakeEffect ==
    ASSUME OneCall
    PROVE  Spec => []SwitchTakesEffect
<1>1. Init => TypeInv /\ SwitchInv
  BY InitTypes, SwitchInit
<1>2. TypeInv /\ SwitchInv /\ [Next]_vars => TypeInv' /\ SwitchInv'
  BY StepTypes, SwitchStep
<1>3. TypeInv /\ SwitchInv => SwitchTakesEffect
  BY DEF SwitchInv
<1> QED
  BY <1>1, <1>2, <1>3, PTL DEF Spec


-----------------------------------------------------------------------------
(* The conversation of a message, when nothing fails.                       *)

(* A switch that has not come to the context, or to the configuration, or   *)
(* to the file.                                                             *)
Joining(c) == c.op \in SwitchOps /\ (c.at = "activate" \/ (c.at \in {"find", "make", "set"} /\ c.by = "orch"))
Showing(c) == c.op \in SwitchOps /\ c.at \in {"activate", "find", "make", "set", "seed"}
Writing(c) == c.op \in SwitchOps /\ c.at \in {"activate", "find", "make", "set", "seed", "write"}

(* What a call in hand knows of the active project. *)
Knows(c) ==
    /\ c.at = "activate" => c.id \in Range(listed)
    /\ c.by = "cache" => orch.conv # 0
    /\ c.at = "write" /\ c.op \in SwitchOps => c.copy.project = c.id
    /\ c.at = "write" /\ c.op = "save" => c.copy.project = cfg.project
    /\ c.at = "defaults" => active = {}
    /\ c.at = "write" /\ c.op = "reset" => active = {}

(* An active project has a conversation in the context, a name in the       *)
(* configuration and in the file, or a switch is about to see to it.        *)
Busy == {"classify", "infer", "reply", "work"}
Housed(rows) == \A i \in DOMAIN rows : rows[i].conv = 0 => rows[i].kind = "notice"
Home ==
    /\ Housed(saved)
    /\ critique = NoCritique \/ critique.conv # 0
    /\ \A k \in Cmds : cmd[k] \in Busy => orch.conv # 0
    /\ activeConv # 0 => orch.conv # 0
    /\ active # {} => orch.conv # 0 \/ \E s \in Slots : Joining(call[s])
    /\ active # {} => cfg.project # None \/ \E s \in Slots : Showing(call[s])
    /\ active # {} => file.project # None \/ \E s \in Slots : Writing(call[s])
    /\ \A s \in Slots : Knows(call[s])

HomeInv == count.fails = 0 => Home

(* The orchestrator's conversation, once it has one, is one. *)
LEMMA FoundIs ==
    ASSUME TypeInv, SwitchInv, NEW s \in Slots, call[s].at = "set"
    PROVE  call[s].conv # 0 /\ call[s].id \in Projects /\ call[s].id # None
<1>1. call[s].conv \in Rows(call[s].id, "war-room") /\ call[s].id \in Projects
  BY InHand DEF SwitchInv, Looking, Formed
<1>2. deleted \in Nat
  BY DEF TypeInv, RowsOK
<1> QED
  BY <1>1, <1>2, WorkspaceAssumption DEF Rows

(* What a stage of a switch is owed outlives a call that is not a switch. *)
LEMMA HomeEnd ==
    ASSUME OneCall, TypeInv, Home, NEW s \in Slots, NEW ok, End(s, ok), ~Writing(call[s]),
           UNCHANGED <<saved, cmd, critique, orch, cfg, file>>, active' \subseteq active,
           activeConv' # 0 => orch.conv # 0
    PROVE  Home'
<1>1. \A t \in Slots : t = s
  BY DEF OneCall
<1>2. \A t \in Slots : call'[t].at = "none" /\ call'[t].by = "none"
  BY Alone, NoCallOp DEF End
<1>3. ~Joining(call[s]) /\ ~Showing(call[s])
  BY DEF Writing, Showing, Joining
<1>4. \A t \in Slots : Knows(call[t])'
  BY <1>2 DEF Knows
<1>5. active # {} => orch.conv # 0 /\ cfg.project # None /\ file.project # None
  BY <1>1, <1>3 DEF Home
<1> QED
  BY <1>4, <1>5 DEF Home

(* A call that goes on and still owes what it owed. *)
LEMMA HomeGoes ==
    ASSUME OneCall, TypeInv, Home, NEW s \in Slots, NEW c, call' = [call EXCEPT ![s] = c],
           Joining(call[s]) => Joining(c), Showing(call[s]) => Showing(c), Writing(call[s]) => Writing(c),
           UNCHANGED <<cmd, critique, orch, file, activeConv>>, cfg'.project = cfg.project, active' \subseteq active,
           Housed(saved'),
           /\ c.at = "activate" => c.id \in Range(listed')
           /\ c.by = "cache" => orch.conv # 0
           /\ c.at = "write" => (c.op = "save" /\ c.copy.project = cfg.project) \/ (c.op = "reset" /\ active' = {})
           /\ c.at = "defaults" => active' = {}
    PROVE  Home'
<1>1. \A t \in Slots : t = s /\ call'[t] = c
  BY Alone
<1>2. \A t \in Slots : Knows(call[t])'
  BY <1>1 DEF Knows, SwitchOps
<1>3. (\E t \in Slots : Joining(call[t])) => \E t \in Slots : Joining(call'[t])
  BY <1>1
<1>4. (\E t \in Slots : Showing(call[t])) => \E t \in Slots : Showing(call'[t])
  BY <1>1
<1>5. (\E t \in Slots : Writing(call[t])) => \E t \in Slots : Writing(call'[t])
  BY <1>1
<1>6. /\ active' # {} => orch'.conv # 0 \/ \E t \in Slots : Joining(call'[t])
      /\ active' # {} => cfg'.project # None \/ \E t \in Slots : Showing(call'[t])
      /\ active' # {} => file'.project # None \/ \E t \in Slots : Writing(call'[t])
  BY <1>3, <1>4, <1>5 DEF Home
<1>7. /\ \A k \in Cmds : cmd'[k] \in Busy => orch'.conv # 0
      /\ critique' = NoCritique \/ critique'.conv # 0
      /\ activeConv' # 0 => orch'.conv # 0
  BY DEF Home
<1> QED
  BY <1>2, <1>6, <1>7 DEF Home, Joining, Showing, Writing

LEMMA HomeOpen == ASSUME OneCall, TypeInv, Home, NEW s \in Slots, Open(s) PROVE Home'
<1>0. call[s] = NoCall
      /\ UNCHANGED <<saved, listed, cmd, critique, orch, file, activeConv, cfg, active>>
  BY DEF Open, dbVars, serviceVars, orchVars, cmdVars, cmdVars
<1>1. ~Joining(call[s]) /\ ~Showing(call[s]) /\ ~Writing(call[s])
  BY <1>0, NoCallOp DEF Joining, Showing, Writing, SwitchOps
<1>2. Housed(saved')
  BY <1>0 DEF Home
<1>3. ASSUME NEW op, NEW at, NEW id, call' = [call EXCEPT ![s] = Call(op, at, id)],
             at = "activate" => id \in Range(listed), at \notin {"write", "defaults"}
      PROVE  Home'
  <2> DEFINE c == Call(op, at, id)
  <2>1. c.at = at /\ c.op = op /\ c.id = id /\ c.by = "none"
    BY DEF Call
  <2>2. call' = [call EXCEPT ![s] = c]
    BY <1>3
  <2> HIDE DEF c
  <2>3. /\ c.at = "activate" => c.id \in Range(listed')
        /\ c.at # "write" /\ c.at # "defaults" /\ c.by # "cache"
    BY <1>0, <1>3, <2>1
  <2> QED
    BY <1>0, <1>1, <1>2, <2>2, <2>3, HomeGoes
<1>4. Range(ListProjects) \subseteq Range(listed)
  BY ListedAre DEF TypeInv
<1> QED
  BY <1>3, <1>4 DEF Open, NewProject

LEMMA HomeCreateProject == ASSUME OneCall, TypeInv, Home, NEW s \in Slots, CreateProject(s) PROVE Home'
<1> DEFINE c == [call[s] EXCEPT !.at = "activate"]
<1>0. /\ call[s].at = "insert" /\ call[s].op \in SwitchOps
      /\ UNCHANGED <<saved, cmd, critique, orch, file, activeConv, cfg>>
  BY DEF CreateProject, At, serviceVars, orchVars, cmdVars, SwitchOps
<1>1. CASE /\ listed' = Append(listed, call[s].id) /\ active' = {call[s].id} /\ Goto(s, "activate")
  <2>1. c.at = "activate" /\ c.op = call[s].op /\ c.id = call[s].id /\ c.by = call[s].by
        /\ call' = [call EXCEPT ![s] = c]
    BY <1>1, InHand DEF CallRow, Goto
  <2>2. call[s].id \in Range(listed')
    <3>1. call[s].id \in Projects
      BY <1>0, InHand DEF Formed
    <3> QED
      BY <1>1, <3>1, RangeAppend DEF TypeInv, RowsOK
  <2> HIDE DEF c
  <2>3. \A t \in Slots : call'[t] = c
    BY <2>1, Alone
  <2>4. Joining(c) /\ Showing(c) /\ Writing(c)
    BY <1>0, <2>1 DEF Joining, Showing, Writing
  <2>5. Joining(call'[s]) /\ Showing(call'[s]) /\ Writing(call'[s])
    BY <2>3, <2>4
  <2>6. \A t \in Slots : Knows(call[t])'
    <3>1. call[s].by = "cache" => orch.conv # 0
      BY DEF Home, Knows
    <3> QED
      BY <1>0, <2>1, <2>2, <2>3, <3>1 DEF Knows
  <2> QED
    BY <1>0, <2>5, <2>6 DEF Home, Joining, Showing, Writing
<1>2. CASE End(s, FALSE) /\ UNCHANGED active
  <2>1. ~Writing(call[s])
    BY <1>0 DEF Writing
  <2>2. activeConv' # 0 => orch.conv # 0
    BY <1>0 DEF Home
  <2> QED
    BY <1>0, <1>2, <2>1, <2>2, HomeEnd
<1> QED
  BY <1>1, <1>2 DEF CreateProject

LEMMA HomeActivate == ASSUME OneCall, TypeInv, Home, NEW s \in Slots, Activate(s) PROVE Home'
<1> DEFINE p == call[s].id
           c == [call[s] EXCEPT !.at = "find", !.by = "orch"]
<1>0. call[s].at = "activate" /\ call[s].op \in SwitchOps
      /\ UNCHANGED <<saved, cmd, critique, file, activeConv, cfg, listed>>
  BY DEF Activate, At, serviceVars, cmdVars, SwitchOps
<1>1. p \in Range(listed)
  BY <1>0 DEF Home, Knows
<1>2. /\ active' = {p} /\ orch' = [orch EXCEPT !.project = p, !.bus = p]
      /\ call' = [call EXCEPT ![s] = c]
  BY <1>1 DEF Activate, Enter, SetActiveProject
<1>3. c.at = "find" /\ c.by = "orch" /\ c.op = call[s].op /\ c.id = p
  BY InHand DEF CallRow
<1>4. orch'.conv = orch.conv
  BY <1>2 DEF TypeInv, OrchOK, Context
<1> HIDE DEF c
<1>5. \A t \in Slots : call'[t] = c
  BY <1>2, Alone
<1>6. Joining(call'[s]) /\ Showing(call'[s]) /\ Writing(call'[s])
  BY <1>0, <1>3, <1>5 DEF Joining, Showing, Writing
<1>7. \A t \in Slots : Knows(call[t])'
  BY <1>3, <1>5 DEF Knows
<1> QED
  BY <1>0, <1>4, <1>6, <1>7 DEF Home, Joining, Showing, Writing

LEMMA HomeFind == ASSUME OneCall, TypeInv, Home, NEW s \in Slots, Find(s) \/ Make(s) PROVE Home'
<1>0. /\ call[s].at \in {"find", "make"}
      /\ UNCHANGED <<saved, listed, cmd, critique, orch, file, activeConv, cfg, active>>
  BY DEF Find, Make, dbVars, serviceVars, orchVars, cmdVars
<1>1. ASSUME NEW c, call' = [call EXCEPT ![s] = c], c.at \in {"make", "set"}, c.op = call[s].op, c.by = call[s].by
      PROVE  Home'
  <2>1. /\ Joining(call[s]) => Joining(c)
        /\ Showing(call[s]) => Showing(c)
        /\ Writing(call[s]) => Writing(c)
    BY <1>0, <1>1 DEF Joining, Showing, Writing
  <2>2. call[s].by = "cache" => orch.conv # 0
    BY DEF Home, Knows
  <2>3. Housed(saved')
    BY <1>0 DEF Home
  <2>4. c.at # "activate" /\ c.at # "write" /\ c.at # "defaults" /\ (c.by = "cache" => orch.conv # 0)
    BY <1>1, <2>2
  <2> QED
    BY <1>0, <1>1, <2>1, <2>3, <2>4, HomeGoes
<1>2. ASSUME NEW i, call' = [call EXCEPT ![s] = [@ EXCEPT !.at = "set", !.conv = i]] PROVE Home'
  <2> DEFINE c == [call[s] EXCEPT !.at = "set", !.conv = i]
  <2>1. c.at = "set" /\ c.op = call[s].op /\ c.by = call[s].by
    BY InHand DEF CallRow
  <2>2. call' = [call EXCEPT ![s] = c]
    BY <1>2
  <2> HIDE DEF c
  <2> QED
    BY <1>1, <2>1, <2>2
<1>3. ASSUME Goto(s, "make") PROVE Home'
  <2> DEFINE c == [call[s] EXCEPT !.at = "make"]
  <2>1. c.at = "make" /\ c.op = call[s].op /\ c.by = call[s].by
    BY InHand DEF CallRow
  <2>2. call' = [call EXCEPT ![s] = c]
    BY <1>3 DEF Goto
  <2> HIDE DEF c
  <2> QED
    BY <1>1, <2>1, <2>2
<1> QED
  BY <1>2, <1>3 DEF Find, Make

LEMMA HomeSetOrchestrator ==
    ASSUME OneCall, TypeInv, SwitchInv, Home, NEW s \in Slots, SetOrchestrator(s) \/ SeedLead(s) PROVE Home'
<1>0. /\ call[s].at \in {"set", "seed"} /\ call[s].by = "orch"
      /\ UNCHANGED <<saved, cmd, critique, file, activeConv, cfg, active, listed>>
  BY DEF SetOrchestrator, SeedLead, SwitchInv, Stage, Script, dbVars, serviceVars, cmdVars
<1>1. orch'.conv # 0
  <2>1. CASE SetOrchestrator(s)
    <3>1. orch' = [orch EXCEPT !.conv = call[s].conv] /\ call[s].at = "set"
      BY <2>1 DEF SetOrchestrator
    <3> QED
      BY <3>1, FoundIs DEF TypeInv, OrchOK, Context
  <2>2. CASE SeedLead(s)
    <3>1. UNCHANGED orch /\ Joined(call[s])
      BY <1>0, <2>2 DEF SeedLead, SwitchInv, Stage, Script, Joined, Told
    <3>2. orch.conv \in Rows(call[s].id, "war-room")
      BY <3>1 DEF SwitchInv, Stage, JoinedTo
    <3>3. deleted \in Nat
      BY DEF TypeInv, RowsOK
    <3> QED
      BY <3>1, <3>2, <3>3 DEF Rows
  <2> QED
    BY <2>1, <2>2
<1>2. call[s].op \in SwitchOps
  BY <1>0 DEF SwitchInv, Stage, Script
<1>3. PICK c : /\ c.at \in {"seed", "find"} /\ c.op = call[s].op /\ c.by \in {"orch", "service"}
               /\ call' = [call EXCEPT ![s] = c]
  <2>1. CASE SetOrchestrator(s)
    <3> DEFINE d == [call[s] EXCEPT !.at = "seed"]
    <3>1. d.at = "seed" /\ d.op = call[s].op /\ d.by = "orch" /\ call' = [call EXCEPT ![s] = d]
      BY <1>0, <2>1, InHand DEF SetOrchestrator, Goto, CallRow
    <3> HIDE DEF d
    <3> QED
      BY <3>1
  <2>2. CASE SeedLead(s)
    <3> DEFINE d == [call[s] EXCEPT !.at = "find", !.by = "service"]
    <3>1. d.at = "find" /\ d.op = call[s].op /\ d.by = "service" /\ call' = [call EXCEPT ![s] = d]
      BY <2>2, InHand DEF SeedLead, Enter, CallRow
    <3> HIDE DEF d
    <3> QED
      BY <3>1
  <2> QED
    BY <2>1, <2>2
<1>4. \A t \in Slots : call'[t] = c
  BY <1>3, Alone
<1>5. Showing(call'[s]) /\ Writing(call'[s])
  BY <1>2, <1>3, <1>4 DEF Showing, Writing
<1>6. \A t \in Slots : Knows(call[t])'
  BY <1>3, <1>4 DEF Knows
<1> QED
  BY <1>0, <1>1, <1>5, <1>6 DEF Home, Showing, Writing

LEMMA HomeSetService ==
    ASSUME OneCall, TypeInv, SwitchInv, Home, NEW s \in Slots, SetService(s) PROVE Home'
<1> DEFINE new == [cfg EXCEPT !.project = call[s].id]
           c == [call[s] EXCEPT !.at = "write", !.copy = new]
<1>0. /\ call[s].at = "set" /\ call[s].by = "service" /\ activeConv' = call[s].conv /\ cfg' = new
      /\ call' = [call EXCEPT ![s] = c]
      /\ UNCHANGED <<saved, cmd, critique, file, orch, active, listed>>
  BY DEF SetService, dbVars, orchVars, cmdVars
<1>1. call[s].id # None
  BY <1>0, FoundIs
<1>2. call[s].op \in SwitchOps
  BY <1>0 DEF SwitchInv, Stage, Script
<1>3. orch.conv # 0
  <2>1. orch.conv \in Rows(call[s].id, "war-room")
    BY <1>0, <1>2 DEF SwitchInv, Stage, Joined, Told, JoinedTo
  <2>2. deleted \in Nat
    BY DEF TypeInv, RowsOK
  <2> QED
    BY <2>1, <2>2 DEF Rows
<1>4. new.project = call[s].id
  BY DEF TypeInv, ServiceOK, Configs
<1>5. c.at = "write" /\ c.op = call[s].op /\ c.by = "service" /\ c.id = call[s].id /\ c.copy = new
  BY <1>0, InHand DEF CallRow
<1> HIDE DEF c, new
<1>6. \A t \in Slots : call'[t] = c
  BY <1>0, Alone
<1>7. Writing(call'[s])
  BY <1>2, <1>5, <1>6 DEF Writing
<1>8. \A t \in Slots : Knows(call[t])'
  BY <1>2, <1>4, <1>5, <1>6 DEF Knows, SwitchOps
<1> QED
  BY <1>0, <1>1, <1>3, <1>4, <1>7, <1>8 DEF Home, Writing

LEMMA HomeWriteConfig ==
    ASSUME OneCall, TypeInv, SwitchInv, Home, NEW s \in Slots, WriteConfig(s), count'.fails = 0 PROVE Home'
<1>0. call[s].at = "write" /\ UNCHANGED <<saved, cmd, critique, activeConv, cfg, orch, active, listed>>
  BY DEF WriteConfig, dbVars, orchVars, cmdVars
<1>1. file' = call[s].copy
  <2>1. CASE WriteFile(call[s].copy)
    BY <2>1 DEF WriteFile
  <2>2. CASE count' = [count EXCEPT !.fails = @ + 1]
    BY <2>2 DEF TypeInv, CountsOK, Counts
  <2> QED
    BY <2>1, <2>2 DEF WriteConfig
<1>2. \A t \in Slots : t = s
  BY DEF OneCall
<1>3. call[s].op \in SwitchOps \cup {"save", "reset"} /\ Knows(call[s])
  BY <1>0 DEF SwitchInv, Stage, Script, Home
<1>4. active # {} => orch.conv # 0 /\ cfg.project # None
  BY <1>0, <1>2 DEF Home, Joining, Showing
<1>5. active # {} => file'.project # None
  <2>1. CASE call[s].op \in SwitchOps
    <3>1. file'.project = call[s].id /\ call[s].id = cfg.project
      BY <1>0, <1>1, <1>3, <2>1, ShownIs DEF Knows, Shown, ShownTo
    <3> QED
      BY <1>4, <3>1
  <2>2. CASE call[s].op \in {"save", "reset"}
    BY <1>0, <1>1, <1>3, <1>4, <2>2 DEF Knows
  <2> QED
    BY <1>3, <2>1, <2>2
<1>6. \A t \in Slots : Knows(call[t])'
  <2>1. CASE call[s].op = "first_run"
    <3> DEFINE c == [call[s] EXCEPT !.at = "open"]
    <3>1. c.at = "open" /\ c.by = call[s].by
      BY InHand DEF CallRow
    <3>2. call' = [call EXCEPT ![s] = c]
      BY <2>1 DEF WriteConfig, Goto
    <3> HIDE DEF c
    <3>3. \A t \in Slots : call'[t] = c
      BY <3>2, Alone
    <3> QED
      BY <1>0, <1>3, <3>1, <3>3 DEF Knows
  <2>2. CASE call[s].op # "first_run"
    <3>1. \A t \in Slots : call'[t] = NoCall
      BY <2>2, Alone DEF WriteConfig, End
    <3> QED
      BY <3>1, NoCallOp DEF Knows
  <2> QED
    BY <2>1, <2>2
<1> QED
  BY <1>0, <1>4, <1>5, <1>6 DEF Home

LEMMA HomeGetActiveProject ==
    ASSUME OneCall, TypeInv, Home, NEW s \in Slots, GetActiveProject(s) PROVE Home'
<1>0. /\ call[s].op = "conversation"
      /\ UNCHANGED <<saved, listed, cmd, critique, orch, file, activeConv, cfg, active>>
  BY DEF GetActiveProject, At, dbVars, serviceVars, orchVars, cmdVars
<1>1. ~Joining(call[s]) /\ ~Showing(call[s]) /\ ~Writing(call[s])
  BY <1>0 DEF Joining, Showing, Writing, SwitchOps
<1>2. CASE End(s, TRUE)
  BY <1>0, <1>1, <1>2, HomeEnd DEF Home
<1>3. ASSUME NEW p \in active, call' = [call EXCEPT ![s] = [@ EXCEPT !.at = "find", !.by = "cache", !.id = p]]
      PROVE  Home'
  <2> DEFINE c == [call[s] EXCEPT !.at = "find", !.by = "cache", !.id = p]
  <2>1. c.at = "find"
    BY InHand DEF CallRow
  <2>2. call' = [call EXCEPT ![s] = c]
    BY <1>3
  <2> HIDE DEF c
  <2>3. orch.conv # 0
    BY <1>1, <1>3 DEF Home, OneCall
  <2>4. Housed(saved')
    BY <1>0 DEF Home
  <2>5. c.at # "activate" /\ c.at # "write" /\ c.at # "defaults"
    BY <2>1
  <2> QED
    BY <1>0, <1>1, <2>2, <2>3, <2>4, <2>5, HomeGoes
<1> QED
  BY <1>2, <1>3 DEF GetActiveProject

LEMMA HomeSetCache ==
    ASSUME OneCall, TypeInv, SwitchInv, Home, NEW s \in Slots, SetCache(s) PROVE Home'
<1>0. /\ call[s].at = "set" /\ call[s].by = "cache" /\ End(s, TRUE)
      /\ UNCHANGED <<saved, cmd, critique, orch, cfg, file, active>>
  BY DEF SetCache, dbVars, orchVars, cmdVars
<1>1. ~Writing(call[s])
  BY <1>0 DEF SwitchInv, Stage, Script, Writing, SwitchOps
<1>2. orch.conv # 0
  BY <1>0 DEF Home, Knows
<1> QED
  BY <1>0, <1>1, <1>2, HomeEnd

LEMMA HomeArchiveProject == ASSUME OneCall, TypeInv, Home, NEW s \in Slots, ArchiveProject(s) PROVE Home'
<1>0. /\ call[s].op = "archive" /\ End(s, TRUE) /\ active' \subseteq active
      /\ UNCHANGED <<saved, cmd, critique, orch, cfg, file, activeConv>>
  BY DEF ArchiveProject, At, Archive, serviceVars, orchVars, cmdVars
<1>1. ~Writing(call[s])
  BY <1>0 DEF Writing, SwitchOps
<1>2. activeConv' # 0 => orch.conv # 0
  BY <1>0 DEF Home
<1> QED
  BY <1>0, <1>1, <1>2, HomeEnd

LEMMA HomeSeekDM == ASSUME OneCall, TypeInv, Home, NEW s \in Slots, SeekDM(s) PROVE Home'
<1> DEFINE c == [call[s] EXCEPT !.at = "open", !.id = CHOOSE p \in active : TRUE]
<1>0. /\ call[s].op = "dm"
      /\ UNCHANGED <<saved, listed, cmd, critique, orch, file, activeConv, cfg, active>>
  BY DEF SeekDM, At, dbVars, serviceVars, orchVars, cmdVars
<1>1. ~Joining(call[s]) /\ ~Showing(call[s]) /\ ~Writing(call[s])
  BY <1>0 DEF Joining, Showing, Writing, SwitchOps
<1>2. ASSUME NEW ok, End(s, ok) PROVE Home'
  BY <1>0, <1>1, <1>2, HomeEnd DEF Home
<1>3. ASSUME call' = [call EXCEPT ![s] = c] PROVE Home'
  <2>1. c.at = "open" /\ c.by = call[s].by
    BY InHand DEF CallRow
  <2> HIDE DEF c
  <2>2. Housed(saved')
    BY <1>0 DEF Home
  <2>3. /\ c.at # "activate" /\ c.at # "write" /\ c.at # "defaults"
        /\ c.by = "cache" => orch.conv # 0
    BY <2>1 DEF Home, Knows
  <2> QED
    BY <1>0, <1>1, <1>3, <2>2, <2>3, HomeGoes
<1> QED
  BY <1>2, <1>3 DEF SeekDM

LEMMA HomeOpenDM == ASSUME OneCall, TypeInv, Home, NEW s \in Slots, OpenDM(s) PROVE Home'
<1> DEFINE c == [call[s] EXCEPT !.at = "greet", !.conv = Len(convs) + 1]
<1>0. /\ call[s].at = "open"
      /\ UNCHANGED <<saved, listed, cmd, critique, orch, file, activeConv, cfg, active>>
  BY DEF OpenDM, serviceVars, orchVars, cmdVars
<1>1. ~Joining(call[s]) /\ ~Showing(call[s]) /\ ~Writing(call[s])
  BY <1>0 DEF Joining, Showing, Writing
<1>2. CASE End(s, TRUE)
  BY <1>0, <1>1, <1>2, HomeEnd DEF Home
<1>3. ASSUME call' = [call EXCEPT ![s] = c] PROVE Home'
  <2>1. c.at = "greet" /\ c.by = call[s].by
    BY InHand DEF CallRow
  <2> HIDE DEF c
  <2>2. Housed(saved')
    BY <1>0 DEF Home
  <2>3. /\ c.at # "activate" /\ c.at # "write" /\ c.at # "defaults"
        /\ c.by = "cache" => orch.conv # 0
    BY <2>1 DEF Home, Knows
  <2> QED
    BY <1>0, <1>1, <1>3, <2>2, <2>3, HomeGoes
<1> QED
  BY <1>2, <1>3 DEF OpenDM

LEMMA HomeInitFirstRun == ASSUME OneCall, TypeInv, Home, NEW s \in Slots, InitFirstRun(s) PROVE Home'
<1>0. /\ call[s].at = "lookup"
      /\ UNCHANGED <<saved, listed, cmd, critique, orch, file, activeConv, cfg, active>>
  BY DEF InitFirstRun, At, dbVars, serviceVars, orchVars, cmdVars
<1>1. ~Joining(call[s]) /\ ~Showing(call[s]) /\ ~Writing(call[s])
  BY <1>0 DEF Joining, Showing, Writing
<1>2. CASE End(s, TRUE)
  BY <1>0, <1>1, <1>2, HomeEnd DEF Home
<1>3. ASSUME NEW p, call' = [call EXCEPT ![s] = [@ EXCEPT !.at = "insert", !.id = p]] PROVE Home'
  <2> DEFINE c == [call[s] EXCEPT !.at = "insert", !.id = p]
  <2>1. c.at = "insert" /\ c.by = call[s].by
    BY InHand DEF CallRow
  <2>2. call' = [call EXCEPT ![s] = c]
    BY <1>3
  <2> HIDE DEF c
  <2>3. Housed(saved')
    BY <1>0 DEF Home
  <2>4. /\ c.at # "activate" /\ c.at # "write" /\ c.at # "defaults"
        /\ c.by = "cache" => orch.conv # 0
    BY <2>1 DEF Home, Knows
  <2> QED
    BY <1>0, <1>1, <2>2, <2>3, <2>4, HomeGoes
<1> QED
  BY <1>2, <1>3 DEF InitFirstRun

(* A message more with a conversation, or a notice. *)
LEMMA HomeStores ==
    ASSUME TypeInv, Housed(saved), NEW m \in MessageRow(Len(convs)), m.conv # 0 \/ m.kind = "notice",
           saved' = Append(saved, m)
    PROVE  Housed(saved')
<1>1. /\ saved' \in Seq(MessageRow(Len(convs))) /\ Len(saved') = Len(saved) + 1 /\ Len(saved) \in Nat
      /\ \A i \in 1..Len(saved) : saved'[i] = saved[i]
      /\ saved'[Len(saved) + 1] = m
  BY AppendProperties DEF TypeInv, SavedOK
<1>2. DOMAIN saved' = 1..(Len(saved) + 1) /\ DOMAIN saved = 1..Len(saved)
  BY <1>1 DEF TypeInv, SavedOK
<1>3. \A i \in 1..(Len(saved) + 1) : i \in 1..Len(saved) \/ i = Len(saved) + 1
  BY <1>1
<1> QED
  BY <1>1, <1>2, <1>3 DEF Housed

LEMMA HomeGreet == ASSUME OneCall, TypeInv, SwitchInv, Home, NEW s \in Slots, Greet(s) PROVE Home'
<1> DEFINE m == [project |-> call[s].id, conv |-> call[s].conv, kind |-> "agent_message", cmd |-> None]
<1>0. /\ call[s].at = "greet" /\ saved' = Append(saved, m) /\ End(s, TRUE)
      /\ UNCHANGED <<cmd, critique, orch, file, activeConv, cfg, active>>
  BY DEF Greet, serviceVars, orchVars, cmdVars
<1>1. ~Joining(call[s]) /\ ~Showing(call[s]) /\ ~Writing(call[s])
  BY <1>0 DEF Joining, Showing, Writing
<1>2. m \in MessageRow(Len(convs)) /\ m.conv # 0
  BY <1>0, InHand DEF MessageRow, Kinds, SwitchInv, Stage, Script
<1> HIDE DEF m
<1>3. Housed(saved')
  BY <1>0, <1>2, HomeStores DEF Home
<1>4. \A t \in Slots : call'[t].at = "none" /\ call'[t].by = "none"
  BY <1>0, Alone, NoCallOp DEF End
<1>5. \A t \in Slots : Knows(call[t])'
  BY <1>4 DEF Knows
<1>6. active # {} => orch.conv # 0 /\ cfg.project # None /\ file.project # None
  BY <1>1 DEF Home, OneCall
<1> QED
  BY <1>0, <1>3, <1>5, <1>6 DEF Home

LEMMA HomeSaveConfig == ASSUME OneCall, TypeInv, Home, NEW s \in Slots, SaveConfig(s) PROVE Home'
<1> DEFINE new == [cfg EXCEPT !.settings = "own"]
           c == [call[s] EXCEPT !.at = "write", !.copy = new]
<1>0. /\ call[s].op = "save" /\ call[s].at = "lock" /\ cfg' = new /\ call' = [call EXCEPT ![s] = c]
      /\ UNCHANGED <<saved, listed, cmd, critique, orch, file, activeConv, active>>
  BY DEF SaveConfig, At, dbVars, orchVars, cmdVars
<1>1. ~Joining(call[s]) /\ ~Showing(call[s]) /\ ~Writing(call[s])
  BY <1>0 DEF Joining, Showing, Writing, SwitchOps
<1>2. new.project = cfg.project
  BY DEF TypeInv, ServiceOK, Configs
<1>3. c.at = "write" /\ c.op = "save" /\ c.copy = new /\ c.by = call[s].by
  BY <1>0, InHand DEF CallRow
<1> HIDE DEF c, new
<1>4. Housed(saved')
  BY <1>0 DEF Home
<1>5. /\ c.at # "activate" /\ c.at # "defaults" /\ c.op = "save" /\ c.copy.project = cfg.project
      /\ c.by = "cache" => orch.conv # 0
  BY <1>2, <1>3 DEF Home, Knows
<1> QED
  BY <1>0, <1>1, <1>2, <1>4, <1>5, HomeGoes

LEMMA HomeReset ==
    ASSUME OneCall, TypeInv, Home, NEW s \in Slots, Wipe(s) \/ ResetConfig(s) PROVE Home'
<1>0. call[s].op = "reset" /\ UNCHANGED <<cmd, critique, orch, file, activeConv, cfg>>
  BY DEF Wipe, ResetConfig, At, serviceVars, orchVars, cmdVars
<1>1. ~Joining(call[s]) /\ ~Showing(call[s]) /\ ~Writing(call[s])
  BY <1>0 DEF Joining, Showing, Writing, SwitchOps
<1>2. active' \subseteq active
  BY DEF Wipe, ResetConfig, dbVars, cmdVars
<1>3. Housed(saved')
  <2>1. saved' = <<>> \/ saved' = saved
    BY DEF Wipe, ResetConfig, dbVars, cmdVars
  <2> QED
    BY <2>1 DEF Home, Housed
<1>4. call[s].by = "cache" => orch.conv # 0
  BY DEF Home, Knows
<1>5. CASE Wipe(s)
  <2>1. PICK at \in {"wipe_conversations", "wipe_projects", "defaults"} :
           Goto(s, at) /\ (at = "defaults" => active' = {})
    BY <1>5 DEF Wipe
  <2> DEFINE c == [call[s] EXCEPT !.at = at]
  <2>2. c.at = at /\ c.by = call[s].by
    BY InHand DEF CallRow
  <2>3. call' = [call EXCEPT ![s] = c]
    BY <2>1 DEF Goto
  <2> HIDE DEF c
  <2>4. /\ c.at # "activate" /\ c.at # "write"
        /\ c.at = "defaults" => active' = {}
        /\ c.by = "cache" => orch.conv # 0
    BY <1>4, <2>1, <2>2
  <2> QED
    BY <1>0, <1>1, <1>2, <1>3, <2>3, <2>4, HomeGoes
<1>6. CASE ResetConfig(s)
  <2> DEFINE c == [call[s] EXCEPT !.at = "write", !.copy = Defaults]
  <2>1. call' = [call EXCEPT ![s] = c] /\ call[s].at = "defaults" /\ active' = active
    BY <1>6 DEF ResetConfig, At, dbVars
  <2>2. c.at = "write" /\ c.by = call[s].by /\ c.op = "reset"
    BY <1>0, InHand DEF CallRow
  <2>3. active' = {}
    BY <2>1 DEF Home, Knows
  <2> HIDE DEF c
  <2>4. /\ c.at # "activate" /\ c.at # "defaults" /\ c.op = "reset"
        /\ c.by = "cache" => orch.conv # 0
    BY <1>4, <2>2
  <2> QED
    BY <1>0, <1>1, <1>2, <1>3, <2>1, <2>3, <2>4, HomeGoes
<1> QED
  BY <1>5, <1>6

LEMMA HomeBroadcast ==
    ASSUME OneCall, TypeInv, Home, NEW s \in Slots, ResetContext(s) \/ Broadcast(s) PROVE Home'
<1>0. /\ call[s].op = "broadcast"
      /\ UNCHANGED <<listed, active, cmd, critique, orch, file, activeConv, cfg>>
  BY DEF ResetContext, Broadcast, At, dbVars, serviceVars, orchVars, cmdVars
<1>1. ~Joining(call[s]) /\ ~Showing(call[s]) /\ ~Writing(call[s])
  BY <1>0 DEF Joining, Showing, Writing, SwitchOps
<1>2. CASE ResetContext(s)
  <2> DEFINE c == [call[s] EXCEPT !.at = "tell"]
  <2>1. c.at = "tell" /\ c.by = call[s].by /\ call' = [call EXCEPT ![s] = c]
    BY <1>2, InHand DEF ResetContext, Goto, CallRow
  <2> HIDE DEF c
  <2>2. Housed(saved')
    BY <1>2 DEF ResetContext, dbVars, Home
  <2>3. /\ c.at # "activate" /\ c.at # "write" /\ c.at # "defaults"
        /\ c.by = "cache" => orch.conv # 0
    BY <2>1 DEF Home, Knows
  <2> QED
    BY <1>0, <1>1, <2>1, <2>2, <2>3, HomeGoes
<1>3. CASE Broadcast(s)
  <2>1. Notify(None) /\ End(s, TRUE)
    BY <1>3 DEF Broadcast
  <2>2. PICK m \in MessageRow(Len(convs)) : m.kind = "notice" /\ saved' = Append(saved, m)
    BY <2>1, NotifyIs
  <2>3. Housed(saved')
    BY <2>2, HomeStores DEF Home
  <2>4. \A t \in Slots : call'[t].at = "none" /\ call'[t].by = "none"
    BY <2>1, Alone, NoCallOp DEF End
  <2>5. \A t \in Slots : Knows(call[t])'
    BY <2>4 DEF Knows
  <2>6. active # {} => orch.conv # 0 /\ cfg.project # None /\ file.project # None
    BY <1>1 DEF Home, OneCall
  <2> QED
    BY <1>0, <2>3, <2>5, <2>6 DEF Home
<1> QED
  BY <1>2, <1>3

(* A command speaks in the context that is there, and is not busy without   *)
(* one; so does the critique it starts.                                     *)
LEMMA HomeCommands ==
    ASSUME TypeInv, Home, NEW k \in Cmds,
           \/ SendBossCommand(k) \/ BeginTurn(k) \/ Answer(k) \/ Plan(k) \/ Reply(k)
           \/ HandOver(k) \/ NotifyTaskDone(k) \/ Finish(k)
    PROVE  Home'
<1>0. UNCHANGED <<listed, active, activeConv, cfg, file, orch, call>>
  BY DEF SendBossCommand, BeginTurn, Answer, Plan, Reply, HandOver, NotifyTaskDone, Finish,
     dbVars, serviceVars, orchVars
<1>1. orch.conv # 0
  BY DEF SendBossCommand, BeginTurn, Answer, Plan, Reply, HandOver, NotifyTaskDone, Finish, Home, Busy
<1>2. Housed(saved')
  <2>1. \/ UNCHANGED saved
        \/ Notify(k)
        \/ Say("boss_command", k) \/ Say("agent_message", k) \/ Say("note", k) \/ Say("event", k)
    BY DEF SendBossCommand, BeginTurn, Answer, Plan, Reply, HandOver, NotifyTaskDone, Finish, dbVars
  <2>2. UNCHANGED saved \/ (\E m \in MessageRow(Len(convs)) :
                              (m.conv # 0 \/ m.kind = "notice") /\ saved' = Append(saved, m))
    BY <1>1, <2>1, SayIs, NotifyIs DEF Kinds
  <2>3. Housed(saved)
    BY DEF Home
  <2> QED
    BY <2>2, <2>3, HomeStores
<1>3. critique' = NoCritique \/ critique'.conv # 0
  <2>1. UNCHANGED critique \/ critique' = [project |-> orch.project, conv |-> orch.conv]
    BY DEF SendBossCommand, BeginTurn, Answer, Plan, Reply, HandOver, NotifyTaskDone, Finish, cmdVars
  <2> QED
    BY <1>1, <2>1 DEF Home
<1>4. \A t \in Slots : Knows(call[t])'
  BY <1>0 DEF Home, Knows
<1> QED
  BY <1>0, <1>1, <1>2, <1>3, <1>4 DEF Home, Joining, Showing, Writing

LEMMA HomeCritique == ASSUME TypeInv, Home, RunCritique PROVE Home'
<1>0. UNCHANGED <<listed, active, activeConv, cfg, file, orch, call, cmd>> /\ critique' = NoCritique
  BY DEF RunCritique, serviceVars, orchVars
<1>1. Housed(saved')
  <2>1. CASE UNCHANGED saved
    BY <2>1 DEF Home
  <2>2. CASE Dispatch([project |-> critique.project, conv |-> critique.conv, kind |-> "note", cmd |-> None])
    <3>1. /\ critique.project \in Projects \cup {None} /\ critique.conv \in 0..Len(convs)
          /\ critique.conv # 0
      BY DEF TypeInv, CmdsOK, Critique, Home, RunCritique
    <3>2. PICK m \in MessageRow(Len(convs)) : m.conv = critique.conv /\ saved' = Append(saved, m)
      BY <2>2, <3>1, DispatchIs DEF Kinds
    <3> QED
      BY <3>1, <3>2, HomeStores DEF Home
  <2> QED
    BY <2>1, <2>2 DEF RunCritique
<1>2. \A t \in Slots : Knows(call[t])'
  BY <1>0 DEF Home, Knows
<1> QED
  BY <1>0, <1>1, <1>2 DEF Home, Joining, Showing, Writing

LEMMA HomeStart ==
    ASSUME ~CrashMidCall, TypeInv, Home, Start PROVE Home'
<1> DEFINE p == file.project
           rows == Rows(p, "war-room")
           new == rows = {} /\ p # None
<1>1. /\ \A s \in Slots : call[s] = NoCall
      /\ cfg' = file /\ activeConv' = 0
      /\ call' = [s \in Slots |-> NoCall]
      /\ cmd' = [k \in Cmds |-> IF cmd[k] = "idle" THEN "idle" ELSE "ended"]
      /\ critique' = NoCritique
      /\ UNCHANGED <<listed, active, saved, file>>
  BY DEF Start
<1>2. PICK conv \in IF p = None THEN {0} ELSE IF new THEN {Len(convs) + 1} ELSE rows :
         orch' = [project |-> p, conv |-> conv, bus |-> p]
  BY DEF Start
<1>3. active # {} => p # None
  BY <1>1, NoCallOp DEF Home, Writing, SwitchOps
<1>4. p # None => conv # 0
  <2>1. deleted \in Nat /\ Len(convs) \in Nat
    BY DEF TypeInv, RowsOK
  <2>2. 0 \notin rows
    BY <2>1 DEF Rows
  <2> HIDE DEF rows
  <2> QED
    BY <1>2, <2>1, <2>2
<1>5. \A k \in Cmds : cmd'[k] \notin Busy
  BY <1>1 DEF Busy
<1>6. \A t \in Slots : Knows(call[t])'
  BY <1>1, NoCallOp DEF Knows
<1> QED
  BY <1>1, <1>2, <1>3, <1>4, <1>5, <1>6 DEF Home

LEMMA HomeStep ==
    ASSUME OneCall, ~CrashMidCall, TypeInv, SwitchInv, HomeInv, [Next]_vars
    PROVE  HomeInv'
<1> SUFFICES ASSUME count'.fails = 0 PROVE Home'
  BY DEF HomeInv
<1>0. count.fails \in Nat
  BY DEF TypeInv, CountsOK, Counts
<1>1. ASSUME NEW s \in Slots, Fail(s) PROVE FALSE
  BY <1>0, <1>1 DEF Fail, TypeInv, CountsOK, Counts
<1>2. count.fails = 0
  <2>1. count' = count \/ (\E f \in {"calls", "starts", "notes"} : count' = [count EXCEPT ![f] = @ + 1])
        \/ count' = [count EXCEPT !.fails = @ + 1]
    BY DEF Next, Step, Open, CreateProject, Activate, Find, Make, SetOrchestrator, SeedLead, SetService,
       WriteConfig, GetActiveProject, SetCache, ArchiveProject, SeekDM, OpenDM, InitFirstRun, Greet, SaveConfig,
       Wipe, ResetConfig, ResetContext, Broadcast, Fail, SendBossCommand, BeginTurn, Answer, Plan, Reply,
       HandOver, NotifyTaskDone, Finish, RunCritique, Start, vars
  <2> QED
    BY <1>0, <2>1 DEF TypeInv, CountsOK, Counts
<1>3. Home
  BY <1>2 DEF HomeInv
<1>4. ASSUME NEW s \in Slots, Open(s) \/ Step(s) PROVE Home'
  BY <1>1, <1>3, <1>4, HomeOpen, HomeCreateProject, HomeActivate, HomeFind, HomeSetOrchestrator, HomeSetService,
     HomeWriteConfig, HomeGetActiveProject, HomeSetCache, HomeArchiveProject, HomeSeekDM, HomeOpenDM,
     HomeInitFirstRun, HomeGreet, HomeSaveConfig, HomeReset, HomeBroadcast DEF Step
<1>5. ASSUME NEW k \in Cmds,
             \/ SendBossCommand(k) \/ BeginTurn(k) \/ Answer(k) \/ Plan(k) \/ Reply(k)
             \/ HandOver(k) \/ NotifyTaskDone(k) \/ Finish(k)
      PROVE  Home'
  BY <1>3, <1>5, HomeCommands
<1>6. CASE RunCritique
  BY <1>3, <1>6, HomeCritique
<1>7. CASE Start
  BY <1>3, <1>7, HomeStart
<1>8. CASE UNCHANGED vars
  <2>1. UNCHANGED <<saved, listed, active, activeConv, cfg, file, orch, call, cmd, critique>>
    BY <1>8 DEF vars, dbVars, serviceVars, orchVars, cmdVars
  <2> QED
    BY <1>3, <2>1 DEF Home, Joining, Showing, Writing, Knows
<1> QED
  BY <1>4, <1>5, <1>6, <1>7, <1>8 DEF Next

(* When the window makes one call at a time, the application does not stop  *)
(* inside one and no statement or write has failed, every message that is   *)
(* stored has a conversation, except the notices of broadcasts and          *)
(* escalations: a window that shows a channel shows one the orchestrator    *)
(* has been told of, across restarts, resets and archived projects, because *)
(* an active project always has a conversation in the context and its name  *)
(* in the configuration and in the file.                                    *)
THEOREM MessagesHaveConversations ==
    ASSUME OneCall, ~CrashMidCall
    PROVE  Spec => []MessageHasConversation
<1>1. Init => TypeInv /\ SwitchInv /\ HomeInv
  <2> SUFFICES ASSUME Init PROVE HomeInv
    BY InitTypes, SwitchInit
  <2>1. \A t \in Slots : Knows(call[t])
    BY NoCallOp DEF Init, Knows
  <2> QED
    BY <2>1 DEF Init, HomeInv, Home, Housed, Busy
<1>2. TypeInv /\ SwitchInv /\ HomeInv /\ [Next]_vars => TypeInv' /\ SwitchInv' /\ HomeInv'
  BY StepTypes, SwitchStep, HomeStep
<1>3. HomeInv => MessageHasConversation
  BY DEF HomeInv, Home, Housed, MessageHasConversation
<1> QED
  BY <1>1, <1>2, <1>3, PTL DEF Spec

=============================================================================
