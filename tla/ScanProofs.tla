------------------------------ MODULE ScanProofs ------------------------------
(***************************************************************************)
(* Proofs about Scan, for any number of phases, frequencies and tries, and *)
(* any backlog of commands.                                                *)
(*                                                                         *)
(* The inductive invariant Inv says what a call has done at each of its    *)
(* stages (FlowInv); that the measurements under way and unread are two at *)
(* most, and when they are known to be none (BacklogInv); that during a    *)
(* scan they are, in order, its settings from the first not yet added to   *)
(* the last one sent (PipeInv); and where the switches of the VNA are when *)
(* they are where the program wants them (SwitchInv).                      *)
(***************************************************************************)
EXTENDS Scan, TLAPS, FunctionTheorems, FiniteSetTheorems

FlowInv ==
    /\ call = "none" <=> pc = "none"
    /\ call = "reset" =>
           /\ pc \in {"flush", "configure", "reset", "reflush", "return"}
           /\ wanted = Unknown /\ command \in {"single", "generate"}
    /\ call = "switch" =>
           pc \in {"send", "read", "delay"} /\ command \in {"measure", "single"}
    /\ call = "scan" =>
           pc \in {"flush", "set", "read", "off"} /\ command = "measure"
    /\ call = "generate" => pc \in {"send", "read"} /\ command = "single"
    /\ call # "scan" => n = 0 /\ sets = 0 /\ sum = <<>>
    /\ command = "dead" => wanted = Unknown
    /\ pc \in {"flush", "reflush"} => tries \in {0, 1}
    /\ pc = "read" => tries < MaxTries
    /\ pc \notin {"flush", "reflush", "read"} => tries = 0

\* Settings of commands that the VNA has yet to do.
MeasuringIn(q) == {i \in 1..Len(q) : q[i].setting # Unknown}
Count(q) == Cardinality(MeasuringIn(q))

\* A command that measures begins by waiting for the VNA.
BacklogInv ==
    /\ Count(sent) + Len(replies) <= 2
    /\ command = "measure" /\ call = "none" => Count(sent) = 0
    /\ call = "scan" /\ pc = "flush" =>
           Count(sent) = 0 /\ Len(replies) + tries <= 2 /\ sets = 0

\* The settings under way, in order, begin with first and end with last.
InOrder(q, first, final) ==
    /\ \A i \in 1..Len(q) :
           q[i].setting # Unknown => q[i].setting \in first..final
    /\ \A i, j \in 1..Len(q) :
           q[i].setting # Unknown /\ q[j].setting # Unknown /\ i < j =>
               q[i].setting < q[j].setting
    /\ \A v \in first..final : \E i \in 1..Len(q) : q[i].setting = v

\* Where the scan is in its pipeline.
StageInv ==
    /\ n >= 1
    /\ pc = "set" => sets < Phases * n /\ (sets = 0 \/ sets = Len(sum) + 1)
    /\ pc = "read" =>
           /\ Len(sum) < sets /\ sets <= Len(sum) + 2
           /\ sets = Len(sum) + 2 \/ sets = Phases * n
    /\ pc = "off" => sets = Len(sum)

PipeInv ==
    call = "scan" =>
        /\ StageInv
        /\ \A j \in 1..Len(sum) : sum[j].setting = j
        /\ pc # "flush" =>
               /\ Count(sent) + Len(replies) + Len(sum) = sets
               /\ \A i \in 1..Len(replies) : replies[i].setting = Len(sum) + i
               /\ InOrder(sent, Len(sum) + Len(replies) + 1, sets)

\* The last command that moves switches is the one that the program awaits,
\* or has been awaited.
SwitchInv ==
    /\ wanted # Unknown =>
           /\ position = wanted
           /\ \A i \in 1..Len(sent) : sent[i].switch = Unknown
    /\ call = "switch" /\ code # Unknown => wanted = Unknown
    /\ call = "switch" /\ code # Unknown /\ pc \in {"read", "delay"} =>
           IF sent = <<>> THEN position = code
           ELSE sent[Len(sent)] = Switch(code)
    /\ call = "scan" /\ wanted # Unknown =>
           /\ \A j \in 1..Len(sum) : sum[j].switch = wanted
           /\ pc # "flush" =>
                  \A i \in 1..Len(replies) : replies[i].switch = wanted

Inv == TypeOK /\ FlowInv /\ BacklogInv /\ PipeInv /\ SwitchInv

-----------------------------------------------------------------------------
(***************************************************************************)
(* Lemmas about commands under way.                                        *)
(***************************************************************************)
\* The constants are numbers, and the number of phases of a scan is one too.
LEMMA Numbers ==
    /\ Phases \in Nat /\ Phases >= 2 /\ MaxN \in Nat /\ MaxN >= 1
    /\ MaxTries \in Nat /\ MaxTries >= 1 /\ MaxSent \in Nat /\ MaxSent >= 2
    /\ \A m \in 0..MaxN : Phases * m \in Nat /\ Phases * m <= Phases * MaxN
    /\ \A m \in 1..MaxN : Phases * m >= 2
<1>1. /\ Phases \in Nat /\ Phases >= 2 /\ MaxN \in Nat /\ MaxN >= 1
      /\ MaxTries \in Nat /\ MaxTries >= 1 /\ MaxSent \in Nat /\ MaxSent >= 2
  BY ScanAssumption
<1>2. ASSUME NEW m \in 0..MaxN
      PROVE  Phases * m \in Nat /\ Phases * m <= Phases * MaxN
  BY <1>1
<1>3. ASSUME NEW m \in 1..MaxN PROVE Phases * m >= 2
  BY <1>1
<1> QED  BY <1>1, <1>2, <1>3

LEMMA RequestType ==
    /\ Output \in Requests /\ Reset \in Requests /\ Configure \in Requests
    /\ \A c \in SwitchCode \cup {Unknown} : Switch(c) \in Requests
    /\ \A j \in 0..Phases * MaxN : Setting(j) \in Requests
BY Numbers DEF Output, Reset, Configure, Switch, Setting, Request, Requests,
    OpCode, SwitchCode, Unknown

LEMMA CountType ==
    ASSUME NEW q \in Seq(Requests)
    PROVE  /\ IsFiniteSet(MeasuringIn(q))
           /\ Count(q) \in Nat
           /\ Count(q) = 0 <=> \A i \in 1..Len(q) : q[i].setting = Unknown
<1>1. IsFiniteSet(1..Len(q))
  BY FS_Interval
<1>2. IsFiniteSet(MeasuringIn(q))
  BY <1>1, FS_Subset DEF MeasuringIn
<1>3. Count(q) = 0 <=> MeasuringIn(q) = {}
  BY <1>2, FS_EmptySet DEF Count
<1> QED  BY <1>2, <1>3, FS_CardinalityType DEF Count, MeasuringIn

LEMMA AppendCounts ==
    ASSUME NEW q \in Seq(Requests), NEW r \in Requests
    PROVE  /\ Append(q, r) \in Seq(Requests)
           /\ Len(Append(q, r)) = Len(q) + 1
           /\ Count(Append(q, r)) =
                  IF r.setting = Unknown THEN Count(q) ELSE Count(q) + 1
<1>1. IsFiniteSet(MeasuringIn(q))
  BY CountType
<1>2. CASE r.setting = Unknown
  <2>1. MeasuringIn(Append(q, r)) = MeasuringIn(q)
    BY <1>2 DEF MeasuringIn
  <2> QED  BY <1>2, <2>1 DEF Count
<1>3. CASE r.setting # Unknown
  <2>1. MeasuringIn(Append(q, r)) = MeasuringIn(q) \cup {Len(q) + 1}
    BY <1>3 DEF MeasuringIn
  <2>2. Len(q) + 1 \notin MeasuringIn(q)
    BY DEF MeasuringIn
  <2>3. Cardinality(MeasuringIn(q) \cup {Len(q) + 1}) = Count(q) + 1
    BY <1>1, <2>2, FS_AddElement DEF Count
  <2> QED  BY <1>3, <2>1, <2>3 DEF Count
<1> QED  BY <1>2, <1>3

LEMMA TailCounts ==
    ASSUME NEW q \in Seq(Requests), q # <<>>
    PROVE  /\ Tail(q) \in Seq(Requests)
           /\ Len(Tail(q)) = Len(q) - 1
           /\ \A i \in 1..Len(q) - 1 : Tail(q)[i] = q[i + 1]
           /\ Count(Tail(q)) =
                  IF Head(q).setting = Unknown THEN Count(q) ELSE Count(q) - 1
<1> DEFINE S == MeasuringIn(Tail(q))
           T == MeasuringIn(q) \ {1}
           f == [i \in S |-> i + 1]
<1>1. /\ Tail(q) \in Seq(Requests) /\ Len(Tail(q)) = Len(q) - 1
      /\ \A i \in 1..Len(q) - 1 : Tail(q)[i] = q[i + 1]
  OBVIOUS
<1>2. f \in [S -> T]
  BY <1>1 DEF MeasuringIn
<1>3. \A i, j \in S : f[i] = f[j] => i = j
  BY <1>1 DEF MeasuringIn
<1>4. \A t \in T : \E i \in S : f[i] = t
  <2> SUFFICES ASSUME NEW t \in T PROVE t - 1 \in S /\ f[t - 1] = t
    OBVIOUS
  <2> QED  BY <1>1 DEF MeasuringIn
<1>5. ExistsBijection(S, T)
  BY <1>2, <1>3, <1>4, Fun_IsBij, Fun_ExistsBij
<1>6. IsFiniteSet(S) /\ Cardinality(T) = Cardinality(S)
  BY <1>1, <1>5, CountType, FS_Bijection
<1>7. 1 \in MeasuringIn(q) <=> Head(q).setting # Unknown
  BY DEF MeasuringIn
<1>8. IsFiniteSet(MeasuringIn(q))
  BY CountType
<1>9. Cardinality(T) = IF 1 \in MeasuringIn(q) THEN Count(q) - 1 ELSE Count(q)
  BY <1>8, FS_RemoveElement DEF Count
<1> QED  BY <1>1, <1>6, <1>7, <1>9 DEF Count

LEMMA ForgetCounts ==
    ASSUME NEW q \in Seq(Requests)
    PROVE  /\ Forget(q) \in Seq(Requests) /\ Len(Forget(q)) = Len(q)
           /\ Count(Forget(q)) = Count(q)
           /\ \A i \in 1..Len(q) : Forget(q)[i].switch = q[i].switch
<1>1. \A i \in 1..Len(q) :
          /\ q[i] \in Requests
          /\ Forget(q)[i] = IF q[i].setting = Unknown THEN q[i]
                            ELSE [q[i] EXCEPT !.setting = Stale]
  BY DEF Forget
<1>2. ASSUME NEW i \in 1..Len(q)
      PROVE  /\ Forget(q)[i] \in Requests
             /\ Forget(q)[i].setting = Unknown <=> q[i].setting = Unknown
             /\ Forget(q)[i].switch = q[i].switch
  <2>1. Stale \in Unknown..Phases * MaxN /\ Stale # Unknown
    BY Numbers DEF Stale, Unknown
  <2>2. q[i] \in Requests
    OBVIOUS
  <2>3. CASE q[i].setting = Unknown
    BY <1>1, <2>2, <2>3
  <2>4. CASE q[i].setting # Unknown
    <3>1. Forget(q)[i] = [q[i] EXCEPT !.setting = Stale]
      BY <1>1, <2>4
    <3> QED  BY <2>1, <2>2, <2>4, <3>1 DEF Requests
  <2> QED  BY <2>3, <2>4
<1>3. Forget(q) \in Seq(Requests) /\ Len(Forget(q)) = Len(q)
  BY <1>2 DEF Forget
<1>4. MeasuringIn(Forget(q)) = MeasuringIn(q)
  BY <1>2, <1>3 DEF MeasuringIn
<1> QED  BY <1>2, <1>3, <1>4 DEF Count

LEMMA ForgetReplies ==
    ASSUME NEW q \in Seq(Replies)
    PROVE  Forget(q) \in Seq(Replies) /\ Len(Forget(q)) = Len(q)
<1>1. ASSUME NEW i \in 1..Len(q) PROVE Forget(q)[i] \in Replies
  <2>1. q[i] \in Replies /\ Stale \in 0..Phases * MaxN
    BY Numbers DEF Stale
  <2> QED  BY <2>1 DEF Forget, Replies
<1> QED  BY <1>1 DEF Forget

LEMMA NoneInOrder ==
    ASSUME NEW q \in Seq(Requests), Count(q) = 0
    PROVE  InOrder(q, 1, 0)
BY CountType DEF InOrder

LEMMA AppendInOrder ==
    ASSUME NEW q \in Seq(Requests), NEW a \in Nat, NEW b \in Nat, a <= b + 1,
           InOrder(q, a, b)
    PROVE  /\ \A r \in Requests :
                  r.setting = Unknown => InOrder(Append(q, r), a, b)
           /\ \A r \in Requests :
                  r.setting = b + 1 => InOrder(Append(q, r), a, b + 1)
<1>1. ASSUME NEW r \in Requests
      PROVE  /\ Len(Append(q, r)) = Len(q) + 1
             /\ \A i \in 1..Len(q) : Append(q, r)[i] = q[i]
             /\ Append(q, r)[Len(q) + 1] = r
  OBVIOUS
<1>2. ASSUME NEW r \in Requests, r.setting = Unknown
      PROVE  InOrder(Append(q, r), a, b)
  <2>1. \A i \in 1..Len(q) + 1 : Append(q, r)[i].setting # Unknown =>
            i \in 1..Len(q) /\ Append(q, r)[i] = q[i]
    BY <1>1, <1>2
  <2>2. \A i \in 1..Len(q) : i \in 1..Len(q) + 1 /\ Append(q, r)[i] = q[i]
    BY <1>1
  <2>3. \A v \in a..b : \E i \in 1..Len(q) + 1 : Append(q, r)[i].setting = v
    BY <2>2 DEF InOrder
  <2> QED  BY <1>1, <2>1, <2>3 DEF InOrder
<1>3. ASSUME NEW r \in Requests, r.setting = b + 1
      PROVE  InOrder(Append(q, r), a, b + 1)
  <2>1. \A i \in 1..Len(q) + 1 : Append(q, r)[i].setting # Unknown =>
            Append(q, r)[i].setting \in a..(b + 1)
    BY <1>1, <1>3 DEF InOrder, Unknown
  <2>2. \A i, j \in 1..Len(q) + 1 :
            Append(q, r)[i].setting # Unknown /\ Append(q, r)[j].setting # Unknown
            /\ i < j => Append(q, r)[i].setting < Append(q, r)[j].setting
    BY <1>1, <1>3 DEF InOrder, Unknown
  <2>3. \A v \in a..(b + 1) :
            \E i \in 1..Len(q) + 1 : Append(q, r)[i].setting = v
    BY <1>1, <1>3 DEF InOrder
  <2> QED  BY <1>1, <2>1, <2>2, <2>3 DEF InOrder
<1> QED  BY <1>2, <1>3

LEMMA TailInOrder ==
    ASSUME NEW q \in Seq(Requests), q # <<>>, NEW a \in Nat, NEW b \in Nat,
           InOrder(q, a, b)
    PROVE  /\ Head(q).setting = Unknown => InOrder(Tail(q), a, b)
           /\ Head(q).setting # Unknown =>
                  /\ Head(q).setting = a /\ a <= b
                  /\ InOrder(Tail(q), a + 1, b)
<1>1. /\ Len(Tail(q)) = Len(q) - 1 /\ Len(q) \in Nat /\ Len(q) >= 1
      /\ \A i \in 1..Len(q) - 1 : Tail(q)[i] = q[i + 1]
      /\ \A i \in 1..Len(q) : q[i].setting \in Int
  <2>1. \A i \in 1..Len(q) : q[i] \in Requests
    OBVIOUS
  <2>2. \A r \in Requests : r.setting \in Int
    BY DEF Requests
  <2> QED  BY <2>1, <2>2
<1>2. ASSUME Head(q).setting = Unknown PROVE InOrder(Tail(q), a, b)
  <2>1. \A v \in a..b : \E i \in 1..Len(q) - 1 : Tail(q)[i].setting = v
    <3> SUFFICES ASSUME NEW v \in a..b
                 PROVE  \E i \in 1..Len(q) - 1 : Tail(q)[i].setting = v
      OBVIOUS
    <3>1. PICK i \in 1..Len(q) : q[i].setting = v
      BY DEF InOrder
    <3>2. i # 1
      BY <1>2, <3>1 DEF Unknown
    <3>3. i - 1 \in 1..Len(q) - 1 /\ Tail(q)[i - 1] = q[(i - 1) + 1]
      BY <1>1, <3>2
    <3>4. q[(i - 1) + 1] = q[i]
      OBVIOUS
    <3> QED  BY <3>1, <3>3, <3>4
  <2> QED  BY <1>1, <2>1 DEF InOrder
<1>3. ASSUME Head(q).setting # Unknown
      PROVE  /\ Head(q).setting = a /\ a <= b
             /\ InOrder(Tail(q), a + 1, b)
  <2>1. Head(q) = q[1] /\ q[1].setting \in a..b
    BY <1>1, <1>3 DEF InOrder
  <2>2. PICK k \in 1..Len(q) : q[k].setting = a
    BY <2>1 DEF InOrder
  <2>3. k > 1 => q[1].setting < q[k].setting
    BY <1>1, <1>3, <2>1, <2>2 DEF InOrder, Unknown
  <2>4. q[1].setting = a /\ a <= b
    BY <1>1, <2>1, <2>2, <2>3
  <2>5. \A j \in 2..Len(q) : q[j].setting # Unknown =>
            q[j].setting \in (a + 1)..b
    BY <1>1, <1>3, <2>1, <2>4 DEF InOrder
  <2>6. \A v \in (a + 1)..b : \E i \in 1..Len(q) - 1 : Tail(q)[i].setting = v
    <3> SUFFICES ASSUME NEW v \in (a + 1)..b
                 PROVE  \E i \in 1..Len(q) - 1 : Tail(q)[i].setting = v
      OBVIOUS
    <3>1. PICK i \in 1..Len(q) : q[i].setting = v
      BY DEF InOrder
    <3>2. i # 1
      BY <2>4, <3>1
    <3>3. i - 1 \in 1..Len(q) - 1 /\ Tail(q)[i - 1] = q[(i - 1) + 1]
      BY <1>1, <3>2
    <3>4. q[(i - 1) + 1] = q[i]
      OBVIOUS
    <3> QED  BY <3>1, <3>3, <3>4
  <2>7. \A i \in 1..Len(q) - 1 : Tail(q)[i].setting # Unknown =>
            Tail(q)[i].setting \in (a + 1)..b
    BY <1>1, <2>5
  <2>8. \A i, j \in 1..Len(q) - 1 :
            Tail(q)[i].setting # Unknown /\ Tail(q)[j].setting # Unknown
            /\ i < j => Tail(q)[i].setting < Tail(q)[j].setting
    BY <1>1 DEF InOrder
  <2> QED  BY <1>1, <2>1, <2>4, <2>6, <2>7, <2>8 DEF InOrder
<1> QED  BY <1>2, <1>3

-----------------------------------------------------------------------------
(***************************************************************************)
(* What the parts of the calls do.                                         *)
(***************************************************************************)
LEMMA TransferEffect ==
    ASSUME TypeOK, NEW r \in Requests, sent' \in {sent} \cup Accepted(r)
    PROVE  /\ sent' = sent \/ sent' = Append(sent, r)
           /\ sent' \in Seq(Requests) /\ Len(sent') <= MaxSent
           /\ Count(sent') <= Count(sent) + 1
           /\ r.setting = Unknown => Count(sent') = Count(sent)
           /\ r.switch = Unknown /\ (\A i \in 1..Len(sent) : sent[i].switch = Unknown)
                => \A i \in 1..Len(sent') : sent'[i].switch = Unknown
<1>1. sent \in Seq(Requests) /\ Len(sent) <= MaxSent
  BY DEF TypeOK
<1>2. /\ Append(sent, r) \in Seq(Requests)
      /\ Len(Append(sent, r)) = Len(sent) + 1
      /\ Count(sent) \in Nat
      /\ Count(Append(sent, r)) =
             IF r.setting = Unknown THEN Count(sent) ELSE Count(sent) + 1
  BY <1>1, AppendCounts, CountType
<1>3. CASE sent' = sent
  BY <1>1, <1>2, <1>3
<1>4. CASE sent' = Append(sent, r) /\ Len(sent) < MaxSent
  <2>1. Len(sent') <= MaxSent
    BY <1>1, <1>2, <1>4, Numbers
  <2>2. r.switch = Unknown /\ (\A i \in 1..Len(sent) : sent[i].switch = Unknown)
            => \A i \in 1..Len(sent') : sent'[i].switch = Unknown
    BY <1>1, <1>2, <1>4
  <2> QED  BY <1>2, <1>4, <2>1, <2>2
<1> QED  BY <1>3, <1>4 DEF Accepted

LEMMA TakeEffect ==
    ASSUME TypeOK, Take
    PROVE  /\ replies' \in Seq(Replies)
           /\ Len(replies') =
                  IF replies = <<>> THEN Len(replies) ELSE Len(replies) - 1
           /\ \A i \in 1..Len(replies') :
                  replies # <<>> => replies'[i] = replies[i + 1]
           /\ replies = <<>> => replies' = replies
BY DEF TypeOK, Take

LEMMA PacketType ==
    ASSUME TypeOK
    PROVE  /\ replies # <<>> =>
                  /\ Packet = replies[1] /\ Packet \in Replies
                  /\ Packet.op = "0x55" /\ Packet.values
           /\ replies = <<>> => ~Packet.values
<1>1. replies \in Seq(Replies)
  BY DEF TypeOK
<1>2. replies # <<>> => replies[1] \in Replies /\ Packet = replies[1]
  BY <1>1 DEF Packet
<1>3. \A r \in Replies : r.op = "0x55" /\ r.values
  BY DEF Replies
<1>4. replies = <<>> => ~Packet.values
  BY DEF Packet
<1> QED  BY <1>2, <1>3, <1>4

\* A call that fails leaves its replies behind, two at most.
LEMMA FailPreserves ==
    ASSUME Inv, Fail, tries' = 0, UNCHANGED <<wanted, last, position>>,
           sent' \in Seq(Requests), Len(sent') <= MaxSent,
           replies' \in Seq(Replies), Count(sent') + Len(replies') <= 2,
           wanted # Unknown =>
               \A i \in 1..Len(sent') : sent'[i].switch = Unknown
    PROVE  Inv'
<1> USE DEF Fail, Ends
<1>1. TypeOK'
  BY Numbers DEF Inv, TypeOK, SwitchCode, Unknown
<1>2. FlowInv'
  BY DEF Inv, FlowInv
<1>3. BacklogInv'
  BY DEF Inv, BacklogInv
<1>4. PipeInv'
  BY DEF PipeInv
<1>5. SwitchInv'
  BY DEF Inv, SwitchInv
<1> QED  BY <1>1, <1>2, <1>3, <1>4, <1>5 DEF Inv

LEMMA CountBound ==
    ASSUME NEW q \in Seq(Requests)
    PROVE  Count(q) \in Nat /\ Count(q) <= Len(q)
<1>1. Len(q) \in Nat /\ MeasuringIn(q) \subseteq 1..Len(q)
  BY DEF MeasuringIn
<1>2. /\ IsFiniteSet(1..Len(q))
      /\ Cardinality(1..Len(q)) = IF 1 > Len(q) THEN 0 ELSE Len(q) - 1 + 1
  BY <1>1, FS_Interval
<1>3. Cardinality(1..Len(q)) = Len(q)
  BY <1>1, <1>2
<1> QED  BY <1>1, <1>2, <1>3, FS_Subset, CountType DEF Count

LEMMA InitInv == Init => Inv
<1> SUFFICES ASSUME Init PROVE Inv
  OBVIOUS
<1>1. Setting(Stale) \in Requests
  BY RequestType, Numbers DEF Stale
<1>2. Setting(Stale).switch = Unknown
  BY DEF Setting, Request
<1>3. sent \in Seq(Requests) /\ Len(sent) <= 2
  <2>1. CASE sent = <<>>
    BY <2>1
  <2>2. CASE sent = <<Setting(Stale)>>
    BY <1>1, <2>2
  <2>3. CASE sent = <<Setting(Stale), Setting(Stale)>>
    BY <1>1, <2>3
  <2> QED  BY <2>1, <2>2, <2>3 DEF Init
<1>4. Count(sent) \in Nat /\ Count(sent) <= 2
  BY <1>3, CountBound
<1>5. TypeOK
  <2>1. sum \in Seq(Replies) /\ Len(sum) = 0 /\ replies \in Seq(Replies)
    BY DEF Init
  <2> QED  BY <1>3, <2>1, Numbers DEF Init, TypeOK, SwitchCode, Unknown
<1>6. FlowInv
  BY DEF Init, FlowInv
<1>7. BacklogInv
  <2>1. Len(replies) = 0
    BY DEF Init
  <2> QED  BY <1>4, <2>1 DEF Init, BacklogInv
<1>8. PipeInv /\ SwitchInv
  BY DEF Init, PipeInv, SwitchInv
<1> QED  BY <1>5, <1>6, <1>7, <1>8 DEF Inv

-----------------------------------------------------------------------------
(***************************************************************************)
(* n2pkvna_reset.                                                          *)
(***************************************************************************)
\* Within a reset only the backlog of the VNA matters.
LEMMA ResetGoesOn ==
    ASSUME Inv, call = "reset",
           NEW next \in {"flush", "configure", "reset", "reflush", "return"},
           Goto(next), tries' \in {0, 1},
           tries' # 0 => next \in {"flush", "reflush"},
           UNCHANGED <<wanted, last, position>>,
           sent' \in Seq(Requests), Len(sent') <= MaxSent,
           replies' \in Seq(Replies), Count(sent') + Len(replies') <= 2
    PROVE  Inv'
<1> USE DEF Goto, Advance
<1>1. TypeOK'
  BY Numbers DEF Inv, TypeOK
<1>2. FlowInv'
  BY DEF Inv, FlowInv
<1>3. BacklogInv' /\ PipeInv' /\ SwitchInv'
  BY DEF Inv, FlowInv, BacklogInv, PipeInv, SwitchInv
<1> QED  BY <1>1, <1>2, <1>3 DEF Inv

LEMMA ResetFlushPreserves == Inv /\ ResetFlush => Inv'
<1> SUFFICES ASSUME Inv, ResetFlush PROVE Inv'
  OBVIOUS
<1>1. /\ call = "reset" /\ UNCHANGED <<wanted, sent, last, position>>
      /\ sent \in Seq(Requests) /\ Len(sent) <= MaxSent
      /\ Count(sent) \in Nat /\ Count(sent) + Len(replies) <= 2
      /\ replies \in Seq(Replies) /\ tries \in Nat
  BY CountType DEF ResetFlush, Inv, TypeOK, BacklogInv
<1>2. Take => /\ replies' \in Seq(Replies)
              /\ Count(sent) + Len(replies') <= 2
  BY <1>1, TakeEffect DEF Inv
<1>3. replies' = replies =>
          replies' \in Seq(Replies) /\ Count(sent) + Len(replies') <= 2
  BY <1>1
<1>4. ASSUME NEW at \in {"flush", "reflush"},
             NEW next \in {"configure", "return"},
             FlushInput(at, next, Goto(next))
      PROVE  Inv'
  <2>1. pc = at /\ tries \in {0, 1}
    BY <1>1, <1>4 DEF FlushInput, Inv, FlowInv
  <2>2. CASE Take /\ Goto(at) /\ tries' = 1
    BY <1>1, <1>2, <2>2, ResetGoesOn
  <2>3. CASE Goto(next) /\ tries' = 0 /\ (Take \/ replies' = replies)
    BY <1>1, <1>2, <1>3, <2>3, ResetGoesOn
  <2> QED  BY <1>4, <2>1, <2>2, <2>3 DEF FlushInput
<1> QED  BY <1>4 DEF ResetFlush

LEMMA ResetSendPreserves == Inv /\ ResetSend => Inv'
<1> SUFFICES ASSUME Inv, ResetSend PROVE Inv'
  OBVIOUS
<1>1. /\ call = "reset" /\ UNCHANGED <<tries, wanted, replies, last, position>>
      /\ wanted = Unknown /\ tries = 0 /\ tries' = 0 /\ TypeOK
      /\ replies' \in Seq(Replies) /\ Count(sent) + Len(replies) <= 2
  BY DEF ResetSend, Inv, TypeOK, FlowInv, BacklogInv
<1>2. ASSUME NEW r \in {Configure, Reset}, sent' \in {sent} \cup Accepted(r)
      PROVE  /\ sent' \in Seq(Requests) /\ Len(sent') <= MaxSent
             /\ Count(sent') + Len(replies') <= 2
  <2>1. r \in Requests /\ r.setting = Unknown
    BY RequestType DEF Configure, Reset, Request
  <2>2. /\ sent' \in Seq(Requests) /\ Len(sent') <= MaxSent
        /\ Count(sent') = Count(sent)
    BY <1>1, <1>2, <2>1, TransferEffect
  <2> QED  BY <1>1, <2>2
<1>3. ASSUME NEW r \in {Configure, Reset}, NEW next \in {"reset", "reflush"},
             Transfer(r, Goto(next))
      PROVE  Inv'
  <2>1. CASE sent' \in Accepted(r) /\ Goto(next)
    BY <1>1, <1>2, <2>1, ResetGoesOn
  <2>2. CASE sent' \in {sent} \cup Accepted(r) /\ Fail
    BY <1>1, <1>2, <2>2, FailPreserves
  <2> QED  BY <1>3, <2>1, <2>2 DEF Transfer
<1> QED  BY <1>3 DEF ResetSend

\* A command that does not measure goes on to whatever comes next.
LEMMA ResetReturnPreserves == Inv /\ ResetReturn => Inv'
<1> SUFFICES ASSUME Inv, ResetReturn PROVE Inv'
  OBVIOUS
<1> USE DEF ResetReturn, Return, Ends, vnaVars
<1>1. TypeOK'
  BY Numbers DEF Inv, TypeOK, Unknown
<1>2. FlowInv'
  BY DEF Inv, FlowInv
<1>3. BacklogInv' /\ PipeInv' /\ SwitchInv'
  BY DEF Inv, FlowInv, BacklogInv, PipeInv, SwitchInv, Count, MeasuringIn
<1> QED  BY <1>1, <1>2, <1>3 DEF Inv

-----------------------------------------------------------------------------
(***************************************************************************)
(* n2pkvna_switch.                                                         *)
(***************************************************************************)
LEMMA SwitchSendPreserves == Inv /\ SwitchSend => Inv'
<1> SUFFICES ASSUME Inv, SwitchSend PROVE Inv'
  OBVIOUS
<1>1. /\ call = "switch" /\ UNCHANGED <<tries, wanted, replies, last, position>>
      /\ tries = 0 /\ command \in {"measure", "single"}
      /\ n = 0 /\ sets = 0 /\ sum = <<>>
      /\ TypeOK /\ code \in SwitchCode \cup {Unknown} /\ sent \in Seq(Requests)
      /\ replies' \in Seq(Replies) /\ Count(sent) + Len(replies) <= 2
      /\ Transfer(Switch(code), Goto("read"))
      /\ wanted # Unknown =>
             code = Unknown /\ \A i \in 1..Len(sent) : sent[i].switch = Unknown
  BY DEF SwitchSend, Inv, TypeOK, FlowInv, BacklogInv, SwitchInv
<1>2. Switch(code) \in Requests
  BY <1>1, RequestType
<1>3. Switch(code).setting = Unknown /\ Switch(code).switch = code
  BY DEF Switch, Request
<1>4. /\ sent' = sent \/ sent' = Append(sent, Switch(code))
      /\ sent' \in Seq(Requests) /\ Len(sent') <= MaxSent
      /\ Count(sent') = Count(sent)
      /\ wanted # Unknown => \A i \in 1..Len(sent') : sent'[i].switch = Unknown
  <2>1. sent' \in {sent} \cup Accepted(Switch(code))
    BY <1>1 DEF Transfer
  <2> QED  BY <1>1, <1>2, <1>3, <2>1, TransferEffect
<1>5. Count(sent') + Len(replies') <= 2
  BY <1>1, <1>4
<1>6. CASE Fail
  BY <1>1, <1>4, <1>5, <1>6, FailPreserves
<1>7. CASE sent' \in Accepted(Switch(code)) /\ Goto("read")
  <2> USE DEF Goto, Advance
  <2>1. TypeOK'
    BY <1>1, <1>4, <1>7 DEF TypeOK
  <2>2. FlowInv'
    BY <1>1, <1>7, Numbers DEF Inv, FlowInv
  <2>3. BacklogInv' /\ PipeInv'
    BY <1>1, <1>5, <1>7 DEF BacklogInv, PipeInv
  <2>4. sent' = Append(sent, Switch(code))
    BY <1>7 DEF Accepted
  <2>5. sent' # <<>> /\ sent'[Len(sent')] = Switch(code)
    BY <1>1, <1>2, <2>4
  <2>6. SwitchInv'
    BY <1>1, <1>4, <1>7, <2>5 DEF Inv, SwitchInv
  <2> QED  BY <2>1, <2>2, <2>3, <2>6 DEF Inv
<1> QED  BY <1>1, <1>6, <1>7 DEF Transfer

LEMMA SwitchReadPreserves == Inv /\ SwitchRead => Inv'
<1> SUFFICES ASSUME Inv, SwitchRead PROVE Inv'
  OBVIOUS
<1>1. /\ call = "switch" /\ pc = "read"
      /\ UNCHANGED <<wanted, sent, last, position>>
      /\ tries \in Nat /\ command \in {"measure", "single"}
      /\ TypeOK /\ sent \in Seq(Requests) /\ Len(sent) <= MaxSent
      /\ Count(sent) \in Nat
      /\ replies \in Seq(Replies) /\ Count(sent) + Len(replies) <= 2
      /\ wanted # Unknown => \A i \in 1..Len(sent) : sent[i].switch = Unknown
  BY CountType DEF SwitchRead, Inv, TypeOK, FlowInv, BacklogInv, SwitchInv
<1>2. /\ replies' \in Seq(Replies) /\ Len(replies') <= Len(replies)
      /\ \/ Fail /\ tries' = 0
         \/ Goto("read") /\ tries' = tries + 1 /\ tries + 1 < MaxTries
         \/ Goto("delay") /\ tries' = 0
  <2>1. Take => replies' \in Seq(Replies) /\ Len(replies') <= Len(replies)
    BY <1>1, TakeEffect
  <2> QED  BY <1>1, <2>1 DEF SwitchRead, ReadStatus
<1>3. Count(sent') + Len(replies') <= 2
  BY <1>1, <1>2
<1>4. CASE Fail /\ tries' = 0
  BY <1>1, <1>2, <1>3, <1>4, FailPreserves
<1>5. CASE \/ Goto("read") /\ tries' = tries + 1 /\ tries + 1 < MaxTries
           \/ Goto("delay") /\ tries' = 0
  <2> USE DEF Goto, Advance
  <2>1. TypeOK'
    BY SMTT(30), <1>1, <1>2, <1>5, Numbers DEF TypeOK
  <2>2. FlowInv'
    BY <1>1, <1>5 DEF Inv, FlowInv
  <2>3. BacklogInv' /\ PipeInv'
    BY <1>1, <1>3, <1>5 DEF BacklogInv, PipeInv
  <2>4. SwitchInv'
    BY <1>1, <1>5 DEF Inv, SwitchInv
  <2> QED  BY <2>1, <2>2, <2>3, <2>4 DEF Inv
<1> QED  BY <1>2, <1>4, <1>5

\* After the delay the VNA has done all that it was sent.
LEMMA SwitchDelayPreserves == Inv /\ SwitchDelay => Inv'
<1> SUFFICES ASSUME Inv, SwitchDelay PROVE Inv'
  OBVIOUS
<1> USE DEF SwitchDelay, Return, Ends, vnaVars
<1>1. sent = <<>> /\ sent' = sent /\ sent \in Seq(Requests) /\ Len(sent) = 0
  BY DEF Inv, TypeOK
<1>2. Count(sent') = 0
  <2>1. sent \in Seq(Requests) /\ Len(sent) = 0
    BY <1>1
  <2>2. Count(sent) \in Nat /\ Count(sent) <= Len(sent)
    BY ONLY <2>1, CountBound
  <2> QED  BY <1>1, <2>1, <2>2
<1>3. TypeOK'
  BY Numbers DEF Inv, TypeOK, Unknown
<1>4. FlowInv'
  BY DEF Inv, FlowInv
<1>5. BacklogInv' /\ PipeInv'
  BY <1>1, <1>2 DEF Inv, BacklogInv, PipeInv
<1>6. SwitchInv'
  BY <1>1 DEF Inv, SwitchInv
<1> QED  BY <1>3, <1>4, <1>5, <1>6 DEF Inv

-----------------------------------------------------------------------------
(***************************************************************************)
(* n2pkvna_scan.                                                           *)
(***************************************************************************)
\* What is known in a scan, in the terms that its steps use.
LEMMA InScan ==
    ASSUME Inv, call = "scan"
    PROVE  /\ TypeOK /\ command = "measure" /\ StageInv
           /\ sent \in Seq(Requests) /\ Len(sent) <= MaxSent
           /\ sum \in Seq(Replies) /\ replies \in Seq(Replies)
           /\ n \in 1..MaxN /\ Phases * n \in Nat
           /\ Phases * n >= 2 /\ Phases * n <= Phases * MaxN
           /\ sets \in 0..Phases * n /\ tries \in Nat
           /\ Len(sum) \in Nat /\ Len(sum) <= sets
           /\ Count(sent) \in Nat /\ Len(replies) \in Nat
           /\ Count(sent) + Len(replies) <= 2
           /\ \A j \in 1..Len(sum) : sum[j].setting = j
           /\ wanted # Unknown =>
                  \A i \in 1..Len(sent) : sent[i].switch = Unknown
<1>1. /\ TypeOK /\ command = "measure" /\ StageInv /\ n \in 1..MaxN
      /\ \A j \in 1..Len(sum) : sum[j].setting = j
      /\ wanted # Unknown => \A i \in 1..Len(sent) : sent[i].switch = Unknown
      /\ Count(sent) + Len(replies) <= 2
  <2>1. TypeOK /\ command = "measure" /\ StageInv
    BY DEF Inv, FlowInv, PipeInv
  <2>2. n \in 1..MaxN
    BY <2>1, Numbers DEF TypeOK, StageInv
  <2> QED  BY <2>1, <2>2 DEF Inv, PipeInv, SwitchInv, BacklogInv
<1>2. /\ sent \in Seq(Requests) /\ Len(sent) <= MaxSent
      /\ sum \in Seq(Replies) /\ replies \in Seq(Replies)
      /\ sets \in 0..Phases * n /\ Len(sum) <= sets /\ tries \in Nat
  BY <1>1 DEF TypeOK
<1>3. Phases * n \in Nat /\ Phases * n >= 2 /\ Phases * n <= Phases * MaxN
  BY <1>1, Numbers
<1>4. Count(sent) \in Nat
  BY <1>2, CountType
<1> QED  BY <1>1, <1>2, <1>3, <1>4

LEMMA ScanFlushPreserves == Inv /\ ScanFlush => Inv'
<1> SUFFICES ASSUME Inv, ScanFlush PROVE Inv'
  OBVIOUS
<1>1. /\ call = "scan" /\ UNCHANGED <<wanted, sent, last, position>>
      /\ FlushInput("flush", "set", Fail) /\ pc = "flush"
  BY DEF ScanFlush, FlushInput
<1>2. /\ tries \in {0, 1} /\ Count(sent) = 0
      /\ Len(replies) + tries <= 2 /\ sets = 0
  BY <1>1 DEF Inv, FlowInv, BacklogInv
<1>3. /\ sent \in Seq(Requests) /\ replies \in Seq(Replies)
      /\ Len(sum) = 0 /\ Phases * n \in Nat /\ Phases * n >= 2
      /\ sum \in Seq(Replies) /\ Len(sent) <= MaxSent
      /\ Count(sent) + Len(replies) <= 2
      /\ wanted # Unknown =>
             \A i \in 1..Len(sent) : sent[i].switch = Unknown
  BY <1>1, <1>2, InScan
<1>4. Take => /\ replies' \in Seq(Replies) /\ Len(replies') <= Len(replies)
              /\ Len(replies') + tries + 1 <= 2 \/ Len(replies') = 0
  BY <1>2, <1>3, TakeEffect DEF Inv
<1>5. CASE replies' = replies /\ Fail /\ tries' = 0
  BY <1>1, <1>3, <1>5, FailPreserves
<1>6. CASE Take /\ Goto("flush") /\ tries' = 1 /\ tries = 0
  <2> USE DEF Goto, Advance
  <2>1. Len(replies') + tries' <= 2
    BY <1>2, <1>3, <1>4, <1>6
  <2>2. TypeOK'
    BY <1>1, <1>4, <1>6, Numbers DEF Inv, TypeOK
  <2>3. FlowInv'
    BY <1>1, <1>6 DEF Inv, FlowInv
  <2>4. BacklogInv'
    BY <1>1, <1>2, <1>4, <1>6, <2>1, <2>2 DEF BacklogInv, TypeOK
  <2>5. PipeInv' /\ SwitchInv'
    BY <1>1, <1>6 DEF Inv, PipeInv, SwitchInv, StageInv
  <2> QED  BY <2>2, <2>3, <2>4, <2>5 DEF Inv
<1>7. CASE Take /\ Goto("set") /\ tries' = 0 /\ tries = 1
  <2> USE DEF Goto, Advance
  <2>1. replies' \in Seq(Replies) /\ Len(replies') = 0
    BY <1>3, <1>4, <1>7
  <2>2. TypeOK'
    BY <1>1, <1>7, <2>1, Numbers DEF Inv, TypeOK
  <2>3. FlowInv'
    BY <1>1, <1>7 DEF Inv, FlowInv
  <2>4. BacklogInv'
    BY <1>1, <1>2, <1>7, <2>1 DEF Inv, FlowInv, BacklogInv
  <2>5. InOrder(sent, 1, 0)
    BY <1>2, <1>3, NoneInOrder
  <2>6. PipeInv'
    BY <1>1, <1>2, <1>3, <1>7, <2>1, <2>5 DEF Inv, PipeInv, StageInv
  <2>7. SwitchInv'
    BY <1>1, <1>7, <2>1 DEF Inv, SwitchInv
  <2> QED  BY <2>2, <2>3, <2>4, <2>6, <2>7 DEF Inv
<1> QED  BY <1>1, <1>2, <1>5, <1>6, <1>7 DEF FlushInput

\* A setting is sent when no more than one is under way or unread.
LEMMA ScanSetPreserves == Inv /\ ScanSet => Inv'
<1> SUFFICES ASSUME Inv, ScanSet PROVE Inv'
  OBVIOUS
<1> DEFINE r == Setting(sets + 1)
<1>1. /\ call = "scan" /\ pc = "set"
      /\ UNCHANGED <<tries, wanted, replies, last, position>>
      /\ Transfer(r, Advance(AfterSet, sets + 1, sum))
  BY DEF ScanSet
<1>2. /\ TypeOK /\ command = "measure"
      /\ sent \in Seq(Requests) /\ replies \in Seq(Replies)
      /\ sum \in Seq(Replies) /\ n \in 1..MaxN /\ Phases * n \in Nat
      /\ Phases * n >= 2 /\ Phases * n <= Phases * MaxN
      /\ sets \in 0..Phases * n /\ Len(sum) \in Nat /\ Len(sum) <= sets
      /\ Count(sent) \in Nat /\ Len(replies) \in Nat
      /\ \A j \in 1..Len(sum) : sum[j].setting = j
      /\ wanted # Unknown =>
             \A i \in 1..Len(sent) : sent[i].switch = Unknown
  BY <1>1, InScan
<1>3. /\ sets < Phases * n /\ (sets = 0 \/ sets = Len(sum) + 1)
      /\ Count(sent) + Len(replies) + Len(sum) = sets /\ tries = 0
      /\ \A i \in 1..Len(replies) : replies[i].setting = Len(sum) + i
      /\ InOrder(sent, Len(sum) + Len(replies) + 1, sets)
  BY <1>1 DEF Inv, FlowInv, PipeInv, StageInv
<1>4. Count(sent) + Len(replies) <= 1
  BY <1>2, <1>3
<1>5. r \in Requests /\ r.setting = sets + 1 /\ r.switch = Unknown
  <2>1. sets + 1 \in 0..Phases * MaxN
    <3>1. Phases * MaxN \in Nat
      BY Numbers
    <3>2. sets \in Nat /\ sets + 1 <= Phases * n
      BY <1>2, <1>3
    <3> HIDE DEF r
    <3> QED  BY <1>2, <3>1, <3>2
  <2> QED  BY <2>1, RequestType DEF Setting, Request
<1>6. /\ sent' \in Seq(Requests) /\ Len(sent') <= MaxSent
      /\ Count(sent') <= Count(sent) + 1
      /\ wanted # Unknown => \A i \in 1..Len(sent') : sent'[i].switch = Unknown
  <2>1. sent' \in {sent} \cup Accepted(r)
    BY <1>1 DEF Transfer
  <2> QED  BY <1>2, <1>5, <2>1, TransferEffect
<1>7. Count(sent') \in Nat /\ Count(sent') + Len(replies') <= 2
  <2>1. Count(sent') \in Nat
    BY <1>6, CountType
  <2> QED  BY <1>1, <1>2, <1>4, <1>6, <2>1
<1>8. CASE Fail
  BY <1>1, <1>2, <1>3, <1>6, <1>7, <1>8, FailPreserves
<1>9. CASE sent' \in Accepted(r) /\ Advance(AfterSet, sets + 1, sum)
  <2> USE DEF Advance
  <2>1. sent' = Append(sent, r)
    BY <1>9 DEF Accepted
  <2>2. Count(sent') = Count(sent) + 1
    BY <1>2, <1>5, <2>1, AppendCounts DEF Unknown
  <2>3. InOrder(sent', Len(sum) + Len(replies) + 1, sets + 1)
    <3>1. /\ Len(sum) + Len(replies) + 1 \in Nat /\ sets \in Nat
          /\ Len(sum) + Len(replies) + 1 <= sets + 1
      BY <1>2, <1>3
    <3> QED  BY <1>2, <1>3, <1>5, <2>1, <3>1, AppendInOrder
  <2>4. /\ pc' = AfterSet /\ sets' = sets + 1 /\ sum' = sum
        /\ UNCHANGED <<command, call, n, code>>
    BY <1>9
  <2>5. pc' = IF sets = 0 THEN "set" ELSE "read"
    BY <2>4 DEF AfterSet
  <2>6. TypeOK'
    <3>1. sets' \in 0..Phases * n' /\ Len(sum') <= sets'
      BY <1>2, <1>3, <2>4
    <3> QED  BY <1>1, <1>2, <1>6, <2>4, <2>5, <3>1 DEF TypeOK
  <2>7. FlowInv'
    BY <1>1, <1>2, <1>3, <2>4, <2>5, Numbers DEF FlowInv
  <2>8. BacklogInv'
    BY <1>1, <1>7, <2>4, <2>5 DEF BacklogInv
  <2>9. PipeInv'
    <3>1. StageInv'
      BY <1>2, <1>3, <2>4, <2>5 DEF StageInv
    <3>2. Count(sent') + Len(replies') + Len(sum') = sets'
      BY <1>1, <1>2, <1>3, <2>2, <2>4
    <3> QED  BY <1>1, <1>2, <1>3, <2>3, <2>4, <3>1, <3>2 DEF PipeInv
  <2>10. SwitchInv'
    BY <1>1, <1>6, <2>4, <2>5 DEF Inv, SwitchInv
  <2> QED  BY <2>6, <2>7, <2>8, <2>9, <2>10 DEF Inv
<1> QED  BY <1>1, <1>8, <1>9 DEF Transfer

\* The measurement read is the oldest, of the first setting not yet added; when
\* there is none the read is tried again.
LEMMA ScanReadPreserves == Inv /\ ScanRead => Inv'
<1> SUFFICES ASSUME Inv, ScanRead PROVE Inv'
  OBVIOUS
<1>1. /\ call = "scan" /\ pc = "read"
      /\ UNCHANGED <<wanted, sent, last, position>>
      /\ ReadStatus("0x55", TRUE, Advance(AfterRead, sets, Append(sum, Packet)))
  BY DEF ScanRead
<1>2. /\ TypeOK /\ command = "measure"
      /\ sent \in Seq(Requests) /\ Len(sent) <= MaxSent
      /\ replies \in Seq(Replies) /\ tries \in Nat
      /\ sum \in Seq(Replies) /\ n \in 1..MaxN /\ Phases * n \in Nat
      /\ sets \in 0..Phases * n /\ Len(sum) \in Nat
      /\ Count(sent) \in Nat /\ Len(replies) \in Nat
      /\ Count(sent) + Len(replies) <= 2
      /\ \A j \in 1..Len(sum) : sum[j].setting = j
      /\ wanted # Unknown =>
             \A i \in 1..Len(sent) : sent[i].switch = Unknown
  BY <1>1, InScan
<1>3. /\ Len(sum) < sets /\ sets <= Len(sum) + 2
      /\ sets = Len(sum) + 2 \/ sets = Phases * n
      /\ Count(sent) + Len(replies) + Len(sum) = sets
      /\ \A i \in 1..Len(replies) : replies[i].setting = Len(sum) + i
      /\ InOrder(sent, Len(sum) + Len(replies) + 1, sets)
      /\ wanted # Unknown =>
             /\ \A j \in 1..Len(sum) : sum[j].switch = wanted
             /\ \A i \in 1..Len(replies) : replies[i].switch = wanted
  BY <1>1 DEF Inv, PipeInv, StageInv, SwitchInv
<1>4. Take => replies' \in Seq(Replies) /\ Len(replies') <= Len(replies)
  BY <1>2, TakeEffect
<1>5. /\ replies = <<>> => ~Packet.values
      /\ replies # <<>> => Packet = replies[1] /\ Packet \in Replies
                           /\ Packet.op = "0x55" /\ Packet.values
  BY <1>2, PacketType
<1>6. CASE Fail /\ tries' = 0 /\ (UNCHANGED replies \/ Take)
  <2>1. replies' \in Seq(Replies) /\ Len(replies') <= Len(replies)
    BY <1>2, <1>4, <1>6
  <2>2. Count(sent') + Len(replies') <= 2
    BY <1>1, <1>2, <2>1
  <2> QED  BY <1>1, <1>2, <1>6, <2>1, <2>2, FailPreserves
<1>7. CASE /\ Take /\ replies = <<>> /\ Goto("read")
           /\ tries + 1 < MaxTries /\ tries' = tries + 1
  <2> USE DEF Goto, Advance
  <2>1. replies' = replies
    BY <1>7 DEF Take
  <2>2. TypeOK'
    BY <1>1, <1>2, <1>7, <2>1, Numbers DEF TypeOK
  <2>3. FlowInv'
    BY <1>1, <1>7 DEF Inv, FlowInv
  <2>4. BacklogInv'
    BY <1>1, <1>7, <2>1 DEF Inv, BacklogInv
  <2>5. PipeInv'
    BY <1>1, <1>7, <2>1 DEF Inv, PipeInv, StageInv
  <2>6. SwitchInv'
    BY <1>1, <1>7, <2>1 DEF Inv, SwitchInv
  <2> QED  BY <2>2, <2>3, <2>4, <2>5, <2>6 DEF Inv
<1>8. CASE /\ Take /\ replies # <<>> /\ tries' = 0
           /\ Advance(AfterRead, sets, Append(sum, Packet))
  <2>1. /\ pc' = AfterRead /\ sets' = sets /\ sum' = Append(sum, Packet)
        /\ UNCHANGED <<command, call, n, code>>
    BY <1>8 DEF Advance
  <2>2. /\ Packet = replies[1] /\ Packet \in Replies
        /\ Len(replies) >= 1
        /\ Packet.setting = Len(sum) + 1
        /\ wanted # Unknown => Packet.switch = wanted
    <3>1. Len(replies) >= 1
      BY <1>2, <1>8
    <3> QED  BY <1>2, <1>3, <1>5, <1>8, <3>1
  <2>3. /\ sum' \in Seq(Replies) /\ Len(sum') = Len(sum) + 1
        /\ \A j \in 1..Len(sum) : sum'[j] = sum[j]
        /\ sum'[Len(sum) + 1] = Packet
    BY <1>2, <2>1, <2>2
  <2>4. /\ replies' \in Seq(Replies) /\ Len(replies') = Len(replies) - 1
        /\ \A i \in 1..Len(replies') : replies'[i] = replies[i + 1]
    BY <1>2, <1>8, TakeEffect
  <2>5. \/ pc' = "off" /\ Len(sum') = Phases * n
        \/ pc' = "set" /\ Len(sum') # Phases * n /\ sets < Phases * n
        \/ pc' = "read" /\ Len(sum') # Phases * n /\ sets = Phases * n
    <3>1. CASE Len(sum) + 1 = Phases * n
      <4>1. pc' = "off"
        BY <2>1, <3>1 DEF AfterRead
      <4> QED  BY <1>2, <2>3, <3>1, <4>1
    <3>2. CASE Len(sum) + 1 # Phases * n /\ sets < Phases * n
      <4>1. pc' = "set"
        BY <2>1, <3>2 DEF AfterRead
      <4> QED  BY <1>2, <2>3, <3>2, <4>1
    <3>3. CASE Len(sum) + 1 # Phases * n /\ ~(sets < Phases * n)
      <4>1. sets = Phases * n
        BY <1>2, <3>3
      <4> QED  BY <2>1, <2>3, <3>3, <4>1 DEF AfterRead
    <3> QED  BY <3>1, <3>2, <3>3
  <2>6. TypeOK'
    <3>1. sets' \in 0..Phases * n' /\ Len(sum') <= sets'
      BY <1>2, <1>3, <2>1, <2>3
    <3> QED  BY <1>1, <1>2, <1>8, <2>1, <2>3, <2>4, <2>5, <3>1, Numbers DEF TypeOK
  <2>7. FlowInv'
    <3>1. /\ pc' \in {"off", "set", "read"} /\ tries' = 0
          /\ call' = "scan" /\ command' = "measure"
      BY <1>1, <1>2, <1>8, <2>1, <2>5
    <3>2. MaxTries \in Nat /\ MaxTries >= 1
      BY Numbers
    <3> QED  BY <3>1, <3>2 DEF FlowInv
  <2>8. BacklogInv'
    <3>1. Count(sent') + Len(replies') <= 2
      BY <1>1, <1>2, <2>4
    <3> QED  BY <1>1, <2>1, <2>5, <3>1 DEF BacklogInv
  <2>9. StageInv'
    <3>1. n' = n /\ Phases * n' = Phases * n
      BY <2>1
    <3> QED  BY <1>2, <1>3, <2>1, <2>3, <2>5, <3>1 DEF StageInv
  <2>10. PipeInv'
    <3>1. \A j \in 1..Len(sum') : sum'[j].setting = j
      BY SMTT(30), <1>2, <2>2, <2>3
    <3>2. Count(sent') + Len(replies') + Len(sum') = sets'
      BY <1>1, <1>2, <1>3, <2>1, <2>3, <2>4
    <3>3. \A i \in 1..Len(replies') : replies'[i].setting = Len(sum') + i
      <4> SUFFICES ASSUME NEW i \in 1..Len(replies')
                   PROVE  replies'[i].setting = Len(sum') + i
        OBVIOUS
      <4>1. i + 1 \in 1..Len(replies) /\ replies'[i] = replies[i + 1]
        BY <1>2, <2>4
      <4>2. replies[i + 1].setting = Len(sum) + (i + 1)
        BY <1>3, <4>1
      <4> QED  BY <1>2, <2>3, <4>1, <4>2
    <3>4. InOrder(sent', Len(sum') + Len(replies') + 1, sets')
      <4>1. Len(sum') + Len(replies') + 1 = Len(sum) + Len(replies) + 1
        BY <1>2, <2>3, <2>4
      <4> QED  BY <1>1, <1>3, <2>1, <4>1
    <3> QED  BY <2>9, <3>1, <3>2, <3>3, <3>4 DEF PipeInv
  <2>11. SwitchInv'
    <3>1. wanted' # Unknown =>
              /\ \A j \in 1..Len(sum') : sum'[j].switch = wanted'
              /\ \A i \in 1..Len(replies') : replies'[i].switch = wanted'
      <4>1. \A i \in 1..Len(replies') : i + 1 \in 1..Len(replies)
        BY <1>2, <2>4
      <4>2. \A j \in 1..Len(sum') : j \in 1..Len(sum) \/ j = Len(sum) + 1
        BY <1>2, <2>3
      <4>3. wanted' = wanted
        BY <1>1
      <4> QED  BY <1>3, <2>2, <2>3, <2>4, <4>1, <4>2, <4>3
    <3> QED  BY <1>1, <2>1, <3>1 DEF Inv, SwitchInv
  <2> QED  BY <2>6, <2>7, <2>8, <2>10, <2>11 DEF Inv
<1> QED  BY <1>1, <1>5, <1>6, <1>7, <1>8 DEF ReadStatus

\* By its end a scan has read all that it asked for.
LEMMA ScanOffPreserves == Inv /\ ScanOff => Inv'
<1> SUFFICES ASSUME Inv, ScanOff PROVE Inv'
  OBVIOUS
<1>1. /\ call = "scan" /\ pc = "off" /\ sent' \in {sent} \cup Accepted(Output)
      /\ UNCHANGED <<tries, wanted, replies, last, position>> /\ Return
  BY DEF ScanOff
<1>2. /\ TypeOK /\ sent \in Seq(Requests) /\ replies \in Seq(Replies)
      /\ Count(sent) \in Nat /\ Len(replies) \in Nat /\ Len(sum) \in Nat
      /\ Count(sent) + Len(replies) <= 2
      /\ wanted # Unknown =>
             \A i \in 1..Len(sent) : sent[i].switch = Unknown
  BY <1>1, InScan
<1>3. Output \in Requests /\ Output.setting = Unknown /\ Output.switch = Unknown
  BY RequestType DEF Output, Request
<1>4. /\ sent' \in Seq(Requests) /\ Len(sent') <= MaxSent
      /\ Count(sent') = Count(sent)
      /\ wanted # Unknown => \A i \in 1..Len(sent') : sent'[i].switch = Unknown
  BY <1>1, <1>2, <1>3, TransferEffect
<1>5. Count(sent) = 0
  <2>1. Count(sent) + Len(replies) + Len(sum) = sets /\ sets = Len(sum)
    BY <1>1 DEF Inv, PipeInv, StageInv
  <2> QED  BY <1>2, <2>1
<1> USE DEF Return, Ends
<1>6. TypeOK'
  BY <1>1, <1>4, Numbers DEF Inv, TypeOK, Unknown
<1>7. FlowInv'
  BY <1>1 DEF Inv, FlowInv
<1>8. BacklogInv' /\ PipeInv' /\ SwitchInv'
  BY <1>1, <1>2, <1>4, <1>5 DEF Inv, BacklogInv, PipeInv, SwitchInv
<1> QED  BY <1>6, <1>7, <1>8 DEF Inv

-----------------------------------------------------------------------------
(***************************************************************************)
(* n2pkvna_generate.                                                       *)
(***************************************************************************)
LEMMA GenerateSendPreserves == Inv /\ GenerateSend => Inv'
<1> SUFFICES ASSUME Inv, GenerateSend PROVE Inv'
  OBVIOUS
<1>1. /\ call = "generate" /\ pc = "send" /\ Transfer(Output, Goto("read"))
      /\ UNCHANGED <<tries, wanted, replies, last, position>>
      /\ TypeOK /\ sent \in Seq(Requests) /\ replies \in Seq(Replies)
      /\ tries = 0 /\ Count(sent) + Len(replies) <= 2
      /\ wanted # Unknown =>
             \A i \in 1..Len(sent) : sent[i].switch = Unknown
  BY DEF GenerateSend, Inv, TypeOK, FlowInv, BacklogInv, SwitchInv
<1>2. Output \in Requests /\ Output.setting = Unknown /\ Output.switch = Unknown
  BY RequestType DEF Output, Request
<1>3. /\ sent' \in Seq(Requests) /\ Len(sent') <= MaxSent
      /\ Count(sent') = Count(sent)
      /\ wanted # Unknown => \A i \in 1..Len(sent') : sent'[i].switch = Unknown
  <2>1. sent' \in {sent} \cup Accepted(Output)
    BY <1>1 DEF Transfer
  <2> QED  BY <1>1, <1>2, <2>1, TransferEffect
<1>4. Count(sent') + Len(replies') <= 2
  BY <1>1, <1>3
<1>5. CASE Fail
  BY <1>1, <1>3, <1>4, <1>5, FailPreserves
<1>6. CASE Goto("read")
  <2> USE DEF Goto, Advance
  <2>1. TypeOK'
    BY <1>1, <1>3, <1>6 DEF TypeOK
  <2>2. FlowInv'
    BY <1>1, <1>6, Numbers DEF Inv, FlowInv
  <2>3. BacklogInv' /\ PipeInv' /\ SwitchInv'
    BY <1>1, <1>3, <1>4, <1>6 DEF Inv, BacklogInv, PipeInv, SwitchInv
  <2> QED  BY <2>1, <2>2, <2>3 DEF Inv
<1> QED  BY <1>1, <1>5, <1>6 DEF Transfer

LEMMA GenerateReadPreserves == Inv /\ GenerateRead => Inv'
<1> SUFFICES ASSUME Inv, GenerateRead PROVE Inv'
  OBVIOUS
<1>1. /\ call = "generate" /\ pc = "read" /\ command = "single"
      /\ UNCHANGED <<wanted, sent, last, position>> /\ tries \in Nat
      /\ TypeOK /\ sent \in Seq(Requests) /\ Len(sent) <= MaxSent
      /\ replies \in Seq(Replies)
      /\ Count(sent) + Len(replies) <= 2
      /\ wanted # Unknown =>
             \A i \in 1..Len(sent) : sent[i].switch = Unknown
  BY DEF GenerateRead, Inv, TypeOK, FlowInv, BacklogInv, SwitchInv
<1>2. /\ replies' \in Seq(Replies) /\ Len(replies') <= Len(replies)
      /\ \/ Fail /\ tries' = 0
         \/ Goto("read") /\ tries' = tries + 1 /\ tries + 1 < MaxTries
         \/ Return /\ tries' = 0
  <2>1. Take => replies' \in Seq(Replies) /\ Len(replies') <= Len(replies)
    BY <1>1, TakeEffect
  <2>2. ReadStatus("0x55", FALSE, Return)
    BY DEF GenerateRead
  <2> QED  BY <1>1, <2>1, <2>2 DEF ReadStatus
<1>3. Count(sent') + Len(replies') <= 2
  BY <1>1, <1>2, CountType
<1>4. CASE Fail /\ tries' = 0
  BY <1>1, <1>2, <1>3, <1>4, FailPreserves
<1>5. CASE Goto("read") /\ tries' = tries + 1 /\ tries + 1 < MaxTries
  <2> USE DEF Goto, Advance
  <2>1. TypeOK'
    BY <1>1, <1>2, <1>5, Numbers DEF TypeOK
  <2>2. FlowInv'
    BY <1>1, <1>5 DEF Inv, FlowInv
  <2>3. BacklogInv' /\ PipeInv' /\ SwitchInv'
    BY <1>1, <1>3, <1>5 DEF Inv, BacklogInv, PipeInv, SwitchInv
  <2> QED  BY <2>1, <2>2, <2>3 DEF Inv
<1>6. CASE Return /\ tries' = 0
  <2> USE DEF Return, Ends
  <2>1. TypeOK'
    BY <1>1, <1>2, <1>6, Numbers DEF TypeOK, Unknown
  <2>2. FlowInv'
    BY <1>1, <1>6 DEF Inv, FlowInv
  <2>3. BacklogInv' /\ PipeInv' /\ SwitchInv'
    BY <1>1, <1>3, <1>6 DEF Inv, BacklogInv, PipeInv, SwitchInv
  <2> QED  BY <2>1, <2>2, <2>3 DEF Inv
<1> QED  BY <1>2, <1>4, <1>5, <1>6

-----------------------------------------------------------------------------
(***************************************************************************)
(* What the commands call.                                                 *)
(***************************************************************************)
\* Between calls nothing of the last one is left.
LEMMA Idle ==
    ASSUME Inv, call = "none"
    PROVE  /\ TypeOK /\ pc = "none" /\ n = 0 /\ sets = 0 /\ sum = <<>>
           /\ tries = 0 /\ sent \in Seq(Requests) /\ replies \in Seq(Replies)
           /\ Count(sent) \in Nat /\ Len(replies) \in Nat
           /\ Count(sent) + Len(replies) <= 2
           /\ command = "measure" => Count(sent) = 0
           /\ wanted # Unknown =>
                  \A i \in 1..Len(sent) : sent[i].switch = Unknown
<1>1. /\ TypeOK /\ pc = "none" /\ n = 0 /\ sets = 0 /\ sum = <<>>
      /\ tries = 0 /\ Count(sent) + Len(replies) <= 2
      /\ command = "measure" => Count(sent) = 0
      /\ wanted # Unknown =>
             \A i \in 1..Len(sent) : sent[i].switch = Unknown
  BY DEF Inv, FlowInv, BacklogInv, SwitchInv
<1>2. sent \in Seq(Requests) /\ replies \in Seq(Replies)
  BY <1>1 DEF TypeOK
<1> QED  BY <1>1, <1>2, CountType

LEMMA CallSwitchPreserves ==
    ASSUME Inv, NEW cmd \in {"measure", "single"},
           NEW c \in SwitchCode \cup {Unknown}, CallSwitch(cmd, c)
    PROVE  Inv'
<1>1. /\ call = "none" /\ command' = cmd /\ call' = "switch" /\ pc' = "send"
      /\ code' = c /\ wanted' = (IF c = Unknown THEN wanted ELSE Unknown)
      /\ UNCHANGED <<n, sets, sum, tries, sent, replies, last, position>>
  BY DEF CallSwitch, Calls, vnaVars
<1>2. /\ TypeOK /\ n = 0 /\ sets = 0 /\ sum = <<>> /\ tries = 0
      /\ Count(sent) + Len(replies) <= 2
  BY <1>1, Idle
<1>3. TypeOK'
  BY <1>1, <1>2 DEF TypeOK
<1>4. FlowInv'
  BY <1>1, <1>2 DEF FlowInv
<1>5. BacklogInv' /\ PipeInv'
  BY <1>1, <1>2 DEF BacklogInv, PipeInv
<1>6. SwitchInv'
  BY <1>1 DEF Inv, SwitchInv
<1> QED  BY <1>3, <1>4, <1>5, <1>6 DEF Inv

LEMMA SwitchCallsPreserve ==
    Inv /\ (Measure \/ SwitchCommand \/ MeasureSwitch) => Inv'
<1>1. Inv /\ Measure => Inv'
  BY CallSwitchPreserves DEF Measure
<1>2. Inv /\ SwitchCommand => Inv'
  BY CallSwitchPreserves DEF SwitchCommand
<1>3. Inv /\ MeasureSwitch => Inv'
  BY CallSwitchPreserves DEF MeasureSwitch
<1> QED  BY <1>1, <1>2, <1>3

\* A scan begins when the VNA has done all that the last one sent.
LEMMA MeasureScanPreserves == Inv /\ MeasureScan => Inv'
<1> SUFFICES ASSUME Inv, MeasureScan PROVE Inv'
  OBVIOUS
<1>1. /\ command = "measure" /\ call = "none"
      /\ command' = command /\ call' = "scan" /\ pc' = "flush"
      /\ n' \in 1..MaxN /\ sets' = 0 /\ sum' = <<>>
      /\ sent' = Forget(sent) /\ replies' = Forget(replies)
      /\ UNCHANGED <<tries, code, wanted, last, position>>
  BY DEF MeasureScan, Calls
<1>2. /\ TypeOK /\ tries = 0
      /\ sent \in Seq(Requests) /\ replies \in Seq(Replies)
      /\ Count(sent) = 0 /\ Len(replies) \in Nat
      /\ Count(sent) + Len(replies) <= 2
      /\ wanted # Unknown =>
             \A i \in 1..Len(sent) : sent[i].switch = Unknown
  BY <1>1, Idle
<1>3. /\ sent' \in Seq(Requests) /\ Len(sent') = Len(sent)
      /\ Count(sent') = Count(sent)
      /\ \A i \in 1..Len(sent) : sent'[i].switch = sent[i].switch
  BY <1>1, <1>2, ForgetCounts
<1>4. replies' \in Seq(Replies) /\ Len(replies') = Len(replies)
  BY <1>1, <1>2, ForgetReplies
<1>5. sum' \in Seq(Replies) /\ Len(sum') = 0
  BY <1>1
<1>6. TypeOK'
  <2>1. n' \in 0..MaxN /\ sets' \in 0..Phases * n' /\ Len(sum') <= sets'
    <3>1. n' \in 0..MaxN
      BY <1>1, Numbers
    <3>2. Phases * n' \in Nat
      BY <3>1, Numbers
    <3> QED  BY <1>1, <1>5, <3>1, <3>2
  <2> QED  BY <1>1, <1>2, <1>3, <1>4, <1>5, <2>1 DEF TypeOK
<1>7. FlowInv'
  BY <1>1, <1>2 DEF FlowInv
<1>8. BacklogInv'
  BY <1>1, <1>2, <1>3, <1>4 DEF BacklogInv
<1>9. PipeInv'
  BY <1>1, <1>5 DEF PipeInv, StageInv
<1>10. SwitchInv'
  BY <1>1, <1>2, <1>3, <1>5 DEF Inv, SwitchInv
<1> QED  BY <1>6, <1>7, <1>8, <1>9, <1>10 DEF Inv

\* The other steps between calls leave the VNA alone.
LEMMA IdlePreserves ==
    Inv /\ (GenerateReset \/ Generate \/ EndCommand \/ Start) => Inv'
<1> SUFFICES ASSUME Inv, GenerateReset \/ Generate \/ EndCommand \/ Start
             PROVE  Inv'
  OBVIOUS
<1>1. /\ call = "none" /\ UNCHANGED <<tries, n, sets, sum, code>>
      /\ UNCHANGED <<sent, replies, last, position>>
      /\ \/ command' = "generate" /\ call' = "reset" /\ pc' = "flush"
            /\ wanted' = Unknown
         \/ command' = "single" /\ call' = "generate" /\ pc' = "send"
            /\ wanted' = wanted
         \/ command' = "none" /\ call' = "none" /\ pc' = pc
            /\ wanted' = wanted
         \/ command' = "single" /\ call' = "reset" /\ pc' = "flush"
            /\ wanted' = wanted /\ command = "dead"
  BY DEF GenerateReset, Generate, EndCommand, Start, Calls, callVars, vnaVars
<1>2. /\ TypeOK /\ pc = "none" /\ n = 0 /\ sets = 0 /\ sum = <<>> /\ tries = 0
      /\ Count(sent) + Len(replies) <= 2
      /\ command = "dead" => wanted = Unknown
  BY <1>1, Idle DEF Inv, FlowInv
<1>3. TypeOK'
  BY <1>1, <1>2 DEF TypeOK, Unknown
<1>4. FlowInv'
  BY <1>1, <1>2 DEF FlowInv
<1>5. BacklogInv' /\ PipeInv'
  BY <1>1, <1>2 DEF BacklogInv, PipeInv
<1>6. SwitchInv'
  BY <1>1 DEF Inv, SwitchInv
<1> QED  BY <1>3, <1>4, <1>5, <1>6 DEF Inv

LEMMA KillPreserves == Inv /\ Kill => Inv'
<1> SUFFICES ASSUME Inv, Kill PROVE Inv'
  OBVIOUS
<1>1. /\ command' = "dead" /\ call' = "none" /\ pc' = "none" /\ tries' = 0
      /\ n' = 0 /\ sets' = 0 /\ sum' = <<>> /\ code' = Unknown
      /\ wanted' = Unknown /\ UNCHANGED <<sent, replies, last, position>>
  BY DEF Kill, Ends, vnaVars
<1>2. TypeOK'
  BY <1>1, Numbers DEF Inv, TypeOK, Unknown
<1>3. FlowInv'
  BY <1>1 DEF FlowInv
<1>4. BacklogInv' /\ PipeInv' /\ SwitchInv'
  BY <1>1 DEF Inv, BacklogInv, PipeInv, SwitchInv
<1> QED  BY <1>2, <1>3, <1>4 DEF Inv

-----------------------------------------------------------------------------
(***************************************************************************)
(* The VNA.                                                                *)
(***************************************************************************)
\* Whichever command the VNA does, the rest are left as they were.
LEMMA DoesEffect ==
    ASSUME Inv, Does
    PROVE  /\ TypeOK /\ sent \in Seq(Requests) /\ sent # <<>>
           /\ Len(sent) \in Nat /\ Len(sent) >= 1
           /\ Head(sent) = sent[1] /\ Head(sent) \in Requests
           /\ sent' = Tail(sent) /\ last' = Head(sent).op /\ last' \in OpCode
           /\ sent' \in Seq(Requests) /\ Len(sent') = Len(sent) - 1
           /\ Len(sent') <= MaxSent
           /\ \A i \in 1..Len(sent') : i + 1 \in 1..Len(sent)
                                       /\ sent'[i] = sent[i + 1]
           /\ Count(sent) \in Nat /\ Count(sent') \in Nat
           /\ Count(sent') = IF Head(sent).setting = Unknown THEN Count(sent)
                             ELSE Count(sent) - 1
<1>1. /\ TypeOK /\ sent \in Seq(Requests) /\ sent # <<>>
      /\ Len(sent) <= MaxSent /\ sent' = Tail(sent) /\ last' = Head(sent).op
  BY DEF Inv, TypeOK, Does
<1>2. /\ Len(sent) \in Nat /\ Len(sent) >= 1
      /\ Head(sent) = sent[1] /\ Head(sent) \in Requests
  BY <1>1
<1>3. Head(sent).op \in OpCode
  BY <1>2 DEF Requests
<1>4. /\ sent' \in Seq(Requests) /\ Len(sent') = Len(sent) - 1
      /\ \A i \in 1..Len(sent) - 1 : sent'[i] = sent[i + 1]
      /\ Count(sent') = IF Head(sent).setting = Unknown THEN Count(sent)
                        ELSE Count(sent) - 1
  BY <1>1, TailCounts
<1>5. Count(sent) \in Nat /\ Count(sent') \in Nat
  BY <1>1, <1>4, CountType
<1>6. Len(sent') <= MaxSent
  BY <1>1, <1>2, <1>4, Numbers
<1>7. \A i \in 1..Len(sent') :
          i + 1 \in 1..Len(sent) /\ sent'[i] = sent[i + 1]
  BY <1>2, <1>4
<1> QED  BY <1>1, <1>2, <1>3, <1>4, <1>5, <1>6, <1>7

LEMMA VnaMeasuresPreserves == Inv /\ VnaMeasures => Inv'
<1> SUFFICES ASSUME Inv, VnaMeasures PROVE Inv'
  OBVIOUS
<1>1. /\ Does /\ Head(sent).setting # Unknown
      /\ UNCHANGED <<command, call, pc, tries, wanted, n, sets, sum, code>>
      /\ position' = position
  BY DEF VnaMeasures, callVars
<1>2. PICK good \in BOOLEAN :
          replies' = Append(replies, [op |-> "0x55", values |-> TRUE,
                         good |-> good, setting |-> Head(sent).setting,
                         switch |-> position])
  BY DEF VnaMeasures
<1> DEFINE reply == [op |-> "0x55", values |-> TRUE, good |-> good,
                     setting |-> Head(sent).setting, switch |-> position]
<1>3. /\ TypeOK /\ sent \in Seq(Requests) /\ sent # <<>>
      /\ Len(sent) \in Nat /\ Len(sent) >= 1
      /\ Head(sent) = sent[1] /\ Head(sent) \in Requests
      /\ sent' = Tail(sent) /\ last' \in OpCode
      /\ sent' \in Seq(Requests) /\ Len(sent') = Len(sent) - 1
      /\ Len(sent') <= MaxSent
      /\ \A i \in 1..Len(sent') : i + 1 \in 1..Len(sent)
                                  /\ sent'[i] = sent[i + 1]
      /\ Count(sent) \in Nat /\ Count(sent') \in Nat
      /\ Count(sent') = Count(sent) - 1
  BY <1>1, DoesEffect
<1>4. reply \in Replies
  <2>1. Head(sent).setting \in 0..Phases * MaxN
    BY <1>1, <1>3, Numbers DEF Requests, Unknown
  <2>2. position \in SwitchCode
    BY <1>3 DEF TypeOK
  <2> QED  BY <2>1, <2>2 DEF Replies
<1>5. /\ replies' \in Seq(Replies) /\ replies \in Seq(Replies)
      /\ Len(replies) \in Nat /\ Len(replies') = Len(replies) + 1
      /\ \A i \in 1..Len(replies) : replies'[i] = replies[i]
      /\ replies'[Len(replies) + 1] = reply
  <2>1. replies \in Seq(Replies) /\ replies' = Append(replies, reply)
    BY <1>2, <1>3 DEF TypeOK
  <2> HIDE DEF reply
  <2> QED  BY <1>4, <2>1
<1>6. TypeOK'
  BY <1>1, <1>3, <1>5 DEF TypeOK
<1>7. FlowInv'
  BY <1>1 DEF Inv, FlowInv
<1>8. Count(sent) # 0
  BY <1>3
<1>9. BacklogInv'
  <2>1. Count(sent') + Len(replies') <= 2
    BY <1>3, <1>5 DEF Inv, BacklogInv
  <2> QED  BY <1>1, <1>8, <2>1 DEF Inv, BacklogInv
<1>10. PipeInv'
  <2> SUFFICES ASSUME call = "scan" PROVE PipeInv'
    BY <1>1 DEF PipeInv
  <2>1. /\ StageInv /\ pc # "flush" /\ sets \in Nat /\ Len(sum) \in Nat
        /\ \A j \in 1..Len(sum) : sum[j].setting = j
        /\ Count(sent) + Len(replies) + Len(sum) = sets
        /\ \A i \in 1..Len(replies) : replies[i].setting = Len(sum) + i
        /\ InOrder(sent, Len(sum) + Len(replies) + 1, sets)
    <3>1. sets \in Nat /\ Len(sum) \in Nat
      BY InScan
    <3>2. pc # "flush"
      BY <1>8 DEF Inv, BacklogInv
    <3> QED  BY <3>1, <3>2 DEF Inv, PipeInv
  <2>2. StageInv'
    BY <1>1, <2>1 DEF StageInv
  <2>3. /\ Head(sent).setting = Len(sum) + Len(replies) + 1
        /\ InOrder(sent', Len(sum) + Len(replies) + 1 + 1, sets)
    <3>1. Len(sum) + Len(replies) + 1 \in Nat
      BY <1>5, <2>1
    <3> QED  BY SMTT(30), <1>1, <1>3, <2>1, <3>1, TailInOrder
  <2>4. Count(sent') + Len(replies') + Len(sum') = sets'
    BY <1>1, <1>3, <1>5, <2>1
  <2>5. \A i \in 1..Len(replies') : replies'[i].setting = Len(sum') + i
    <3>1. \A i \in 1..Len(replies') :
              i \in 1..Len(replies) \/ i = Len(replies) + 1
      BY <1>5
    <3>2. replies'[Len(replies) + 1].setting = Len(sum) + (Len(replies) + 1)
      BY <1>5, <2>1, <2>3
    <3> QED  BY <1>1, <1>5, <2>1, <3>1, <3>2
  <2>6. InOrder(sent', Len(sum') + Len(replies') + 1, sets')
    <3>1. Len(sum') + Len(replies') + 1 = Len(sum) + Len(replies) + 1 + 1
      BY <1>1, <1>5, <2>1
    <3> QED  BY <1>1, <2>3, <3>1
  <2> QED  BY <1>1, <2>1, <2>2, <2>4, <2>5, <2>6 DEF PipeInv
<1>11. SwitchInv'
  <2>1. wanted' # Unknown =>
            /\ position' = wanted'
            /\ \A i \in 1..Len(sent') : sent'[i].switch = Unknown
    BY <1>1, <1>3 DEF Inv, SwitchInv
  <2>2. call' = "switch" /\ code' # Unknown => wanted' = Unknown
    BY <1>1 DEF Inv, SwitchInv
  <2>3. ASSUME call' = "switch", code' # Unknown, pc' \in {"read", "delay"}
        PROVE  sent' # <<>> /\ sent'[Len(sent')] = Switch(code')
    <3>1. sent[Len(sent)] = Switch(code)
      BY <1>1, <1>3, <2>3 DEF Inv, SwitchInv
    <3>2. Len(sent) # 1
      BY <1>1, <1>3, <3>1 DEF Switch, Request
    <3>3. Len(sent') \in 1..Len(sent') /\ Len(sent') + 1 = Len(sent)
      BY <1>3, <3>2
    <3>4. sent' # <<>>
      BY <1>3, <3>3
    <3> QED  BY <1>1, <1>3, <3>1, <3>3, <3>4
  <2>4. ASSUME call' = "scan", wanted' # Unknown
        PROVE  /\ \A j \in 1..Len(sum') : sum'[j].switch = wanted'
               /\ pc' # "flush" =>
                      \A i \in 1..Len(replies') : replies'[i].switch = wanted'
    <3>1. /\ \A j \in 1..Len(sum) : sum[j].switch = wanted
          /\ pc # "flush" =>
                 \A i \in 1..Len(replies) : replies[i].switch = wanted
          /\ position = wanted
      BY <1>1, <2>4 DEF Inv, SwitchInv
    <3>2. \A i \in 1..Len(replies') :
              i \in 1..Len(replies) \/ i = Len(replies) + 1
      BY <1>5
    <3>3. replies'[Len(replies) + 1].switch = wanted
      BY <1>5, <3>1
    <3> QED  BY <1>1, <1>5, <3>1, <3>2, <3>3
  <2> QED  BY <2>1, <2>2, <2>3, <2>4 DEF SwitchInv
<1> QED  BY <1>6, <1>7, <1>9, <1>10, <1>11 DEF Inv

LEMMA VnaObeysPreserves == Inv /\ VnaObeys => Inv'
<1> SUFFICES ASSUME Inv, VnaObeys PROVE Inv'
  OBVIOUS
<1>1. /\ Does /\ Head(sent).setting = Unknown
      /\ UNCHANGED <<command, call, pc, tries, wanted, n, sets, sum, code>>
      /\ replies' = replies
      /\ position' \in
             IF Head(sent).switch = Unknown THEN {position}
             ELSE IF Head(sent).op = "0x5A" THEN {Head(sent).switch}
             ELSE {position, Head(sent).switch}
  BY DEF VnaObeys, callVars
<1>2. /\ TypeOK /\ sent \in Seq(Requests) /\ sent # <<>>
      /\ Len(sent) \in Nat /\ Len(sent) >= 1
      /\ Head(sent) = sent[1] /\ Head(sent) \in Requests
      /\ sent' = Tail(sent) /\ last' \in OpCode
      /\ sent' \in Seq(Requests) /\ Len(sent') = Len(sent) - 1
      /\ Len(sent') <= MaxSent
      /\ \A i \in 1..Len(sent') : i + 1 \in 1..Len(sent)
                                  /\ sent'[i] = sent[i + 1]
      /\ Count(sent') = Count(sent)
  BY <1>1, DoesEffect
<1>3. position' \in SwitchCode
  <2>1. position \in SwitchCode
    BY <1>2 DEF TypeOK
  <2>2. Head(sent).switch \in SwitchCode \cup {Unknown}
    BY <1>2 DEF Requests
  <2> QED  BY <1>1, <2>1, <2>2
<1>4. TypeOK'
  BY <1>1, <1>2, <1>3 DEF TypeOK
<1>5. FlowInv'
  BY <1>1 DEF Inv, FlowInv
<1>6. BacklogInv'
  BY <1>1, <1>2 DEF Inv, BacklogInv
<1>7. PipeInv'
  <2> SUFFICES ASSUME call = "scan" PROVE PipeInv'
    BY <1>1 DEF PipeInv
  <2>1. StageInv /\ \A j \in 1..Len(sum) : sum[j].setting = j
    BY DEF Inv, PipeInv
  <2>2. StageInv'
    BY <1>1, <2>1 DEF StageInv
  <2>3. ASSUME pc # "flush"
        PROVE  InOrder(sent', Len(sum) + Len(replies) + 1, sets)
    <3>1. InOrder(sent, Len(sum) + Len(replies) + 1, sets)
      BY <2>3 DEF Inv, PipeInv
    <3>2. Len(sum) + Len(replies) + 1 \in Nat /\ sets \in Nat
      BY InScan
    <3> QED  BY <1>1, <1>2, <3>1, <3>2, TailInOrder
  <2>4. pc # "flush" =>
            /\ Count(sent') + Len(replies') + Len(sum') = sets'
            /\ \A i \in 1..Len(replies') : replies'[i].setting = Len(sum') + i
    BY <1>1, <1>2 DEF Inv, PipeInv
  <2> QED  BY <1>1, <2>1, <2>2, <2>3, <2>4 DEF PipeInv
<1>8. SwitchInv'
  <2>1. ASSUME wanted' # Unknown
        PROVE  /\ position' = wanted'
               /\ \A i \in 1..Len(sent') : sent'[i].switch = Unknown
    <3>1. /\ position = wanted
          /\ \A i \in 1..Len(sent) : sent[i].switch = Unknown
      BY <1>1, <2>1 DEF Inv, SwitchInv
    <3>2. Head(sent).switch = Unknown
      BY <1>2, <3>1
    <3> QED  BY <1>1, <1>2, <3>1, <3>2
  <2>2. call' = "switch" /\ code' # Unknown => wanted' = Unknown
    BY <1>1 DEF Inv, SwitchInv
  <2>3. ASSUME call' = "switch", code' # Unknown, pc' \in {"read", "delay"}
        PROVE  IF sent' = <<>> THEN position' = code'
               ELSE sent'[Len(sent')] = Switch(code')
    <3>1. sent[Len(sent)] = Switch(code)
      BY <1>1, <1>2, <2>3 DEF Inv, SwitchInv
    <3>2. CASE Len(sent) = 1
      <4>1. Head(sent).op = "0x5A" /\ Head(sent).switch = code
        BY <1>2, <3>1, <3>2 DEF Switch, Request
      <4>2. position' = code'
        BY <1>1, <2>3, <4>1
      <4>3. sent' = <<>>
        BY <1>2, <3>2
      <4> QED  BY <4>2, <4>3
    <3>3. CASE Len(sent) # 1
      <4>1. Len(sent') \in 1..Len(sent') /\ Len(sent') + 1 = Len(sent)
        BY <1>2, <3>3
      <4>2. sent' = <<>> => Len(sent') = 0
        OBVIOUS
      <4>3. Len(sent') # 0
        BY <4>1
      <4> QED  BY <1>1, <1>2, <3>1, <4>1, <4>2, <4>3
    <3> QED  BY <3>2, <3>3
  <2>4. call' = "scan" /\ wanted' # Unknown =>
            /\ \A j \in 1..Len(sum') : sum'[j].switch = wanted'
            /\ pc' # "flush" =>
                   \A i \in 1..Len(replies') : replies'[i].switch = wanted'
    BY <1>1 DEF Inv, SwitchInv
  <2> QED  BY <2>1, <2>2, <2>3, <2>4 DEF SwitchInv
<1> QED  BY <1>4, <1>5, <1>6, <1>7, <1>8 DEF Inv

-----------------------------------------------------------------------------
(***************************************************************************)
(* The theorems.                                                           *)
(***************************************************************************)
LEMMA NextPreserves == Inv /\ [Next]_vars => Inv'
<1>1. Inv /\ Library => Inv'
  BY ResetFlushPreserves, ResetSendPreserves, ResetReturnPreserves,
     SwitchSendPreserves, SwitchReadPreserves, SwitchDelayPreserves,
     ScanFlushPreserves, ScanSetPreserves, ScanReadPreserves,
     ScanOffPreserves, GenerateSendPreserves, GenerateReadPreserves
     DEF Library
<1>2. Inv /\ Program => Inv'
  BY SwitchCallsPreserve, MeasureScanPreserves, IdlePreserves DEF Program
<1>3. Inv /\ Vna => Inv'
  BY VnaMeasuresPreserves, VnaObeysPreserves DEF Vna
<1>4. Inv /\ (Kill \/ Start) => Inv'
  BY KillPreserves, IdlePreserves
<1>5. Inv /\ UNCHANGED vars => Inv'
  BY DEF vars, callVars, vnaVars, Inv, TypeOK, FlowInv, BacklogInv, Count,
     MeasuringIn, PipeInv, StageInv, InOrder, SwitchInv
<1> QED  BY <1>1, <1>2, <1>3, <1>4, <1>5 DEF Next

LEMMA InvImplies == Inv => TwoOutstanding /\ ValuesBelong /\ ValuesAreSwitched
<1> SUFFICES ASSUME Inv
             PROVE  TwoOutstanding /\ ValuesBelong /\ ValuesAreSwitched
  OBVIOUS
<1>1. TwoOutstanding
  BY DEF Inv, BacklogInv, Count, MeasuringIn, TwoOutstanding, Measuring
<1>2. ValuesBelong
  BY DEF Inv, PipeInv, ValuesBelong
<1>3. ValuesAreSwitched
  BY DEF Inv, SwitchInv, ValuesAreSwitched
<1> QED  BY <1>1, <1>2, <1>3

\* Whatever is called, fails or is killed, and however the VNA keeps up, the
\* invariant of the calls and of the VNA holds.
THEOREM Invariance == Spec => []Inv
<1> QED  BY InitInv, NextPreserves, PTL DEF Spec

\* Every variable has its type; a scan reads no more than it has set, and sets
\* no more than its phases at its frequencies.
THEOREM TypeCorrect == Spec => []TypeOK
<1>1. Inv => TypeOK
  BY DEF Inv
<1> QED  BY <1>1, Invariance, PTL

\* The VNA never owes the program, nor keeps for it, more than the two
\* measurements that n2pkvna_scan lets be outstanding.
THEOREM TwoOutstandingCorrect == Spec => []TwoOutstanding
BY InvImplies, Invariance, PTL

\* Every reply is added at the frequency and phase that it was measured at,
\* whatever earlier scans have left in the VNA.
THEOREM ValuesBelongCorrect == Spec => []ValuesBelong
BY InvImplies, Invariance, PTL

\* A scan after a successful n2pkvna_switch measures with the switches there.
THEOREM ValuesAreSwitchedCorrect == Spec => []ValuesAreSwitched
BY InvImplies, Invariance, PTL

===============================================================================
