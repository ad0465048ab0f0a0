--------------------------- MODULE HkPipeline_proofs ---------------------------
(***************************************************************************)
(* Theorems about the housekeeping of the labs: the pipeline of            *)
(* HkPipeline, the Session 3 program it implements (Loop), and the four    *)
(* tasks of HkIpc; for any number of frames, any queue length, any voltage *)
(* profile, whatever a fresh local holds, and any lag of the telemetry     *)
(* task.                                                                   *)
(***************************************************************************)
EXTENDS HkIpc, SequenceTheorems, FiniteSetTheorems, TLAPS

Kept == emitted \o hand \o queue

\* Nothing kept lies in the future, the frames taken add up, and the clock is at
\* most lag periods ahead of the frames that are done with.
Accounts ==
    /\ frame = Len(emitted) + Len(hand) + Len(queue) + lost
    /\ now <= Len(emitted) + lost + lag
    /\ \A i \in 1 .. Len(Kept) : Kept[i].frame < frame

IInv == PipelineTypeOK /\ Accounts /\ EachFrameOnce /\ NothingLost

\* The numbers among the constants.
LEMMA Bounds == Frames \in Nat \ {0} /\ QueueLen \in Nat \ {0} /\ MaxLag \in Nat \ {0}
BY PipelineAssumption

USE Bounds

-----------------------------------------------------------------------------
(* The sample and the queue *)

\* The k-th sample has the voltage of its call, and a mode whatever the stack held.
LEMMA SampleTyped ==
    ASSUME NEW k \in 0 .. Frames - 1, NEW m
    PROVE  /\ NewSample(k, m) \in HkSample
           /\ NewSample(k, m).frame = k
           /\ NewSample(k, m).volt = SampleState(k)
           /\ NewSample(k, m).volt < VMin => NewSample(k, m).mode = "SAFE"
<1>1. (k % Len(Profile)) + 1 \in 1 .. Len(Profile)
  <2>1. Len(Profile) \in Nat \ {0}  BY PipelineAssumption, LenProperties
  <2>. QED  BY <2>1
<1>2. SampleState(k) \in BusVoltage  BY <1>1 DEF SampleState, BusVoltage
<1>. DEFINE mode == Hk!ApplyLimits(SampleState(k), IF keeps THEN slot ELSE m)
<1>3. mode \in {"NOMINAL", "SAFE"}  BY DEF Hk!ApplyLimits
<1>4. SampleState(k) < VMin => mode = "SAFE"  BY DEF Hk!ApplyLimits
<1>5. NewSample(k, m) = [frame |-> k, volt |-> SampleState(k), mode |-> mode]
  BY DEF NewSample
<1>. HIDE DEF mode
<1>. QED  BY <1>2, <1>3, <1>4, <1>5 DEF HkSample

\* The frames kept are a sequence as long as its three parts.
LEMMA JoinShape ==
    ASSUME NEW e \in Seq(HkSample), NEW h \in Seq(HkSample), NEW q \in Seq(HkSample)
    PROVE  /\ e \o h \in Seq(HkSample)
           /\ e \o h \o q \in Seq(HkSample)
           /\ Len(e \o h \o q) = Len(e) + Len(h) + Len(q)
           /\ Len(e) \in Nat /\ Len(h) \in Nat /\ Len(q) \in Nat
<1>1. e \o h \in Seq(HkSample) /\ Len(e \o h) = Len(e) + Len(h)
  BY ConcatProperties
<1>2. /\ (e \o h) \o q \in Seq(HkSample)
      /\ Len((e \o h) \o q) = Len(e \o h) + Len(q)
  BY <1>1, ConcatProperties
<1>. QED  BY <1>1, <1>2, LenProperties

\* The same before and after a step.
LEMMA KeptShape ==
    PipelineTypeOK => /\ emitted \o hand \in Seq(HkSample)
                      /\ Kept \in Seq(HkSample)
                      /\ Len(Kept) = Len(emitted) + Len(hand) + Len(queue)
                      /\ Len(emitted) \in Nat /\ Len(hand) \in Nat /\ Len(queue) \in Nat
BY JoinShape DEF PipelineTypeOK, Kept

LEMMA KeptShapeNext ==
    PipelineTypeOK' => /\ Kept' \in Seq(HkSample)
                       /\ Len(Kept') = Len(emitted') + Len(hand') + Len(queue')
                       /\ Len(emitted') \in Nat /\ Len(hand') \in Nat /\ Len(queue') \in Nat
BY JoinShape DEF PipelineTypeOK, Kept

\* What is in the queue moves to the hand, and on to the line, without a change
\* in what is kept.
LEMMA KeptMoves ==
    ASSUME PipelineTypeOK, TelemetryStep
    PROVE  Kept' = Kept
<1>1. CASE Receive
  <2>1. /\ hand = <<>> /\ queue # <<>>
        /\ hand' = <<Head(queue)>> /\ queue' = Tail(queue) /\ emitted' = emitted
    BY <1>1 DEF Receive
  <2>2. /\ Head(queue) \in HkSample /\ Tail(queue) \in Seq(HkSample)
        /\ emitted \in Seq(HkSample) /\ queue \in Seq(HkSample)
    BY <2>1, HeadTailProperties DEF PipelineTypeOK
  <2>3. <<Head(queue)>> \in Seq(HkSample)  BY <2>2
  <2>4. queue = <<Head(queue)>> \o Tail(queue)
    <3>1. /\ Len(Tail(queue)) = Len(queue) - 1 /\ Len(queue) \in Nat \ {0}
          /\ \A i \in 1 .. Len(Tail(queue)) : Tail(queue)[i] = queue[i + 1]
      BY <2>1, <2>2, HeadTailProperties, EmptySeq
    <3>. DEFINE joined == <<Head(queue)>> \o Tail(queue)
    <3>2. /\ joined \in Seq(HkSample)
          /\ Len(joined) = Len(queue)
          /\ \A i \in 1 .. Len(queue) :
                joined[i] = IF i <= 1 THEN <<Head(queue)>>[i] ELSE Tail(queue)[i - 1]
      BY <2>2, <2>3, <3>1, ConcatProperties
    <3>3. Head(queue) = queue[1]  BY <2>1, <2>2
    <3>4. ASSUME NEW i \in 1 .. Len(queue) PROVE queue[i] = joined[i]
      <4>1. CASE i = 1  BY <3>2, <3>3, <4>1
      <4>2. CASE i # 1
        <5>1. i - 1 \in 1 .. Len(Tail(queue)) /\ ~(i <= 1)  BY <3>1, <4>2
        <5>2. Tail(queue)[i - 1] = queue[(i - 1) + 1]  BY <3>1, <5>1
        <5>3. joined[i] = Tail(queue)[i - 1]  BY <3>2, <5>1
        <5>. QED  BY <5>2, <5>3
      <4>. QED  BY <4>1, <4>2
    <3>. HIDE DEF joined
    <3>5. queue = joined  BY <2>2, <3>2, <3>4, SeqEqual, Zenon
    <3>. QED  BY <3>5 DEF joined
  <2>5. (emitted \o <<Head(queue)>>) \o Tail(queue) = emitted \o queue
    <3>1. (emitted \o <<Head(queue)>>) \o Tail(queue)
             = emitted \o (<<Head(queue)>> \o Tail(queue))
      BY <2>2, <2>3, ConcatAssociative
    <3>. QED  BY <2>4, <3>1
  <2>6. emitted \o <<>> = emitted  BY <2>2, ConcatEmptySeq
  <2>. QED  BY <2>1, <2>5, <2>6 DEF Kept
<1>2. CASE Emit
  <2>1. /\ emitted' = emitted \o hand /\ hand' = <<>> /\ queue' = queue
    BY <1>2 DEF Emit
  <2>2. (emitted \o hand) \o <<>> = emitted \o hand
    BY KeptShape, ConcatEmptySeq
  <2>. QED  BY <2>1, <2>2 DEF Kept
<1>3. CASE EndScheduler  BY <1>3 DEF EndScheduler, Kept
<1>. QED  BY <1>1, <1>2, <1>3 DEF TelemetryStep

\* A sample sent is kept behind all others, or counted as dropped.
LEMMA KeptGrows ==
    ASSUME PipelineTypeOK, NEW s \in HkSample, Enqueue(s),
           UNCHANGED <<emitted, hand>>
    PROVE  \/ Kept' = Append(Kept, s) /\ lost' = lost
           \/ Kept' = Kept /\ lost' = lost + 1
<1>1. CASE Len(queue) < QueueLen
  <2>1. queue' = Append(queue, s) /\ lost' = lost  BY <1>1 DEF Enqueue
  <2>2. queue \in Seq(HkSample) /\ <<s>> \in Seq(HkSample)  BY DEF PipelineTypeOK
  <2>3. Append(queue, s) = queue \o <<s>>  BY <2>2, AppendIsConcat
  <2>4. ((emitted \o hand) \o queue) \o <<s>> = (emitted \o hand) \o (queue \o <<s>>)
    <3>1. emitted \o hand \in Seq(HkSample)  BY KeptShape
    <3>. QED  BY <2>2, <3>1, ConcatAssociative
  <2>5. Kept \o <<s>> = Append(Kept, s)  BY KeptShape, AppendIsConcat
  <2>. QED  BY <2>1, <2>3, <2>4, <2>5 DEF Kept
<1>2. CASE ~(Len(queue) < QueueLen)  BY <1>2 DEF Enqueue, Kept
<1>. QED  BY <1>1, <1>2

-----------------------------------------------------------------------------
(* The invariant is inductive *)

\* Nothing has been taken at first.
LEMMA InitIInv == PipelineInit => IInv
<1>. SUFFICES ASSUME PipelineInit PROVE IInv  OBVIOUS
<1>1. /\ now = 0 /\ frame = 0 /\ lost = 0 /\ stopped = FALSE
      /\ queue = <<>> /\ hand = <<>> /\ emitted = <<>>
  BY DEF PipelineInit
<1>2. slot \in Hk!Mode /\ lag \in 1 .. MaxLag /\ keeps \in BOOLEAN
  BY DEF PipelineInit, Hk!Mode
<1>3. PipelineTypeOK
  <2>1. <<>> \in Seq(HkSample) /\ Len(<<>>) = 0  BY EmptySeq
  <2>2. stopped \in BOOLEAN  BY <1>1
  <2>3. {now, frame} \subseteq 0 .. Frames /\ lost \in 0 .. Frames  BY <1>1
  <2>. QED  BY <1>1, <1>2, <2>1, <2>2, <2>3 DEF PipelineTypeOK
<1>4. Len(Kept) = 0 /\ Kept \in Seq(HkSample)  BY <1>1, <1>3, KeptShape
<1>5. Accounts  BY <1>1, <1>2, <1>4 DEF Accounts
<1>6. EachFrameOnce  BY <1>1, <1>4 DEF EachFrameOnce, Increasing, Kept
<1>7. NothingLost  BY <1>1 DEF NothingLost
<1>. QED  BY <1>3, <1>5, <1>6, <1>7 DEF IInv

\* The types, for a sample sent.
LEMMA SamplerTypes == IInv /\ Sampler => PipelineTypeOK' /\ slot' \in {"NOMINAL", "SAFE"}
<1>. SUFFICES ASSUME IInv, Sampler PROVE PipelineTypeOK' /\ slot' \in {"NOMINAL", "SAFE"}
  OBVIOUS
<1>1. /\ frame \in 0 .. Frames - 1 /\ frame' = frame + 1 /\ PipelineTypeOK
      /\ UNCHANGED <<lag, keeps, now, hand, emitted, stopped>>
  BY DEF IInv, PipelineTypeOK, Sampler, SamplerReady
<1>2. PICK m \in Hk!Mode : slot' = NewSample(frame, m).mode /\ Enqueue(NewSample(frame, m))
  BY DEF Sampler
<1>. DEFINE s == NewSample(frame, m)
<1>3. s \in HkSample  BY <1>1, SampleTyped
<1>. HIDE DEF s
<1>4. slot' \in {"NOMINAL", "SAFE"}  BY <1>2, <1>3 DEF HkSample, s
<1>5. Enqueue(s)  BY <1>2 DEF s
<1>6. queue' \in Seq(HkSample) /\ Len(queue') <= QueueLen
  <2>1. /\ queue \in Seq(HkSample) /\ Len(queue) \in Nat /\ Len(queue) <= QueueLen
        /\ Append(queue, s) \in Seq(HkSample) /\ Len(Append(queue, s)) = Len(queue) + 1
    BY <1>1, <1>3, AppendProperties, LenProperties DEF PipelineTypeOK
  <2>. QED  BY <1>5, <2>1 DEF Enqueue
<1>7. lost' \in 0 .. Frames
  <2>1. lost + 1 \in 0 .. Frames
    BY <1>1, LenProperties DEF IInv, Accounts, PipelineTypeOK
  <2>. QED  BY <1>1, <1>5, <2>1 DEF Enqueue, PipelineTypeOK
<1>. QED  BY <1>1, <1>4, <1>6, <1>7 DEF PipelineTypeOK, Hk!Mode

\* A sample is newer than all that is kept; while the clock runs ahead by less
\* than the length of the queue, there is room for it.
LEMMA SamplerKeepsIInv == IInv /\ Sampler => IInv'
<1>. SUFFICES ASSUME IInv, Sampler PROVE IInv'  OBVIOUS
<1>1. /\ frame \in 0 .. Frames - 1 /\ frame' = frame + 1 /\ frame <= now
      /\ PipelineTypeOK /\ PipelineTypeOK'
      /\ lag' = lag /\ now' = now /\ hand' = hand /\ emitted' = emitted
      /\ lag \in Nat
  BY SamplerTypes DEF IInv, PipelineTypeOK, Sampler, SamplerReady
<1>2. PICK m \in Hk!Mode : Enqueue(NewSample(frame, m))  BY DEF Sampler
<1>. DEFINE s == NewSample(frame, m)
<1>3. /\ s \in HkSample /\ s.frame = frame /\ s.volt = SampleState(frame)
      /\ s.volt < VMin => s.mode = "SAFE"
  BY <1>1, SampleTyped
<1>4. Enqueue(s)  BY <1>2
<1>. HIDE DEF s
<1>5. \/ Kept' = Append(Kept, s) /\ lost' = lost
      \/ Kept' = Kept /\ lost' = lost + 1
  BY <1>1, <1>3, <1>4, KeptGrows
<1>6. /\ Kept \in Seq(HkSample) /\ Len(Kept) = Len(emitted) + Len(hand) + Len(queue)
      /\ Len(Kept') = Len(emitted') + Len(hand') + Len(queue')
      /\ Len(Kept) \in Nat /\ lost \in Nat
      /\ Len(emitted') \in Nat /\ Len(hand') \in Nat /\ Len(queue') \in Nat
  BY <1>1, KeptShape, KeptShapeNext DEF PipelineTypeOK
<1>7. frame = Len(Kept) + lost /\ \A i \in 1 .. Len(Kept) : Kept[i].frame < frame
  BY <1>6 DEF IInv, Accounts, EachFrameOnce, Kept
<1>8. CASE Kept' = Append(Kept, s) /\ lost' = lost
  <2>1. /\ Len(Kept') = Len(Kept) + 1
        /\ \A i \in 1 .. Len(Kept) : Kept'[i] = Kept[i]
        /\ Kept'[Len(Kept) + 1] = s
    BY <1>3, <1>6, <1>8, AppendProperties
  <2>sum. frame' = Len(Kept') + lost'
    <3>1. Len(Kept') = Len(Kept) + 1 /\ lost' = lost  BY <1>8, <2>1
    <3>2. frame = Len(Kept) + lost /\ frame' = frame + 1  BY <1>1, <1>7
    <3>3. Len(Kept) \in Nat /\ lost \in Nat  BY <1>6
    <3>. QED  BY <3>1, <3>2, <3>3
  <2>2. Accounts'
    <3>1. \A i \in 1 .. Len(Kept') : Kept'[i].frame < frame'
      <4>. SUFFICES ASSUME NEW i \in 1 .. Len(Kept') PROVE Kept'[i].frame < frame + 1
        BY <1>1
      <4>1. CASE i = Len(Kept) + 1  BY <1>1, <1>3, <2>1, <4>1
      <4>2. CASE i # Len(Kept) + 1
        <5>1. i \in 1 .. Len(Kept)  BY <1>6, <2>1, <4>2
        <5>2. Kept[i] \in HkSample  BY <1>6, <5>1, ElementOfSeq
        <5>3. Kept[i].frame \in Int  BY <5>2 DEF HkSample
        <5>. QED  BY <1>1, <1>7, <2>1, <5>1, <5>3
      <4>. QED  BY <4>1, <4>2
    <3>2. frame' = Len(emitted') + Len(hand') + Len(queue') + lost'
      BY <1>1, <1>6, <2>sum
    <3>3. now' <= Len(emitted') + lost' + lag'  BY <1>1, <1>8 DEF IInv, Accounts
    <3>. QED  BY <3>1, <3>2, <3>3 DEF Accounts
  <2>3. EachFrameOnce'
    <3>1. \A i \in 1 .. Len(Kept') :
             /\ Kept'[i].volt = SampleState(Kept'[i].frame)
             /\ Kept'[i].volt < VMin => Kept'[i].mode = "SAFE"
      <4>. SUFFICES ASSUME NEW i \in 1 .. Len(Kept')
                    PROVE  /\ Kept'[i].volt = SampleState(Kept'[i].frame)
                           /\ Kept'[i].volt < VMin => Kept'[i].mode = "SAFE"
        OBVIOUS
      <4>1. CASE i = Len(Kept) + 1  BY <1>3, <2>1, <4>1
      <4>2. CASE i # Len(Kept) + 1
        <5>1. i \in 1 .. Len(Kept)  BY <1>6, <2>1, <4>2
        <5>. QED  BY <2>1, <5>1 DEF IInv, EachFrameOnce, Kept
      <4>. QED  BY <4>1, <4>2
    <3>2. ASSUME NEW i \in 1 .. Len(Kept'), NEW j \in 1 .. Len(Kept'), i < j
          PROVE  Kept'[i].frame < Kept'[j].frame
      <4>1. i \in 1 .. Len(Kept)  BY <1>6, <2>1, <3>2
      <4>2. CASE j = Len(Kept) + 1  BY <1>3, <1>7, <2>1, <4>1, <4>2
      <4>3. CASE j # Len(Kept) + 1
        <5>1. j \in 1 .. Len(Kept)  BY <1>6, <2>1, <4>3
        <5>. QED  BY <2>1, <3>2, <4>1, <5>1 DEF IInv, EachFrameOnce, Increasing, Kept
      <4>. QED  BY <4>2, <4>3
    <3>. QED  BY <2>sum, <3>1, <3>2 DEF EachFrameOnce, Increasing, Kept
  <2>4. NothingLost'  BY <1>1, <1>8 DEF IInv, NothingLost
  <2>. QED  BY <1>1, <2>2, <2>3, <2>4 DEF IInv
<1>9. CASE Kept' = Kept /\ lost' = lost + 1
  <2>1. Accounts'
    <3>1. \A i \in 1 .. Len(Kept') : Kept'[i].frame < frame'
      <4>. SUFFICES ASSUME NEW i \in 1 .. Len(Kept) PROVE Kept[i].frame < frame + 1
        BY <1>1, <1>9
      <4>1. Kept[i].frame \in Int
        <5>1. Kept[i] \in HkSample  BY <1>6, ElementOfSeq
        <5>. QED  BY <5>1 DEF HkSample
      <4>. QED  BY <1>1, <1>7, <4>1
    <3>2. frame' = Len(emitted') + Len(hand') + Len(queue') + lost'
      BY <1>1, <1>6, <1>7, <1>9
    <3>3. now' <= Len(emitted') + lost' + lag'
      <4>1. Len(emitted) \in Nat /\ now \in Int
        BY <1>1, LenProperties DEF PipelineTypeOK
      <4>. QED  BY <1>1, <1>6, <1>9, <4>1 DEF IInv, Accounts
    <3>. QED  BY <3>1, <3>2, <3>3 DEF Accounts
  <2>2. EachFrameOnce'
    <3>1. frame' = Len(Kept') + lost'
      <4>1. Len(Kept') = Len(Kept)  BY <1>9
      <4>. QED  BY <1>1, <1>6, <1>7, <1>9, <4>1
    <3>. QED  BY <1>9, <3>1 DEF IInv, EachFrameOnce, Increasing, Kept
  <2>3. NothingLost'
    <3>. SUFFICES ASSUME lag' < QueueLen PROVE FALSE  BY DEF NothingLost
    <3>1. /\ Len(emitted) \in Nat /\ Len(hand) \in Nat /\ Len(queue) \in Nat
          /\ now \in Int
      BY <1>1, LenProperties DEF PipelineTypeOK
    <3>2. Len(queue) <= lag  BY <1>1, <1>6, <3>1 DEF IInv, Accounts
    <3>3. Len(queue) < QueueLen  BY <1>1, <3>1, <3>2
    <3>4. lost' = lost  BY <1>4, <3>3 DEF Enqueue
    <3>. QED  BY <1>6, <1>9, <3>4
  <2>. QED  BY <1>1, <2>1, <2>2, <2>3 DEF IInv
<1>. QED  BY <1>5, <1>8, <1>9

\* The telemetry task moves frames and loses none.
LEMMA TelemetryKeepsIInv == IInv /\ Telemetry => IInv'
<1>. SUFFICES ASSUME IInv, Telemetry PROVE IInv'  OBVIOUS
<1>1. /\ PipelineTypeOK /\ TelemetryStep
      /\ lag' = lag /\ keeps' = keeps
      /\ now' = now /\ frame' = frame /\ slot' = slot /\ lost' = lost
  BY DEF IInv, Telemetry
<1>2. PipelineTypeOK'
  <2>1. CASE Receive
    <3>1. /\ Head(queue) \in HkSample /\ Tail(queue) \in Seq(HkSample)
          /\ Len(Tail(queue)) = Len(queue) - 1
      BY <1>1, <2>1, HeadTailProperties DEF Receive, PipelineTypeOK
    <3>2. /\ queue' \in Seq(HkSample) /\ Len(queue') <= QueueLen
          /\ hand' \in Seq(HkSample) /\ Len(hand') <= 1
      BY <1>1, <2>1, <3>1, LenProperties DEF Receive, PipelineTypeOK
    <3>. QED  BY <1>1, <2>1, <3>2 DEF Receive, PipelineTypeOK
  <2>2. CASE Emit
    <3>1. emitted' \in Seq(HkSample)
      BY <1>1, <2>2, ConcatProperties DEF Emit, PipelineTypeOK
    <3>2. hand' \in Seq(HkSample) /\ Len(hand') <= 1
      BY <2>2, EmptySeq DEF Emit
    <3>. QED  BY <1>1, <2>2, <3>1, <3>2 DEF Emit, PipelineTypeOK
  <2>3. CASE EndScheduler  BY <1>1, <2>3 DEF EndScheduler, PipelineTypeOK
  <2>. QED  BY <1>1, <2>1, <2>2, <2>3 DEF TelemetryStep
<1>3. Kept' = Kept  BY <1>1, KeptMoves
<1>4. /\ Len(Kept) = Len(emitted) + Len(hand) + Len(queue)
      /\ Len(Kept') = Len(emitted') + Len(hand') + Len(queue')
  BY <1>1, <1>2, KeptShape, KeptShapeNext
<1>5. Len(emitted') >= Len(emitted) /\ Len(emitted) \in Nat /\ Len(emitted') \in Nat
  <2>1. /\ Len(emitted) \in Nat /\ Len(emitted') \in Nat /\ Len(hand) \in Nat
    BY <1>1, <1>2, LenProperties DEF PipelineTypeOK
  <2>2. Len(emitted \o hand) = Len(emitted) + Len(hand)
    BY <1>1, ConcatProperties DEF PipelineTypeOK
  <2>. QED  BY <1>1, <2>1, <2>2 DEF TelemetryStep, Receive, Emit, EndScheduler
<1>6. Accounts'
  <2>1. frame' = Len(emitted') + Len(hand') + Len(queue') + lost'
    BY <1>1, <1>3, <1>4 DEF IInv, Accounts
  <2>2. now' <= Len(emitted') + lost' + lag'
    <3>1. now \in Int /\ lost \in Int /\ lag \in Int  BY <1>1 DEF PipelineTypeOK
    <3>. QED  BY <1>1, <1>5, <3>1 DEF IInv, Accounts
  <2>. QED  BY <1>1, <1>3, <2>1, <2>2 DEF IInv, Accounts
<1>7. EachFrameOnce'  BY <1>1, <1>3 DEF IInv, EachFrameOnce, Increasing, Kept
<1>8. NothingLost'  BY <1>1 DEF IInv, NothingLost
<1>. QED  BY <1>2, <1>6, <1>7, <1>8 DEF IInv

\* Every step keeps the invariant.
LEMMA NextIInv == IInv /\ [PipelineNext]_pipelineVars => IInv'
<1>. SUFFICES ASSUME IInv, [PipelineNext]_pipelineVars PROVE IInv'  OBVIOUS
<1>1. CASE Tick
  <2>1. /\ now' = now + 1 /\ now < Frames /\ now < Len(emitted) + lost + lag
        /\ UNCHANGED <<lag, keeps, frame, slot, queue, hand, emitted, stopped, lost>>
    BY <1>1 DEF Tick
  <2>2. PipelineTypeOK'  BY <2>1 DEF IInv, PipelineTypeOK
  <2>3. now \in Int /\ Len(emitted) + lost + lag \in Int
    BY LenProperties DEF IInv, PipelineTypeOK
  <2>4. Accounts'  BY <2>1, <2>3 DEF IInv, Accounts, Kept
  <2>5. EachFrameOnce'  BY <2>1 DEF IInv, EachFrameOnce, Increasing
  <2>6. NothingLost'  BY <2>1 DEF IInv, NothingLost
  <2>. QED  BY <2>2, <2>4, <2>5, <2>6 DEF IInv
<1>2. CASE Sampler  BY <1>2, SamplerKeepsIInv
<1>3. CASE Telemetry  BY <1>3, TelemetryKeepsIInv
<1>4. CASE UNCHANGED pipelineVars
  BY <1>4 DEF pipelineVars, IInv, PipelineTypeOK, Accounts, Kept, EachFrameOnce,
              Increasing, NothingLost
<1>. QED  BY <1>1, <1>2, <1>3, <1>4 DEF PipelineNext

-----------------------------------------------------------------------------
(* Theorems *)

\* The invariant always holds.
LEMMA AlwaysIInv == PipelineSpec => []IInv
BY InitIInv, NextIInv, PTL DEF PipelineSpec

\* The variables keep their types: the queue never holds more than its length, the
\* telemetry task never more than one sample (hk_freertos.c:30, 79).
THEOREM PipelineTypes == PipelineSpec => []PipelineTypeOK
<1>1. IInv => PipelineTypeOK  BY DEF IInv
<1>. QED  BY <1>1, AlwaysIInv, PTL

\* Every frame sampled is emitted, on its way or counted as dropped, in order and
\* not twice, with the voltage of its own cycle (hk_freertos.c:51-93).
THEOREM FramesAccounted == PipelineSpec => []EachFrameOnce
<1>1. IInv => EachFrameOnce  BY DEF IInv
<1>. QED  BY <1>1, AlwaysIInv, PTL

\* A queue longer than the lag of the telemetry task never drops a frame
\* (hk_freertos.c:65, the send without a timeout).
THEOREM QueueCoversLag == PipelineSpec => []NothingLost
<1>1. IInv => NothingLost  BY DEF IInv
<1>. QED  BY <1>1, AlwaysIInv, PTL

-----------------------------------------------------------------------------
(* On time, and with a slot that keeps the mode, the Session 3 program *)

Timely     == keeps /\ lag < QueueLen
Before(ss, i) == IF i = 1 THEN "BOOT" ELSE ss[i - 1].mode

\* The samples kept are consecutive, and the mode is handed on from each to the next.
Chained(ss) ==
    \A i \in 1 .. Len(ss) :
        /\ ss[i].frame = i - 1
        /\ ss[i].mode = Hk!ApplyLimits(ss[i].volt, Before(ss, i))

HandedOn == Timely => Chained(Kept) /\ slot = Before(Kept, Len(Kept) + 1)

\* A sample appended to a chain of them.
LEMMA ChainGrows ==
    ASSUME NEW ss \in Seq(HkSample), NEW s \in HkSample, Chained(ss), s.frame = Len(ss),
           s.mode = Hk!ApplyLimits(s.volt, Before(ss, Len(ss) + 1))
    PROVE  Chained(Append(ss, s)) /\ Before(Append(ss, s), Len(Append(ss, s)) + 1) = s.mode
<1>. DEFINE tt == Append(ss, s)
<1>1. /\ Len(ss) \in Nat /\ Len(tt) = Len(ss) + 1
      /\ \A i \in 1 .. Len(ss) : tt[i] = ss[i]
      /\ tt[Len(ss) + 1] = s
  BY AppendProperties, LenProperties
<1>. HIDE DEF tt
<1>2. \A i \in 1 .. Len(ss) + 1 : Before(tt, i) = Before(ss, i)
  <2>. SUFFICES ASSUME NEW i \in 1 .. Len(ss) + 1, i # 1 PROVE tt[i - 1].mode = ss[i - 1].mode
    BY DEF Before
  <2>1. i - 1 \in 1 .. Len(ss)  BY <1>1
  <2>. QED  BY <1>1, <2>1
<1>3. Chained(tt)
  <2>. SUFFICES ASSUME NEW i \in 1 .. Len(tt)
                PROVE  /\ tt[i].frame = i - 1
                       /\ tt[i].mode = Hk!ApplyLimits(tt[i].volt, Before(tt, i))
    BY DEF Chained
  <2>1. CASE i = Len(ss) + 1  BY <1>1, <1>2, <2>1
  <2>2. CASE i # Len(ss) + 1
    <3>1. i \in 1 .. Len(ss) /\ i \in 1 .. Len(ss) + 1  BY <1>1, <2>2
    <3>2. tt[i] = ss[i] /\ Before(tt, i) = Before(ss, i)  BY <1>1, <1>2, <3>1
    <3>. QED  BY <3>1, <3>2 DEF Chained
  <2>. QED  BY <2>1, <2>2
<1>4. Before(tt, Len(tt) + 1) = s.mode  BY <1>1 DEF Before
<1>. QED  BY <1>3, <1>4 DEF tt

\* Nothing is dropped on time, so the next sample follows the last one kept.
LEMMA NextHandedOn == IInv /\ HandedOn /\ [PipelineNext]_pipelineVars => HandedOn'
<1>. SUFFICES ASSUME IInv, HandedOn, [PipelineNext]_pipelineVars, Timely'
              PROVE  (Chained(Kept) /\ slot = Before(Kept, Len(Kept) + 1))'
  BY DEF HandedOn
<1>1. IInv' /\ Timely
  BY NextIInv DEF PipelineNext, Tick, Sampler, Telemetry, pipelineVars, Timely
<1>2. Chained(Kept) /\ slot = Before(Kept, Len(Kept) + 1) /\ lost = 0 /\ lost' = 0
  BY <1>1 DEF HandedOn, IInv, NothingLost, Timely
<1>3. CASE Kept' = Kept /\ slot' = slot  BY <1>2, <1>3 DEF Chained, Before, Hk!ApplyLimits
<1>4. CASE Sampler
  <2>1. PICK m \in Hk!Mode :
           slot' = NewSample(frame, m).mode /\ Enqueue(NewSample(frame, m))
    BY <1>4 DEF Sampler
  <2>2. frame \in 0 .. Frames - 1 /\ PipelineTypeOK /\ UNCHANGED <<emitted, hand>>
    BY <1>4 DEF IInv, PipelineTypeOK, Sampler, SamplerReady
  <2>. DEFINE s == NewSample(frame, m)
  <2>3. s \in HkSample /\ s.frame = frame  BY <2>2, SampleTyped
  <2>4. s.mode = Hk!ApplyLimits(s.volt, slot)
    BY <1>1 DEF NewSample, Timely
  <2>5. Enqueue(s) /\ slot' = s.mode  BY <2>1
  <2>. HIDE DEF s
  <2>6. Kept' = Append(Kept, s)  BY <1>2, <2>2, <2>3, <2>5, KeptGrows
  <2>7. Kept \in Seq(HkSample) /\ frame = Len(Kept)
    <3>1. frame = Len(Kept) + lost  BY DEF IInv, EachFrameOnce, Kept
    <3>2. Kept \in Seq(HkSample) /\ Len(Kept) \in Nat  BY <2>2, KeptShape, LenProperties
    <3>. QED  BY <1>2, <3>1, <3>2
  <2>8. Chained(Append(Kept, s)) /\ Before(Append(Kept, s), Len(Append(Kept, s)) + 1) = s.mode
    BY <1>2, <2>3, <2>4, <2>7, ChainGrows
  <2>. QED  BY <2>5, <2>6, <2>8 DEF Chained, Before, Hk!ApplyLimits
<1>5. CASE Tick  BY <1>3, <1>5 DEF Tick, Kept
<1>6. CASE Telemetry
  <2>1. Kept' = Kept  BY <1>6, KeptMoves DEF IInv, Telemetry
  <2>. QED  BY <1>3, <1>6, <2>1 DEF Telemetry
<1>7. CASE UNCHANGED pipelineVars  BY <1>3, <1>7 DEF pipelineVars, Kept
<1>. QED  BY <1>4, <1>5, <1>6, <1>7 DEF PipelineNext

\* What stands where among the samples kept.
LEMMA KeptStarts ==
    ASSUME NEW e \in Seq(HkSample), NEW h \in Seq(HkSample), NEW q \in Seq(HkSample), Len(h) = 1
    PROVE  /\ e \o h = Append(e, h[1]) /\ h[1] \in HkSample
           /\ \A i \in 1 .. Len(e) : (e \o h \o q)[i] = e[i]
           /\ (e \o h \o q)[Len(e) + 1] = h[1]
           /\ Len(e) \in Nat /\ Len(e) + 1 <= Len(e \o h \o q)
<1>1. Len(e) \in Nat /\ Len(q) \in Nat /\ h[1] \in HkSample
  <2>1. 1 \in 1 .. Len(h)  OBVIOUS
  <2>. QED  BY <2>1, LenProperties, ElementOfSeq
<1>2. h = <<h[1]>>
  <2>1. <<h[1]>> \in Seq(HkSample) /\ Len(<<h[1]>>) = 1  BY <1>1
  <2>. QED  BY <2>1, SeqEqual
<1>3. /\ e \o h \in Seq(HkSample) /\ Len(e \o h) = Len(e) + 1
      /\ \A i \in 1 .. Len(e) : (e \o h)[i] = e[i]
      /\ (e \o h)[Len(e) + 1] = h[1]
  <2>1. /\ e \o h \in Seq(HkSample) /\ Len(e \o h) = Len(e) + Len(h)
        /\ \A i \in 1 .. Len(e) + Len(h) :
              (e \o h)[i] = IF i <= Len(e) THEN e[i] ELSE h[i - Len(e)]
    BY ConcatProperties
  <2>2. Len(e) + 1 \in 1 .. Len(e) + Len(h) /\ (Len(e) + 1) - Len(e) = 1  BY <1>1
  <2>3. (e \o h)[Len(e) + 1] = h[1]  BY <1>1, <2>1, <2>2
  <2>4. \A i \in 1 .. Len(e) : (e \o h)[i] = e[i]  BY <1>1, <2>1
  <2>. QED  BY <2>1, <2>3, <2>4
<1>4. /\ Len((e \o h) \o q) = Len(e) + 1 + Len(q)
      /\ \A i \in 1 .. Len(e) + 1 : ((e \o h) \o q)[i] = (e \o h)[i]
  <2>. DEFINE f == e \o h
  <2>1. f \in Seq(HkSample) /\ Len(f) = Len(e) + 1  BY <1>3
  <2>. HIDE DEF f
  <2>2. /\ Len(f \o q) = Len(f) + Len(q)
        /\ \A i \in 1 .. Len(f) + Len(q) :
              (f \o q)[i] = IF i <= Len(f) THEN f[i] ELSE q[i - Len(f)]
    BY <2>1, ConcatProperties
  <2>3. \A i \in 1 .. Len(e) + 1 : (f \o q)[i] = f[i]  BY <1>1, <2>1, <2>2
  <2>. QED  BY <2>1, <2>2, <2>3 DEF f
<1>5. e \o h = Append(e, h[1])
  <2>1. Append(e, h[1]) = e \o <<h[1]>>  BY <1>1, AppendIsConcat
  <2>. QED  BY <1>2, <2>1
<1>. QED  BY <1>1, <1>3, <1>4, <1>5

\* A frame emitted on time is a cycle of the Session 3 program, every other step
\* leaves that program alone.
LEMMA EmitIsCycle ==
    IInv /\ HandedOn /\ [PipelineNext]_pipelineVars
        => [Timely => Loop!LoopNext]_<<modeShown, emitted>>
<1>. SUFFICES ASSUME IInv, HandedOn, [PipelineNext]_pipelineVars, emitted' # emitted, Timely
              PROVE  Loop!LoopNext
  BY DEF modeShown
<1>1. Emit
  BY DEF PipelineNext, Tick, Sampler, Telemetry, TelemetryStep, Receive, EndScheduler,
         pipelineVars
<1>2. /\ emitted \in Seq(HkSample) /\ hand \in Seq(HkSample) /\ queue \in Seq(HkSample)
      /\ Len(hand) = 1 /\ emitted' = emitted \o hand
  <2>1. hand \in Seq(HkSample) /\ hand # <<>> /\ Len(hand) <= 1
    BY <1>1 DEF Emit, IInv, PipelineTypeOK
  <2>2. Len(hand) # 0 /\ Len(hand) \in Nat  BY <2>1, EmptySeq, LenProperties
  <2>3. Len(hand) = 1
    <3>1. \A n \in Nat : n # 0 /\ n <= 1 => n = 1  OBVIOUS
    <3>. QED  BY <2>1, <2>2, <3>1, Zenon
  <2>. QED  BY <1>1, <2>3 DEF Emit, IInv, PipelineTypeOK
<1>. DEFINE e == Len(emitted)
            s == hand[1]
<1>3. /\ emitted' = Append(emitted, s) /\ s \in HkSample
      /\ \A i \in 1 .. e : Kept[i] = emitted[i]
      /\ Kept[e + 1] = s
      /\ e \in Nat /\ e + 1 \in 1 .. Len(Kept)
  BY <1>2, KeptStarts, LenProperties, JoinShape DEF Kept
<1>4. s.frame = e /\ s.mode = Hk!ApplyLimits(s.volt, Before(Kept, e + 1))
  BY <1>3 DEF HandedOn, Chained
<1>5. Before(Kept, e + 1) = modeShown
  <2>1. emitted = <<>> <=> e = 0  BY <1>2, EmptySeq
  <2>. QED  BY <1>3, <2>1 DEF Before, modeShown
<1>6. modeShown' = s.mode
  <2>1. Len(Append(emitted, s)) = e + 1 /\ Append(emitted, s)[e + 1] = s
    BY <1>2, <1>3, AppendProperties
  <2>2. Append(emitted, s) # <<>>  BY <1>3, <2>1, EmptySeq
  <2>. QED  BY <1>3, <2>1, <2>2 DEF modeShown
<1>7. e < Frames
  <2>1. frame = Len(Kept) + lost /\ frame <= Frames /\ lost \in Nat
    BY DEF IInv, EachFrameOnce, PipelineTypeOK, Kept
  <2>2. Len(Kept) \in Nat  BY KeptShape, LenProperties DEF IInv
  <2>. QED  BY <1>3, <2>1, <2>2
<1>8. s = [frame |-> e, volt |-> s.volt, mode |-> modeShown'] /\ s.volt \in BusVoltage
  BY <1>3, <1>4, <1>6 DEF HkSample
<1>9. Loop!LoopCycle(s.volt)
  BY <1>3, <1>4, <1>5, <1>6, <1>7, <1>8 DEF Loop!LoopCycle, Loop!ApplyLimits, Hk!ApplyLimits
<1>. QED  BY <1>8, <1>9 DEF Loop!LoopNext

\* "This task does the same" as the program of Session 3 (hk_freertos.c:72): as long
\* as the telemetry task is late by less than the queue is long, and the mode
\* survives in the sampler's stack slot.
THEOREM PipelineImplementsLoop == PipelineSpec => ImplementsLoop
<1>1. PipelineInit => HandedOn /\ Loop!LoopInit
  <2>. SUFFICES ASSUME PipelineInit PROVE HandedOn /\ Loop!LoopInit  OBVIOUS
  <2>1. Len(Kept) = 0
    BY InitIInv, KeptShape, EmptySeq DEF IInv, PipelineInit
  <2>. QED  BY <2>1 DEF PipelineInit, HandedOn, Chained, Before, Loop!LoopInit, modeShown
<1>2. PipelineSpec => []HandedOn
  BY <1>1, NextHandedOn, AlwaysIInv, PTL DEF PipelineSpec
<1>3. Timely <=> keeps /\ lag < QueueLen  BY DEF Timely
<1>. QED  BY <1>1, <1>2, <1>3, EmitIsCycle, AlwaysIInv, PTL DEF PipelineSpec, ImplementsLoop, Timely

-----------------------------------------------------------------------------
(* The latch of the Session 3 program *)

Low(samples, k) == \E j \in 1 .. k : samples[j].volt < VMin

\* The mode remembers all samples so far.
LatchInv ==
    /\ Loop!LoopTypeOK
    /\ Loop!SafeExactlyAfterLow
    /\ modeShown = "SAFE" <=> Low(emitted, Len(emitted))

\* A cycle judges the sample it takes together with all before it.
LEMMA CycleKeeps == ASSUME LatchInv, NEW volt \in BusVoltage, Loop!LoopCycle(volt) PROVE LatchInv'
<1>. DEFINE s == [frame |-> Len(emitted), volt |-> volt, mode |-> modeShown']
<1>1. /\ modeShown' = Loop!ApplyLimits(volt, modeShown) /\ modeShown' \in {"NOMINAL", "SAFE"}
      /\ emitted' = Append(emitted, s)
  BY DEF Loop!LoopCycle, Loop!ApplyLimits
<1>2. emitted \in Seq([frame : Nat, volt : BusVoltage, mode : {"NOMINAL", "SAFE"}])
  BY DEF LatchInv, Loop!LoopTypeOK
<1>3. Len(emitted) \in Nat  BY <1>2, LenProperties
<1>4. s \in [frame : Nat, volt : BusVoltage, mode : {"NOMINAL", "SAFE"}]  BY <1>1, <1>3
<1>5. s.volt = volt /\ s.mode = modeShown'  OBVIOUS
<1>. HIDE DEF s
<1>6. /\ emitted' \in Seq([frame : Nat, volt : BusVoltage, mode : {"NOMINAL", "SAFE"}])
      /\ Len(emitted') = Len(emitted) + 1
      /\ \A i \in 1 .. Len(emitted) : emitted'[i] = emitted[i]
      /\ emitted'[Len(emitted) + 1] = s
  BY <1>1, <1>2, <1>4, AppendProperties
<1>7. Loop!LoopTypeOK'  BY <1>1, <1>6 DEF Loop!LoopTypeOK, Loop!Mode
<1>8. \A k \in 1 .. Len(emitted) : Low(emitted', k) <=> Low(emitted, k)
  <2>. SUFFICES ASSUME NEW k \in 1 .. Len(emitted), NEW j \in 1 .. k PROVE emitted'[j] = emitted[j]
    BY DEF Low
  <2>1. j \in 1 .. Len(emitted)  BY <1>3
  <2>. QED  BY <1>6, <2>1
<1>9. Low(emitted', Len(emitted')) <=> Low(emitted, Len(emitted)) \/ volt < VMin
  <2>1. Low(emitted', Len(emitted')) => Low(emitted, Len(emitted)) \/ volt < VMin
    <3>. SUFFICES ASSUME NEW j \in 1 .. Len(emitted) + 1, emitted'[j].volt < VMin, j # Len(emitted) + 1
                  PROVE  Low(emitted, Len(emitted))
      BY <1>5, <1>6 DEF Low
    <3>1. j \in 1 .. Len(emitted)  BY <1>3
    <3>. QED  BY <1>6, <3>1 DEF Low
  <2>2. volt < VMin => Low(emitted', Len(emitted'))
    <3>1. Len(emitted) + 1 \in 1 .. Len(emitted')  BY <1>3, <1>6
    <3>. QED  BY <1>5, <1>6, <3>1 DEF Low
  <2>3. Low(emitted, Len(emitted)) => Low(emitted', Len(emitted'))
    <3>1. 1 .. Len(emitted) \subseteq 1 .. Len(emitted')  BY <1>3, <1>6
    <3>. QED  BY <1>6, <3>1 DEF Low
  <2>. QED  BY <2>1, <2>2, <2>3
<1>10. (modeShown = "SAFE" <=> Low(emitted, Len(emitted)))'
  BY <1>1, <1>9 DEF LatchInv, Loop!ApplyLimits
<1>11. Loop!SafeExactlyAfterLow'
  <2>. SUFFICES ASSUME NEW k \in 1 .. Len(emitted')
                PROVE  emitted'[k].mode = "SAFE" <=> Low(emitted', k)
    BY DEF Loop!SafeExactlyAfterLow, Low
  <2>1. CASE k = Len(emitted) + 1  BY <1>5, <1>6, <1>10, <2>1
  <2>2. CASE k # Len(emitted) + 1
    <3>1. k \in 1 .. Len(emitted)  BY <1>3, <1>6, <2>2
    <3>2. emitted[k].mode = "SAFE" <=> Low(emitted, k)
      BY <3>1 DEF LatchInv, Loop!SafeExactlyAfterLow, Low
    <3>. QED  BY <1>6, <1>8, <3>1, <3>2
  <2>. QED  BY <2>1, <2>2
<1>. QED  BY <1>7, <1>10, <1>11 DEF LatchInv

LEMMA LatchStart == Loop!LoopInit => LatchInv
<1>. SUFFICES ASSUME Loop!LoopInit PROVE LatchInv  OBVIOUS
<1>1. emitted = <<>> /\ Len(emitted) = 0 /\ modeShown = "BOOT"  BY EmptySeq DEF Loop!LoopInit
<1>. QED  BY <1>1, EmptySeq DEF LatchInv, Loop!LoopTypeOK, Loop!Mode, Loop!SafeExactlyAfterLow, Low

LEMMA LatchStep == LatchInv /\ [Loop!LoopNext]_<<modeShown, emitted>> => LatchInv'
<1>1. LatchInv /\ Loop!LoopNext => LatchInv'  BY CycleKeeps DEF Loop!LoopNext
<1>2. LatchInv /\ UNCHANGED <<modeShown, emitted>> => LatchInv'
  BY DEF LatchInv, Loop!LoopTypeOK, Loop!SafeExactlyAfterLow, Low
<1>. QED  BY <1>1, <1>2

\* HK-REQ-003 and "Once in SAFE, stays in SAFE" (hk_telemetry.c:47): a frame is
\* marked SAFE exactly when some sample up to it was below the limit.
THEOREM SafeIsLatched == Loop!LoopSpec => []Loop!SafeExactlyAfterLow
<1>1. LatchInv => Loop!SafeExactlyAfterLow  BY DEF LatchInv
<1>. QED  BY <1>1, LatchStart, LatchStep, PTL DEF Loop!LoopSpec, Loop!loopVars

\* So is every frame the pipeline emits, on time and with a slot that keeps the
\* mode (hk_freertos.c:57-93): it inherits the latch from the program it implements.
THEOREM PipelineLatches == PipelineSpec => [](Timely => Loop!SafeExactlyAfterLow)
<1>1. PipelineInit => (Timely => LatchInv)
  <2>1. PipelineInit => Loop!LoopInit  BY DEF PipelineInit, Loop!LoopInit, modeShown
  <2>. QED  BY <2>1, LatchStart
<1>2. ASSUME Timely => LatchInv, [PipelineNext]_pipelineVars,
             [Timely => Loop!LoopNext]_<<modeShown, emitted>>
      PROVE  (Timely => LatchInv)'
  <2>1. Timely' => Timely
    BY <1>2 DEF PipelineNext, Tick, Sampler, Telemetry, pipelineVars, Timely
  <2>. QED  BY <1>2, <2>1, LatchStep
<1>3. (Timely => LatchInv) => (Timely => Loop!SafeExactlyAfterLow)  BY DEF LatchInv
<1>4. Timely <=> keeps /\ lag < QueueLen  BY DEF Timely
<1>5. PipelineSpec => [][Timely => Loop!LoopNext]_<<modeShown, emitted>>
  BY <1>4, PipelineImplementsLoop, PTL DEF ImplementsLoop
<1>. QED  BY <1>1, <1>2, <1>3, <1>5, PTL DEF PipelineSpec

-----------------------------------------------------------------------------
(* The four tasks *)

Shown   == emitted \o hand
Tallies == [nominal : Nat, safe : Nat, min : Nat, max : Nat]

IpcTypes ==
    /\ frame \in 0 .. Frames
    /\ cur \in HkSample
    /\ queue \in Seq(HkSample)
    /\ hand \in Seq(HkSample)
    /\ emitted \in Seq(HkSample)
    /\ counted \in Seq(HkSample)
    /\ answered \in 0 .. Len(counted)
    /\ stats \in Tallies /\ report \in Tallies
    /\ sem \in BOOLEAN

\* Who holds the mutex is somewhere between its take and its give; the sampler
\* waits for the reporter only, and while the reporter has the mutex the tasks
\* in between have nothing to do.
Locked ==
    /\ holder \in {"NONE", "SAMPLER", "REPORTER"} /\ hpc \in {"BLOCKED", "RESPOND"}
    /\ holder = "SAMPLER" <=> spc = "UPDATE"
    /\ holder = "REPORTER" <=> rpc \in {"READ", "READ2", "GIVE"}
    /\ spc = "WAIT" => holder = "REPORTER"
    /\ holder = "REPORTER" =>
          /\ spc \in {"SAMPLE", "TAKE", "WAIT"}
          /\ hpc = "BLOCKED" /\ ~sem
          /\ hand = <<>> /\ queue = <<>> /\ Len(emitted) # Frames

\* Where the sampler is in its frame, and what it has counted by then.
InFrame ==
    /\ spc \in {"SAMPLE", "TAKE", "WAIT", "UPDATE", "SEND", "SIGNAL"}
    /\ spc # "SAMPLE" => frame < Frames /\ cur.frame = frame
    /\ Len(counted) = IF spc \in {"SEND", "SIGNAL"} THEN frame + 1 ELSE frame

\* A signal is on its way to the handler.
Signalled == sem \/ (spc = "SIGNAL" /\ cur.mode = "SAFE")

\* A frame in SAFE is answered, or still queued with a signal ahead of it.
Answered ==
    /\ \A i \in 1 .. Len(Shown) : Shown[i].mode = "SAFE" => answered > Shown[i].frame
    /\ \A i \in 1 .. Len(queue) :
          /\ queue[i].frame < Len(counted)
          /\ queue[i].mode = "SAFE" => answered > queue[i].frame \/ Signalled

\* The statistics are those of the samples ss.
StatsOf(st, ss) ==
    /\ st.nominal + st.safe = Len(ss)
    /\ st.safe = Cardinality({i \in 1 .. Len(ss) : ss[i].mode = "SAFE"})
    /\ \A i \in 1 .. Len(ss) : st.min <= ss[i].volt /\ ss[i].volt <= st.max
    /\ IF Len(ss) = 0 THEN st = NoStats
       ELSE \E i, j \in 1 .. Len(ss) : st.min = ss[i].volt /\ st.max = ss[j].volt

\* What the reporter has read so far is what the statistics are.
Reading ==
    /\ StatsOf(stats, counted)
    /\ rpc = "READ2" => report.nominal = stats.nominal /\ report.safe = stats.safe
    /\ rpc = "GIVE" => report = stats

IpcInv == IpcTypes /\ Locked /\ InFrame /\ Answered /\ Reading
-----------------------------------------------------------------------------
(* The scheduler, and what a task that does not run leaves alone *)

\* The telemetry task runs when neither the sampler nor the handler can.
LEMMA TelemetryLast ==
    ASSUME Locked, Runs("TELEMETRY")
    PROVE  ~Ready("SAMPLER") /\ ~Ready("HANDLER")
<1>1. Effective("TELEMETRY") = 2  BY DEF Effective, Priority, Locked
<1>2. Effective("SAMPLER") = 4  BY DEF Effective, Priority
<1>3. Effective("HANDLER") = 3  BY DEF Effective, Priority, Locked
<1>4. {"SAMPLER", "HANDLER"} \subseteq TaskId \ {"TELEMETRY"}  BY DEF TaskId
<1>. QED  BY <1>1, <1>2, <1>3, <1>4 DEF Runs

\* The reporter runs when no other task can, but for a sampler that waits for it.
LEMMA ReporterLast ==
    ASSUME Locked, Runs("REPORTER"), spc # "WAIT"
    PROVE  ~Ready("SAMPLER") /\ ~Ready("HANDLER") /\ ~Ready("TELEMETRY")
<1>1. Effective("REPORTER") = 1  BY DEF Effective, Priority
<1>2. \A t \in {"SAMPLER", "HANDLER", "TELEMETRY"} : Effective(t) = Priority[t] /\ Priority[t] > 1
  BY DEF Effective, Priority
<1>3. {"SAMPLER", "HANDLER", "TELEMETRY"} = TaskId \ {"REPORTER"}  BY DEF TaskId
<1>4. Priority["SAMPLER"] = 4 /\ Priority["HANDLER"] = 3 /\ Priority["TELEMETRY"] = 2
  BY DEF Priority
<1>5. \A t \in {"SAMPLER", "HANDLER", "TELEMETRY"} : Ready(t) => Effective(t) < 1
  BY <1>1, <1>3 DEF Runs
<1>6. \A t \in {"SAMPLER", "HANDLER", "TELEMETRY"} : ~(Effective(t) < 1)
  <2>1. Effective("SAMPLER") = 4 /\ Effective("HANDLER") = 3 /\ Effective("TELEMETRY") = 2
    BY <1>2, <1>4
  <2>. QED  BY <2>1
<1>. QED  BY <1>5, <1>6

-----------------------------------------------------------------------------
(* Types *)

LEMMA IpcStart == IpcInit => IpcInv
<1>. SUFFICES ASSUME IpcInit PROVE IpcInv  OBVIOUS
<1>1. /\ frame = 0 /\ queue = <<>> /\ hand = <<>> /\ emitted = <<>> /\ counted = <<>>
      /\ spc = "SAMPLE" /\ hpc = "BLOCKED" /\ rpc = "SLEEP" /\ holder = "NONE" /\ ~sem
      /\ sem = FALSE /\ answered = 0 /\ stats = NoStats /\ report = NoStats
      /\ cur = NewSample(0, "BOOT")
  BY DEF IpcInit, PipelineInit
<1>2. <<>> \in Seq(HkSample) /\ Len(<<>>) = 0  BY EmptySeq
<1>3. cur \in HkSample
  <2>1. 0 \in 0 .. Frames - 1  BY Bounds
  <2>. QED  BY <1>1, <2>1, SampleTyped
<1>4. NoStats \in Tallies  BY DEF NoStats, Tallies
<1>5. IpcTypes
  <2>1. frame \in 0 .. Frames /\ answered \in 0 .. Len(counted)
    <3>1. Len(counted) = 0  BY <1>1, <1>2
    <3>. QED  BY <1>1, <3>1, Bounds
  <2>. QED  BY <1>1, <1>2, <1>3, <1>4, <2>1 DEF IpcTypes
<1>6. Locked /\ InFrame  BY <1>1, <1>2 DEF Locked, InFrame
<1>7. Answered
  <2>1. Len(Shown) = 0  BY <1>1, <1>2, ConcatProperties DEF Shown
  <2>. QED  BY <1>1, <1>2, <2>1 DEF Answered
<1>8. Reading
  <2>1. {i \in 1 .. Len(<<>>) : (<<>>)[i].mode = "SAFE"} = {}  BY <1>2
  <2>2. Cardinality({}) = 0  BY FS_EmptySet
  <2>3. StatsOf(NoStats, <<>>)  BY <1>2, <2>1, <2>2 DEF StatsOf, NoStats
  <2>. QED  BY <1>1, <2>3 DEF Reading
<1>. QED  BY <1>5, <1>6, <1>7, <1>8 DEF IpcInv

\* The statistics with one sample more.
LEMMA StatsGrow ==
    ASSUME stats \in Tallies, NEW ss \in Seq(HkSample), NEW s \in HkSample, StatsOf(stats, ss)
    PROVE  Count(s) \in Tallies /\ StatsOf(Count(s), Append(ss, s))
<1>. DEFINE tt == Append(ss, s)
            n  == Len(ss)
            Safe(qq) == {i \in 1 .. Len(qq) : qq[i].mode = "SAFE"}
<1>1. /\ n \in Nat /\ Len(tt) = n + 1 /\ tt[n + 1] = s
      /\ \A i \in 1 .. n : tt[i] = ss[i]
  BY AppendProperties, LenProperties
<1>2. s.volt \in Nat /\ s.volt <= NoStats.min
  <2>1. PICK i \in 1 .. Len(Profile) : s.volt = Profile[i]  BY DEF HkSample, BusVoltage
  <2>2. Profile[i] \in Nat  BY <2>1, PipelineAssumption, ElementOfSeq
  <2>. QED  BY <2>1, <2>2, IpcAssumption
<1>3. /\ stats.nominal \in Nat /\ stats.safe \in Nat /\ stats.min \in Nat /\ stats.max \in Nat
  BY DEF Tallies
<1>4. Count(s) \in Tallies  BY <1>2, <1>3 DEF Count, Tallies
<1>. HIDE DEF tt
<1>5. Count(s).nominal + Count(s).safe = n + 1
  <2>1. stats.nominal + stats.safe = n  BY DEF StatsOf
  <2>. QED  BY <1>1, <1>3, <2>1 DEF Count
<1>6. Count(s).safe = Cardinality(Safe(tt))
  <2>1. IsFiniteSet(Safe(ss)) /\ Cardinality(Safe(ss)) = stats.safe
    <3>1. IsFiniteSet(1 .. n)
      <4>1. 1 \in Int /\ n \in Int  BY <1>1
      <4>. QED  BY <4>1, FS_Interval
    <3>2. Safe(ss) \subseteq 1 .. n  OBVIOUS
    <3>. QED  BY <3>1, <3>2, FS_Subset DEF StatsOf
  <2>2. CASE s.mode = "SAFE"
    <3>1. Safe(tt) = Safe(ss) \cup {n + 1}  BY <1>1, <2>2
    <3>2. n + 1 \notin Safe(ss)  BY <1>1
    <3>3. Cardinality(Safe(ss) \cup {n + 1}) = Cardinality(Safe(ss)) + 1
      BY <2>1, <3>2, FS_AddElement
    <3>. QED  BY <2>1, <2>2, <3>1, <3>3 DEF Count
  <2>3. CASE s.mode # "SAFE"
    <3>1. Safe(tt) = Safe(ss)  BY <1>1, <2>3
    <3>. QED  BY <2>1, <2>3, <3>1 DEF Count
  <2>. QED  BY <2>2, <2>3
<1>7. /\ Count(s).min <= stats.min /\ Count(s).min <= s.volt
      /\ Count(s).max >= stats.max /\ Count(s).max >= s.volt
      /\ Count(s).min = s.volt \/ Count(s).min = stats.min
      /\ Count(s).max = s.volt \/ Count(s).max = stats.max
  BY <1>2, <1>3 DEF Count
<1>8. Count(s).min \in Nat /\ Count(s).max \in Nat  BY <1>4 DEF Tallies
<1>9. \A i \in 1 .. n : ss[i].volt \in Nat
  <2>. SUFFICES ASSUME NEW i \in 1 .. n PROVE ss[i].volt \in Nat  OBVIOUS
  <2>1. ss[i] \in HkSample  BY ElementOfSeq
  <2>2. PICK k \in 1 .. Len(Profile) : ss[i].volt = Profile[k]  BY <2>1 DEF HkSample, BusVoltage
  <2>. QED  BY <2>2, PipelineAssumption, ElementOfSeq
<1>10. \A i \in 1 .. Len(tt) : Count(s).min <= tt[i].volt /\ tt[i].volt <= Count(s).max
  <2>. SUFFICES ASSUME NEW i \in 1 .. Len(tt)
                PROVE  Count(s).min <= tt[i].volt /\ tt[i].volt <= Count(s).max
    OBVIOUS
  <2>1. CASE i = n + 1  BY <1>1, <1>7, <2>1
  <2>2. CASE i # n + 1
    <3>1. i \in 1 .. n  BY <1>1, <2>2
    <3>2. stats.min <= ss[i].volt /\ ss[i].volt <= stats.max  BY <3>1 DEF StatsOf
    <3>. QED  BY <1>1, <1>3, <1>7, <1>8, <1>9, <3>1, <3>2
  <2>. QED  BY <2>1, <2>2
<1>11. \E i, j \in 1 .. Len(tt) : Count(s).min = tt[i].volt /\ Count(s).max = tt[j].volt
  <2>1. n + 1 \in 1 .. Len(tt) /\ tt[n + 1].volt = s.volt  BY <1>1
  <2>2. CASE n = 0
    <3>1. stats = NoStats  BY <2>2 DEF StatsOf
    <3>2. Count(s).min = s.volt /\ Count(s).max = s.volt  BY <1>2, <3>1 DEF Count, NoStats
    <3>. QED  BY <2>1, <3>2
  <2>3. CASE n # 0
    <3>1. PICK i, j \in 1 .. n : stats.min = ss[i].volt /\ stats.max = ss[j].volt
      BY <2>3 DEF StatsOf
    <3>2. /\ i \in 1 .. Len(tt) /\ j \in 1 .. Len(tt)
          /\ tt[i].volt = stats.min /\ tt[j].volt = stats.max
      BY <1>1, <3>1
    <3>. QED  BY <1>7, <2>1, <3>2
  <2>. QED  BY <2>2, <2>3
<1>12. Len(tt) # 0  BY <1>1
<1>. QED  BY <1>1, <1>4, <1>5, <1>6, <1>10, <1>11, <1>12 DEF StatsOf, tt
-----------------------------------------------------------------------------
(* The invariant is inductive *)

\* A step that leaves the invariant's variables alone.
LEMMA IpcIdle ==
    ASSUME IpcInv,
           UNCHANGED <<frame, queue, hand, emitted, spc, cur, hpc, rpc, holder, sem, stats,
                       report, counted, answered>>
    PROVE  IpcInv'
BY DEF IpcInv, IpcTypes, Locked, InFrame, Answered, Signalled, Shown, Reading, StatsOf

\* A sample is sent behind the others, or not at all.
LEMMA Enqueued ==
    ASSUME queue \in Seq(HkSample), NEW s \in HkSample, Enqueue(s)
    PROVE  /\ queue' \in Seq(HkSample)
           /\ \A i \in 1 .. Len(queue') : queue'[i] = s \/ \E j \in 1 .. Len(queue) : queue'[i] = queue[j]
<1>1. CASE queue' = Append(queue, s)
  <2>1. /\ Append(queue, s) \in Seq(HkSample) /\ Len(Append(queue, s)) = Len(queue) + 1
        /\ \A i \in 1 .. Len(queue) : Append(queue, s)[i] = queue[i]
        /\ Append(queue, s)[Len(queue) + 1] = s
        /\ Len(queue) \in Nat
    BY AppendProperties, LenProperties
  <2>2. \A i \in 1 .. Len(queue) + 1 : i = Len(queue) + 1 \/ i \in 1 .. Len(queue)  BY <2>1
  <2>. QED  BY <1>1, <2>1, <2>2
<1>2. CASE queue' = queue  BY <1>2
<1>. QED  BY <1>1, <1>2 DEF Enqueue

LEMMA SamplerKeeps == ASSUME IpcInv, SamplerTask PROVE IpcInv'
<1>1. /\ UNCHANGED <<hand, emitted, hpc, rpc, report, answered>>
      /\ Sample \/ Take \/ Update \/ SendSample \/ Signal
      /\ Ready("SAMPLER")
  BY DEF SamplerTask, Runs
<1>2. IpcTypes /\ Locked /\ InFrame /\ Answered /\ Reading  BY DEF IpcInv
<1>3. Len(counted) \in Nat /\ frame \in Nat /\ answered \in Nat
  BY <1>2, LenProperties DEF IpcTypes
<1>4. CASE Sample
  <2>1. /\ spc = "SAMPLE" /\ spc' = "TAKE" /\ frame < Frames
        /\ UNCHANGED <<frame, queue, holder, stats, sem, counted>>
    BY <1>1, <1>4 DEF Sample, Ready, SamplerReady
  <2>2. PICK m \in Hk!Mode : cur' = NewSample(frame, m)  BY <1>4 DEF Sample
  <2>3. frame \in 0 .. Frames - 1  BY <1>3, <2>1, Bounds
  <2>4. cur' \in HkSample /\ cur'.frame = frame  BY <2>2, <2>3, SampleTyped
  <2>5. IpcTypes'  BY <1>1, <1>2, <2>1, <2>4 DEF IpcTypes
  <2>6. Locked'  BY <1>1, <1>2, <2>1 DEF Locked
  <2>7. InFrame'  BY <1>2, <2>1, <2>4 DEF InFrame
  <2>8. Answered'  BY <1>1, <1>2, <2>1 DEF Answered, Signalled, Shown
  <2>9. Reading'  BY <1>1, <1>2, <2>1 DEF Reading, StatsOf
  <2>. QED  BY <2>5, <2>6, <2>7, <2>8, <2>9 DEF IpcInv
<1>5. CASE Take
  <2>1. /\ spc = "TAKE" /\ UNCHANGED <<frame, queue, cur, stats, sem, counted>>
        /\ \/ holder = "NONE" /\ holder' = "SAMPLER" /\ spc' = "UPDATE"
           \/ holder # "NONE" /\ holder' = holder /\ spc' = "WAIT"
    BY <1>5 DEF Take
  <2>2. IpcTypes'  BY <1>1, <1>2, <2>1 DEF IpcTypes
  <2>3. Locked'  BY <1>1, <1>2, <2>1 DEF Locked
  <2>4. InFrame'  BY <1>2, <2>1 DEF InFrame
  <2>5. Answered'  BY <1>1, <1>2, <2>1 DEF Answered, Signalled, Shown
  <2>6. Reading'  BY <1>1, <1>2, <2>1 DEF Reading, StatsOf
  <2>. QED  BY <2>2, <2>3, <2>4, <2>5, <2>6 DEF IpcInv
<1>6. CASE Update
  <2>1. /\ spc = "UPDATE" /\ spc' = "SEND" /\ holder' = "NONE" /\ holder = "SAMPLER"
        /\ stats' = Count(cur) /\ counted' = Append(counted, cur)
        /\ UNCHANGED <<frame, queue, cur, sem>>
    BY <1>2, <1>6 DEF Update, Locked
  <2>2. rpc \notin {"READ", "READ2", "GIVE"}  BY <1>2, <2>1 DEF Locked
  <2>3. counted' \in Seq(HkSample) /\ Len(counted') = Len(counted) + 1
    BY <1>2, <2>1, AppendProperties DEF IpcTypes
  <2>4. stats' \in Tallies /\ StatsOf(stats', counted')
    BY <1>2, <2>1, StatsGrow DEF IpcTypes, Reading
  <2>5. IpcTypes'
    <3>1. answered' \in 0 .. Len(counted')  BY <1>1, <1>2, <1>3, <2>3 DEF IpcTypes
    <3>. QED  BY <1>1, <1>2, <2>1, <2>3, <2>4, <3>1 DEF IpcTypes
  <2>6. Locked'  BY <1>1, <1>2, <2>1, <2>2 DEF Locked
  <2>7. InFrame'  BY <1>2, <2>1, <2>3 DEF InFrame
  <2>8. Answered'
    <3>1. \A i \in 1 .. Len(queue) : queue[i].frame < Len(counted) + 1
      <4>. SUFFICES ASSUME NEW i \in 1 .. Len(queue) PROVE queue[i].frame < Len(counted) + 1
        OBVIOUS
      <4>1. queue[i] \in HkSample  BY <1>2, ElementOfSeq DEF IpcTypes
      <4>2. queue[i].frame \in Int  BY <4>1 DEF HkSample
      <4>3. queue[i].frame < Len(counted)  BY <1>2 DEF Answered
      <4>. QED  BY <1>3, <4>2, <4>3
    <3>. QED  BY <1>1, <1>2, <2>1, <2>3, <3>1 DEF Answered, Signalled, Shown
  <2>9. Reading'  BY <1>1, <2>2, <2>4 DEF Reading
  <2>. QED  BY <2>5, <2>6, <2>7, <2>8, <2>9 DEF IpcInv
<1>7. CASE SendSample
  <2>1. /\ spc = "SEND" /\ spc' = "SIGNAL" /\ Enqueue(cur)
        /\ UNCHANGED <<frame, cur, holder, stats, sem, counted>>
    BY <1>7 DEF SendSample
  <2>2. holder = "NONE"  BY <1>2, <2>1 DEF Locked
  <2>3. /\ queue' \in Seq(HkSample)
        /\ \A i \in 1 .. Len(queue') :
              queue'[i] = cur \/ \E j \in 1 .. Len(queue) : queue'[i] = queue[j]
    BY <1>2, <2>1, Enqueued DEF IpcTypes
  <2>4. IpcTypes'  BY <1>1, <1>2, <2>1, <2>3 DEF IpcTypes
  <2>5. Locked'  BY <1>1, <1>2, <2>1, <2>2 DEF Locked
  <2>6. InFrame'  BY <1>2, <2>1 DEF InFrame
  <2>7. Answered'
    <3>1. ASSUME NEW i \in 1 .. Len(queue')
          PROVE  /\ queue'[i].frame < Len(counted')
                 /\ queue'[i].mode = "SAFE" => answered' > queue'[i].frame \/ Signalled'
      <4>1. CASE queue'[i] = cur
        <5>1. cur.frame = frame /\ Len(counted) = frame + 1  BY <1>2, <2>1 DEF InFrame
        <5>. QED  BY <1>3, <2>1, <4>1, <5>1 DEF Signalled
      <4>2. CASE \E j \in 1 .. Len(queue) : queue'[i] = queue[j]
        <5>1. PICK j \in 1 .. Len(queue) : queue'[i] = queue[j]  BY <4>2
        <5>. QED  BY <1>1, <1>2, <2>1, <5>1 DEF Answered, Signalled
      <4>. QED  BY <2>3, <4>1, <4>2
    <3>2. \A i \in 1 .. Len(Shown') : Shown'[i].mode = "SAFE" => answered' > Shown'[i].frame
      BY <1>1, <1>2 DEF Answered, Shown
    <3>. QED  BY <3>1, <3>2 DEF Answered
  <2>8. Reading'  BY <1>1, <1>2, <2>1 DEF Reading, StatsOf
  <2>. QED  BY <2>4, <2>5, <2>6, <2>7, <2>8 DEF IpcInv
<1>8. CASE Signal
  <2>1. /\ spc = "SIGNAL" /\ spc' = "SAMPLE" /\ frame' = frame + 1
        /\ sem' = (sem \/ cur.mode = "SAFE")
        /\ UNCHANGED <<queue, cur, holder, stats, counted>>
    BY <1>8 DEF Signal, Signals
  <2>2. holder = "NONE" /\ frame < Frames /\ Len(counted) = frame + 1
    BY <1>2, <2>1 DEF Locked, InFrame
  <2>3. IpcTypes'
    <3>1. frame' \in 0 .. Frames /\ sem' \in BOOLEAN
      BY <1>3, <2>1, <2>2, Bounds
    <3>. QED  BY <1>1, <1>2, <2>1, <3>1 DEF IpcTypes
  <2>4. Locked'  BY <1>1, <1>2, <2>1, <2>2 DEF Locked
  <2>5. InFrame'  BY <2>1, <2>2 DEF InFrame
  <2>6. Signalled => Signalled'  BY <2>1 DEF Signalled
  <2>7. Answered'  BY <1>1, <1>2, <2>1, <2>6 DEF Answered, Shown
  <2>8. Reading'  BY <1>1, <1>2, <2>1 DEF Reading, StatsOf
  <2>. QED  BY <2>3, <2>4, <2>5, <2>7, <2>8 DEF IpcInv
<1>. QED  BY <1>1, <1>4, <1>5, <1>6, <1>7, <1>8

\* The handler wakes with every frame counted so far behind it.
LEMMA HandlerKeeps == ASSUME IpcInv, HandlerTask PROVE IpcInv'
<1>1. /\ UNCHANGED <<frame, queue, hand, emitted, spc, cur, rpc, holder, stats, report, counted>>
      /\ \/ hpc = "BLOCKED" /\ sem /\ sem' = FALSE /\ hpc' = "RESPOND" /\ answered' = Len(counted)
         \/ hpc = "RESPOND" /\ hpc' = "BLOCKED" /\ UNCHANGED <<sem, answered>>
  BY DEF HandlerTask, pipelineVars
<1>2. IpcTypes /\ Locked /\ InFrame /\ Answered /\ Reading  BY DEF IpcInv
<1>3. Len(counted) \in Nat /\ answered \in Nat /\ answered' \in 0 .. Len(counted)
      /\ answered <= answered'
  BY <1>1, <1>2, LenProperties DEF IpcTypes
<1>4. IpcTypes'  BY <1>1, <1>2, <1>3 DEF IpcTypes
<1>5. Locked'  BY <1>1, <1>2 DEF Locked
<1>6. InFrame'  BY <1>1, <1>2 DEF InFrame
<1>7. Answered'
  <2>1. \A i \in 1 .. Len(Shown) : Shown[i] \in HkSample
    <3>1. Shown \in Seq(HkSample)  BY <1>2, ConcatProperties DEF IpcTypes, Shown
    <3>. QED  BY <3>1, ElementOfSeq
  <2>2. \A i \in 1 .. Len(Shown) : Shown[i].mode = "SAFE" => answered' > Shown[i].frame
    <3>. SUFFICES ASSUME NEW i \in 1 .. Len(Shown), Shown[i].mode = "SAFE"
                  PROVE  answered' > Shown[i].frame
      OBVIOUS
    <3>1. Shown[i].frame \in Int  BY <2>1 DEF HkSample
    <3>2. answered > Shown[i].frame  BY <1>2 DEF Answered
    <3>. QED  BY <1>3, <3>1, <3>2
  <2>3. \A i \in 1 .. Len(queue) :
           queue[i].mode = "SAFE" => answered' > queue[i].frame \/ Signalled'
    <3>. SUFFICES ASSUME NEW i \in 1 .. Len(queue), queue[i].mode = "SAFE"
                  PROVE  answered' > queue[i].frame \/ Signalled'
      OBVIOUS
    <3>1. queue[i] \in HkSample  BY <1>2, ElementOfSeq DEF IpcTypes
    <3>2. queue[i].frame \in Int /\ queue[i].frame < Len(counted)
      BY <1>2, <3>1 DEF HkSample, Answered
    <3>3. answered > queue[i].frame \/ Signalled  BY <1>2 DEF Answered
    <3>4. CASE answered' = Len(counted)  BY <1>3, <3>2, <3>4
    <3>5. CASE UNCHANGED <<sem, answered>>  BY <1>1, <3>3, <3>5 DEF Signalled
    <3>. QED  BY <1>1, <3>4, <3>5
  <2>. QED  BY <1>1, <1>2, <2>2, <2>3 DEF Answered, Shown
<1>8. Reading'  BY <1>1, <1>2 DEF Reading, StatsOf
<1>. QED  BY <1>4, <1>5, <1>6, <1>7, <1>8 DEF IpcInv

\* A frame leaves the queue only when no signal is on its way.
LEMMA TelemetryKeeps == ASSUME IpcInv, TelemetryTask PROVE IpcInv'
<1>1. /\ TelemetryStep
      /\ UNCHANGED <<frame, spc, cur, hpc, rpc, holder, sem, stats, report, counted, answered>>
  BY DEF TelemetryTask, ipcHeld
<1>2. IpcTypes /\ Locked /\ InFrame /\ Answered /\ Reading  BY DEF IpcInv
<1>3. ~Ready("SAMPLER") /\ ~Ready("HANDLER") /\ Ready("TELEMETRY")
  BY <1>2, TelemetryLast DEF TelemetryTask, Runs
<1>4. ~Signalled  BY <1>3 DEF Signalled, Ready
<1>5. holder # "REPORTER"  BY <1>2, <1>3 DEF Ready, TelemetryReady, Locked
<1>6. Locked'  BY <1>1, <1>2, <1>5 DEF Locked
<1>7. InFrame'  BY <1>1, <1>2 DEF InFrame
<1>8. Reading'  BY <1>1, <1>2 DEF Reading, StatsOf
<1>9. IpcTypes' /\ Answered'
  <2>1. CASE Receive
    <3>1. /\ hand = <<>> /\ queue # <<>> /\ emitted' = emitted
          /\ hand' = <<Head(queue)>> /\ queue' = Tail(queue)
      BY <2>1 DEF Receive
    <3>2. /\ queue \in Seq(HkSample) /\ emitted \in Seq(HkSample) /\ Len(queue) \in Nat
          /\ Len(emitted) \in Nat
      BY <1>2, LenProperties DEF IpcTypes
    <3>3. /\ Head(queue) = queue[1] /\ Head(queue) \in HkSample
          /\ Tail(queue) \in Seq(HkSample) /\ Len(Tail(queue)) = Len(queue) - 1
          /\ \A i \in 1 .. Len(Tail(queue)) : Tail(queue)[i] = queue[i + 1]
      BY <3>1, <3>2, HeadTailProperties
    <3>4. 1 \in 1 .. Len(queue)  BY <3>1, <3>2, EmptySeq
    <3>5. queue[1].mode = "SAFE" => answered > queue[1].frame  BY <1>2, <1>4, <3>4 DEF Answered
    <3>6. <<Head(queue)>> \in Seq(HkSample) /\ Len(<<Head(queue)>>) = 1
          /\ (<<Head(queue)>>)[1] = Head(queue)
      BY <3>3
    <3>7. IpcTypes'  BY <1>1, <1>2, <3>1, <3>3, <3>6 DEF IpcTypes
    <3>8. \A i \in 1 .. Len(Shown') : Shown'[i].mode = "SAFE" => answered' > Shown'[i].frame
      <4>1. Shown = emitted  BY <3>1, <3>2, ConcatEmptySeq DEF Shown
      <4>2. /\ Len(Shown') = Len(emitted) + 1
            /\ \A i \in 1 .. Len(emitted) + 1 :
                  Shown'[i] = IF i <= Len(emitted) THEN emitted[i] ELSE (<<Head(queue)>>)[i - Len(emitted)]
        BY <3>1, <3>2, <3>6, ConcatProperties DEF Shown
      <4>. SUFFICES ASSUME NEW i \in 1 .. Len(emitted) + 1, Shown'[i].mode = "SAFE"
                    PROVE  answered > Shown'[i].frame
        BY <1>1, <4>2
      <4>3. CASE i <= Len(emitted)
        <5>1. i \in 1 .. Len(Shown)  BY <3>2, <4>1, <4>3
        <5>2. Shown'[i] = Shown[i]  BY <4>1, <4>2, <4>3
        <5>. QED  BY <1>2, <5>1, <5>2 DEF Answered
      <4>4. CASE ~(i <= Len(emitted))
        <5>1. i - Len(emitted) = 1  BY <3>2, <4>4
        <5>2. Shown'[i] = queue[1]  BY <3>3, <3>6, <4>2, <4>4, <5>1
        <5>. QED  BY <3>5, <5>2
      <4>. QED  BY <4>3, <4>4
    <3>9. ASSUME NEW i \in 1 .. Len(queue')
          PROVE  /\ queue'[i].frame < Len(counted')
                 /\ queue'[i].mode = "SAFE" => answered' > queue'[i].frame \/ Signalled'
      <4>1. i + 1 \in 1 .. Len(queue) /\ queue'[i] = queue[i + 1]  BY <3>1, <3>2, <3>3
      <4>. QED  BY <1>1, <1>2, <4>1 DEF Answered, Signalled
    <3>. QED  BY <3>7, <3>8, <3>9 DEF Answered
  <2>2. CASE Emit
    <3>1. emitted' = emitted \o hand /\ hand' = <<>> /\ queue' = queue  BY <2>2 DEF Emit
    <3>2. emitted \o hand \in Seq(HkSample)  BY <1>2, ConcatProperties DEF IpcTypes
    <3>3. Shown' = Shown  BY <3>1, <3>2, ConcatEmptySeq DEF Shown
    <3>4. IpcTypes'  BY <1>1, <1>2, <3>1, <3>2, EmptySeq DEF IpcTypes
    <3>. QED  BY <1>1, <1>2, <3>1, <3>3, <3>4 DEF Answered, Signalled
  <2>3. CASE EndScheduler
    <3>1. UNCHANGED <<queue, hand, emitted>>  BY <2>3 DEF EndScheduler
    <3>. QED  BY <1>1, <1>2, <3>1 DEF IpcTypes, Answered, Signalled, Shown
  <2>. QED  BY <1>1, <2>1, <2>2, <2>3 DEF TelemetryStep
<1>. QED  BY <1>6, <1>7, <1>8, <1>9 DEF IpcInv

\* The reporter takes the mutex when all others wait, and reads while the
\* statistics stay as they are.
LEMMA ReporterKeeps == ASSUME IpcInv, ReporterTask PROVE IpcInv'
<1>1. UNCHANGED <<frame, queue, hand, emitted, cur, hpc, sem, stats, counted, answered>>
  BY DEF ReporterTask, pipelineVars
<1>2. IpcTypes /\ Locked /\ InFrame /\ Answered /\ Reading  BY DEF IpcInv
<1>3. Runs("REPORTER")  BY DEF ReporterTask
<1>4. CASE /\ rpc = "SLEEP" /\ rpc' = "TAKE" /\ UNCHANGED <<holder, spc, report>>
  BY <1>1, <1>2, <1>4
  DEF IpcInv, IpcTypes, Locked, InFrame, Answered, Signalled, Shown, Reading, StatsOf
<1>5. CASE /\ rpc = "TAKE" /\ rpc' = "READ" /\ holder' = "REPORTER" /\ UNCHANGED <<spc, report>>
  <2>1. holder = "NONE"  BY <1>3, <1>5 DEF Runs, Ready
  <2>2. spc # "WAIT"  BY <1>2, <2>1 DEF Locked
  <2>3. ~Ready("SAMPLER") /\ ~Ready("HANDLER") /\ ~Ready("TELEMETRY")
    BY <1>2, <1>3, <2>2, ReporterLast
  <2>4. spc = "SAMPLE" /\ hpc # "RESPOND" /\ ~sem  BY <2>2, <2>3 DEF Ready
  <2>5. hand = <<>> /\ queue = <<>> /\ Len(emitted) # Frames  BY <2>3 DEF Ready, TelemetryReady
  <2>6. hpc = "BLOCKED"  BY <1>2, <2>4 DEF Locked
  <2>7. Locked'  BY <1>1, <1>2, <1>5, <2>4, <2>5, <2>6 DEF Locked
  <2>. QED
    BY <1>1, <1>2, <1>5, <2>7
    DEF IpcInv, IpcTypes, InFrame, Answered, Signalled, Shown, Reading, StatsOf
<1>6. CASE /\ rpc = "READ" /\ rpc' = "READ2" /\ UNCHANGED <<holder, spc>>
           /\ report' = [report EXCEPT !.nominal = stats.nominal, !.safe = stats.safe]
  <2>1. /\ report' \in Tallies /\ report'.nominal = stats.nominal /\ report'.safe = stats.safe
    BY <1>2, <1>6 DEF IpcTypes, Tallies
  <2>. QED
    BY <1>1, <1>2, <1>6, <2>1
    DEF IpcInv, IpcTypes, Locked, InFrame, Answered, Signalled, Shown, Reading, StatsOf
<1>7. CASE /\ rpc = "READ2" /\ rpc' = "GIVE" /\ UNCHANGED <<holder, spc>>
           /\ report' = [report EXCEPT !.min = stats.min, !.max = stats.max]
  <2>1. report.nominal = stats.nominal /\ report.safe = stats.safe  BY <1>2, <1>7 DEF Reading
  <2>2. report' = stats  BY <1>2, <1>7, <2>1 DEF IpcTypes, Tallies
  <2>. QED
    BY <1>1, <1>2, <1>7, <2>2
    DEF IpcInv, IpcTypes, Locked, InFrame, Answered, Signalled, Shown, Reading, StatsOf
<1>8. CASE rpc = "GIVE" /\ rpc' = "SLEEP" /\ Give /\ UNCHANGED report
  <2>1. holder = "REPORTER" /\ holder' = "NONE"  BY <1>2, <1>8 DEF Give, Locked
  <2>2. spc \in {"SAMPLE", "TAKE", "WAIT"} /\ spc' = IF spc = "WAIT" THEN "TAKE" ELSE spc
    BY <1>2, <1>8, <2>1 DEF Give, Locked
  <2>3. Locked'  BY <1>1, <1>2, <1>8, <2>1, <2>2 DEF Locked
  <2>4. InFrame'  BY <1>1, <1>2, <2>2 DEF InFrame
  <2>5. Answered'  BY <1>1, <1>2, <2>2 DEF Answered, Signalled, Shown
  <2>. QED
    BY <1>1, <1>2, <1>8, <2>3, <2>4, <2>5 DEF IpcInv, IpcTypes, Reading, StatsOf
<1>. QED  BY <1>4, <1>5, <1>6, <1>7, <1>8 DEF ReporterTask

LEMMA IpcStep == IpcInv /\ [IpcNext]_ipcVars => IpcInv'
<1>. SUFFICES ASSUME IpcInv, [IpcNext]_ipcVars PROVE IpcInv'  OBVIOUS
<1>1. CASE IpcTick  BY <1>1, IpcIdle DEF IpcTick, Tick, ipcHeld
<1>2. CASE SamplerTask  BY <1>2, SamplerKeeps
<1>3. CASE HandlerTask  BY <1>3, HandlerKeeps
<1>4. CASE TelemetryTask  BY <1>4, TelemetryKeeps
<1>5. CASE ReporterTask  BY <1>5, ReporterKeeps
<1>6. CASE UNCHANGED ipcVars  BY <1>6, IpcIdle DEF ipcVars, pipelineVars, ipcHeld
<1>. QED  BY <1>1, <1>2, <1>3, <1>4, <1>5, <1>6 DEF IpcNext

LEMMA AlwaysIpcInv == IpcSpec => []IpcInv
BY IpcStart, IpcStep, PTL DEF IpcSpec

-----------------------------------------------------------------------------
(* Theorems about the four tasks *)

\* While the sampler waits for the mutex no other task than its holder can run
\* (hk_freertos_ipc.c:81, 147).
THEOREM OnlyTheHolderDelays == IpcSpec => []NoInversion
<1>1. IpcInv => NoInversion
  <2>. SUFFICES ASSUME Locked, spc = "WAIT", NEW t \in TaskId, t # holder PROVE ~Ready(t)
    BY DEF IpcInv, NoInversion
  <2>1. /\ holder = "REPORTER" /\ hpc = "BLOCKED" /\ ~sem
        /\ hand = <<>> /\ queue = <<>> /\ Len(emitted) # Frames
    BY DEF Locked
  <2>2. t \in {"SAMPLER", "HANDLER", "TELEMETRY"}  BY <2>1 DEF TaskId
  <2>. QED  BY <2>1, <2>2 DEF Ready, TelemetryReady
<1>. QED  BY <1>1, AlwaysIpcInv, PTL

\* The handler has woken for a frame in SAFE before the telemetry task gets it
\* (hk_freertos_ipc.c:71, 112, 157).
THEOREM HandlerRespondsFirst == IpcSpec => []RespondsFirst
<1>1. IpcInv => RespondsFirst  BY DEF IpcInv, Answered, Shown, RespondsFirst
<1>. QED  BY <1>1, AlwaysIpcInv, PTL

\* The report is of one point in time: its counts and its extremes are those of the
\* same frames (hk_freertos_ipc.c:81, 147).
THEOREM ReportsOnePoint == IpcSpec => []ReportConsistent
<1>1. IpcInv => ReportConsistent
  <2>. SUFFICES ASSUME IpcInv, rpc = "GIVE" PROVE ReportConsistent
    BY DEF ReportConsistent
  <2>0. PICK n : n = Len(counted)  OBVIOUS
  <2>. DEFINE volts == {counted[i].volt : i \in 1 .. n}
  <2>1. report = stats /\ StatsOf(stats, counted) /\ counted \in Seq(HkSample)
        /\ stats \in Tallies
    BY DEF IpcInv, IpcTypes, Reading
  <2>2. n \in Nat /\ report.nominal + report.safe = n
        /\ report.safe = Cardinality({i \in 1 .. n : counted[i].mode = "SAFE"})
    BY <2>0, <2>1, LenProperties DEF StatsOf
  <2>3. ASSUME n > 0 PROVE report.min = Min(volts) /\ report.max = Max(volts)
    <3>1. PICK i, j \in 1 .. n : report.min = counted[i].volt /\ report.max = counted[j].volt
      <4>1. n # 0  BY <2>2, <2>3
      <4>. QED  BY <2>0, <2>1, <4>1 DEF StatsOf
    <3>2. report.min \in volts /\ report.max \in volts  BY <3>1
    <3>3. \A v \in volts : report.min <= v /\ v <= report.max  BY <2>0, <2>1 DEF StatsOf
    <3>4. \A v \in volts : v \in Nat
      <4>. SUFFICES ASSUME NEW k \in 1 .. n PROVE counted[k].volt \in Nat  OBVIOUS
      <4>1. counted[k] \in HkSample  BY <2>0, <2>1, ElementOfSeq
      <4>2. PICK l \in 1 .. Len(Profile) : counted[k].volt = Profile[l]
        BY <4>1 DEF HkSample, BusVoltage
      <4>. QED  BY <4>2, PipelineAssumption, ElementOfSeq
    <3>. HIDE DEF volts
    <3>5. \A v \in volts : (\A w \in volts : v <= w) => v = report.min
      BY <3>2, <3>3, <3>4
    <3>6. \A v \in volts : (\A w \in volts : v >= w) => v = report.max
      BY <3>2, <3>3, <3>4
    <3>7. report.min = Min(volts)  BY <3>2, <3>3, <3>5 DEF Min
    <3>8. report.max = Max(volts)
      <4>1. \A v \in volts : report.max >= v  BY <3>2, <3>3, <3>4
      <4>. QED  BY <3>2, <3>6, <4>1 DEF Max
    <3>. QED  BY <3>7, <3>8
  <2>. DEFINE Tells(k) ==
          /\ k <= Len(counted)
          /\ report.safe = Cardinality({i \in 1 .. k : counted[i].mode = "SAFE"})
          /\ k > 0 => /\ report.min = Min({counted[i].volt : i \in 1 .. k})
                      /\ report.max = Max({counted[i].volt : i \in 1 .. k})
  <2>4. Tells(n)
    <3>1. n <= Len(counted)  BY <2>0, <2>2
    <3>. QED  BY <2>2, <2>3, <3>1
  <2>5. Tells(report.nominal + report.safe) => ReportConsistent  BY DEF ReportConsistent
  <2>. HIDE DEF Tells
  <2>. QED  BY <2>2, <2>4, <2>5
<1>. QED  BY <1>1, AlwaysIpcInv, PTL
=============================================================================
