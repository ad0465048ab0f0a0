----------------------------- MODULE Obdh_proofs -----------------------------
(***************************************************************************)
(* The order in which telemetry reaches the ground and the count of what   *)
(* does not, for stores of any capacity, any traffic and any number of     *)
(* passes.                                                                 *)
(***************************************************************************)
EXTENDS Obdh, RingStore_proofs, FiniteSetTheorems

-----------------------------------------------------------------------------
(* The inductive invariant *)

Listed(s) == \E S : s \in Seq(S)

Of(c, g) == {k \in 1 .. Len(g) : g[k].pkt.apid \in c}

\* With n packets offered and g on the ground, store s holds packets of class c
\* only, in the order they were offered, newer than those of the class in g.
Held(c, s, g, n) ==
    /\ s \in Store /\ InStep(s)
    /\ \A i \in 1 .. s.count : At(s, i).pkt.apid \in c /\ At(s, i).pkt.n \in 1 .. n
    /\ \A i, j \in 1 .. s.count : i < j => At(s, i).pkt.n < At(s, j).pkt.n
    /\ \A k \in Of(c, g), i \in 1 .. s.count : g[k].pkt.n < At(s, i).pkt.n

\* What is on the ground of class c was offered, and came in order.
Down(c, g, n) ==
    /\ \A k \in Of(c, g) : g[k].pkt.n \in 1 .. n
    /\ \A j, k \in Of(c, g) : j < k => g[j].pkt.n < g[k].pkt.n

Passes(g, q) == \A k \in 1 .. Len(g) : g[k].pass \in 0 .. q

First(g) ==
    \A j, k \in 1 .. Len(g) :
        j < k /\ g[j].pass = g[k].pass /\ g[j].pass # 0 => Precedence(g[j]) <= Precedence(g[k])

OInv ==
    /\ Listed(ground) /\ Len(offered) \in Nat /\ Listed(offered)
    /\ onboardTime \in 0 .. MaxStamp /\ inContact \in BOOLEAN /\ pass \in Nat
    /\ Held(Events, evStore, ground, Len(offered))
    /\ Held(HkApid, hkStore, ground, Len(offered))
    /\ Down(Events, ground, Len(offered)) /\ Down(HkApid, ground, Len(offered))
    /\ Passes(ground, pass) /\ First(ground)
    /\ NothingHeldInContact

-----------------------------------------------------------------------------
(* Sequences and stores *)

LEMMA Joined ==
    ASSUME NEW a, NEW b, Listed(a), Listed(b)
    PROVE  /\ Listed(a \o b)
           /\ Len(a) \in Nat /\ Len(b) \in Nat /\ Len(a \o b) = Len(a) + Len(b)
           /\ \A i \in 1 .. Len(a) : (a \o b)[i] = a[i]
           /\ \A i \in 1 .. Len(b) : (a \o b)[Len(a) + i] = b[i]
<1>1. PICK S : a \in Seq(S)  BY DEF Listed
<1>2. PICK T : b \in Seq(T)  BY DEF Listed
<1>3. a \in Seq(S \cup T) /\ b \in Seq(S \cup T)
  BY <1>1, <1>2
<1>4. a \o b \in Seq(S \cup T)
  BY <1>3, ConcatProperties
<1>5. /\ Len(a) \in Nat /\ Len(b) \in Nat /\ Len(a \o b) = Len(a) + Len(b)
      /\ \A i \in 1 .. Len(a) : (a \o b)[i] = a[i]
      /\ \A i \in 1 .. Len(b) : (a \o b)[Len(a) + i] = b[i]
  BY <1>3, ConcatProperties, LenProperties
<1> QED BY <1>4, <1>5 DEF Listed

LEMMA Assoc ==
    ASSUME NEW a, NEW b, NEW c, Listed(a), Listed(b), Listed(c)
    PROVE  (a \o b) \o c = a \o (b \o c)
<1>1. PICK S : a \in Seq(S)  BY DEF Listed
<1>2. PICK T : b \in Seq(T)  BY DEF Listed
<1>3. PICK U : c \in Seq(U)  BY DEF Listed
<1> DEFINE W == S \cup T \cup U
<1>4. a \in Seq(W) /\ b \in Seq(W) /\ c \in Seq(W)  BY <1>1, <1>2, <1>3
<1> HIDE DEF W
<1> QED BY <1>4, ConcatAssociative

LEMMA Split ==
    ASSUME NEW m \in Nat, NEW n \in Nat, NEW k \in 1 .. m + n
    PROVE  k \in 1 .. m \/ \E i \in 1 .. n : k = m + i
<1>1. CASE k <= m  BY <1>1
<1>2. CASE k > m
  <2>1. k - m \in 1 .. n /\ k = m + (k - m)  BY <1>2
  <2> QED BY <2>1
<1> QED BY <1>1, <1>2

LEMMA PutAt ==
    ASSUME NEW s \in Store, InStep(s), NEW p \in Packet, NEW t \in 0 .. MaxStamp
    PROVE  /\ StorePut(s, p, t) \in Store /\ InStep(StorePut(s, p, t))
           /\ \E d \in 0 .. 1 : \A i \in 1 .. StorePut(s, p, t).count :
                 \/ i + d \in 1 .. s.count /\ At(StorePut(s, p, t), i) = At(s, i + d)
                 \/ /\ i = StorePut(s, p, t).count
                    /\ At(StorePut(s, p, t), i).pkt = p
<1>1. CASE Fits(p)
  <2> DEFINE r == MakeRoom(s)
             w == Write(r, p, t)
  <2>1. /\ r \in Store /\ InStep(r) /\ r.count < StoreCap
    BY RoomMade, RoomContents
  <2>2. PICK d \in 0 .. 1 : \A i \in 1 .. r.count : i + d \in 1 .. s.count /\ At(r, i) = At(s, i + d)
    <3>1. CASE Full(s)
      <4>1. s.count > 0 /\ s.count \in Nat  BY <3>1, StoreAssumption DEF Full, Store
      <4>2. \A i \in 1 .. r.count : At(r, i) = At(s, i + 1)
        BY <3>1, <4>1, RoomMade, AdvanceAt
      <4>3. r.count = s.count - 1  BY <3>1, RoomMade
      <4> QED BY <4>1, <4>2, <4>3
    <3>2. CASE ~Full(s)
      <4>1. r = s /\ s.count \in Nat  BY <3>2, RoomMade, StoreAssumption DEF Store
      <4>2. \A i \in 1 .. r.count : i + 0 = i  BY <4>1
      <4> QED BY <4>1, <4>2
    <3> QED BY <3>1, <3>2
  <2>3. /\ w \in Store /\ InStep(w)
        /\ \A i \in 1 .. r.count : At(w, i) = At(r, i)
        /\ At(w, r.count + 1) = [pkt |-> p, stamp |-> t]
    BY <2>1, Written, WriteAt
  <2>4. w.count = r.count + 1 /\ r.count \in Nat
    BY <2>1, StoreAssumption DEF Write, Store
  <2>5. StorePut(s, p, t) = w  BY <1>1 DEF StorePut
  <2> HIDE DEF w, r
  <2>6. \A i \in 1 .. w.count : i \in 1 .. r.count \/ i = r.count + 1  BY <2>4
  <2> QED BY <2>2, <2>3, <2>4, <2>5, <2>6
<1>2. CASE ~Fits(p)
  <2> DEFINE w == StorePut(s, p, t)
  <2>1. /\ w \in Store /\ w.count = s.count /\ w.slot = s.slot
        /\ w.tail = s.tail /\ w.head = s.head
    BY <1>2 DEF StorePut, Store
  <2>2. InStep(w) /\ \A i : At(w, i) = At(s, i)
    BY <2>1 DEF InStep, At
  <2>3. s.count \in Nat  BY StoreAssumption DEF Store
  <2> HIDE DEF w
  <2>4. \A i \in 1 .. w.count : i + 0 \in 1 .. s.count /\ At(w, i) = At(s, i + 0)
    BY <2>1, <2>2, <2>3
  <2> QED BY <2>1, <2>2, <2>4 DEF w
<1> QED BY <1>1, <1>2

LEMMA EmptyStore == StoreInit \in Store /\ InStep(StoreInit) /\ StoreInit.count = 0
<1>1. NoEntry \in Entry  BY StoreAssumption DEF NoEntry, Entry
<1>2. StoreInit \in Store  BY <1>1, StoreAssumption DEF StoreInit, Store, Slot
<1>3. InStep(StoreInit)  BY StoreAssumption, ModSmall DEF StoreInit, InStep
<1> QED BY <1>2, <1>3 DEF StoreInit

LEMMA DrainedStore ==
    ASSUME NEW s \in Store, InStep(s)
    PROVE  Drained(s) \in Store /\ InStep(Drained(s)) /\ Drained(s).count = 0
<1>1. s.tail + s.count \in Nat /\ (s.tail + s.count) % StoreCap \in Slot
  <2>1. s.tail \in Nat /\ s.count \in Nat  BY StoreAssumption DEF Store, Slot
  <2> QED BY <2>1, ModRange
<1>2. (((s.tail + s.count) % StoreCap) + 0) % StoreCap = (s.tail + s.count) % StoreCap
  <2> DEFINE x == (s.tail + s.count) % StoreCap
  <2>1. x \in Slot  BY <1>1
  <2> HIDE DEF x
  <2>2. x + 0 \in Nat /\ x + 0 < StoreCap /\ x + 0 = x  BY <2>1, StoreAssumption DEF Slot
  <2> QED BY <2>2, ModSmall DEF x
<1>3. 0 \in 0 .. StoreCap  BY StoreAssumption
<1> QED BY <1>1, <1>2, <1>3 DEF Drained, Store, InStep

-----------------------------------------------------------------------------
(* The ground gets more *)

\* Items of which at most the first is of class c, the packet offered just now.
LEMMA LiveDown ==
    ASSUME NEW c, NEW g, NEW b, Listed(g), Listed(b), NEW n \in Nat, NEW m \in Nat, m >= n,
           Down(c, g, n),
           \A i \in 1 .. Len(b) : b[i].pkt.apid \in c => i = 1 /\ b[i].pkt.n = n + 1 /\ m = n + 1
    PROVE  Down(c, g \o b, m)
<1> DEFINE h == g \o b
<1>1. /\ Len(g) \in Nat /\ Len(b) \in Nat /\ Len(h) = Len(g) + Len(b)
      /\ \A i \in 1 .. Len(g) : h[i] = g[i]
      /\ \A i \in 1 .. Len(b) : h[Len(g) + i] = b[i]
  BY Joined
<1> HIDE DEF h
<1>2. ASSUME NEW k \in Of(c, h)
      PROVE  \/ k \in Of(c, g) /\ h[k] = g[k]
             \/ k = Len(g) + 1 /\ h[k].pkt.n = n + 1 /\ m = n + 1
  <2>1. k \in 1 .. Len(g) + Len(b) /\ h[k].pkt.apid \in c  BY <1>1 DEF Of
  <2>2. CASE k \in 1 .. Len(g)  BY <1>1, <2>1, <2>2 DEF Of
  <2>3. CASE \E i \in 1 .. Len(b) : k = Len(g) + i
    <3>1. PICK i \in 1 .. Len(b) : k = Len(g) + i  BY <2>3
    <3>2. h[k] = b[i]  BY <1>1, <3>1
    <3>3. i = 1 /\ b[i].pkt.n = n + 1 /\ m = n + 1  BY <2>1, <3>2
    <3> QED BY <3>1, <3>2, <3>3
  <2> QED BY <1>1, <2>1, <2>2, <2>3, Split
<1>3. \A k \in Of(c, g) : k \in 1 .. Len(g) /\ g[k].pkt.n \in 1 .. n  BY DEF Down, Of
<1>4. \A k \in Of(c, h) : h[k].pkt.n \in 1 .. m
  BY <1>2, <1>3
<1>5. ASSUME NEW j \in Of(c, h), NEW k \in Of(c, h), j < k PROVE h[j].pkt.n < h[k].pkt.n
  <2>1. CASE j \in Of(c, g) /\ h[j] = g[j]
    <3>1. CASE k \in Of(c, g) /\ h[k] = g[k]  BY <1>5, <2>1, <3>1 DEF Down
    <3>2. CASE k = Len(g) + 1 /\ h[k].pkt.n = n + 1 /\ m = n + 1
      <4>1. g[j].pkt.n \in 1 .. n  BY <1>3, <2>1
      <4> QED BY <2>1, <3>2, <4>1
    <3> QED BY <1>2, <3>1, <3>2
  <2>2. CASE j = Len(g) + 1
    <3>1. k \notin Of(c, g) /\ k # Len(g) + 1  BY <1>1, <1>3, <1>5, <2>2
    <3> QED BY <1>2, <3>1
  <2> QED BY <1>2, <2>1, <2>2
<1> QED BY <1>4, <1>5 DEF Down, h

LEMMA LiveHeld ==
    ASSUME NEW c, NEW s, NEW g, NEW b, Listed(g), Listed(b), NEW n \in Nat, NEW m \in Nat, m >= n,
           Held(c, s, g, n), \A i \in 1 .. Len(b) : b[i].pkt.apid \notin c
    PROVE  Held(c, s, g \o b, m)
<1> DEFINE h == g \o b
<1>1. /\ Len(g) \in Nat /\ Len(b) \in Nat /\ Len(h) = Len(g) + Len(b)
      /\ \A i \in 1 .. Len(g) : h[i] = g[i]
      /\ \A i \in 1 .. Len(b) : h[Len(g) + i] = b[i]
  BY Joined
<1> HIDE DEF h
<1>2. ASSUME NEW k \in Of(c, h) PROVE k \in Of(c, g) /\ h[k] = g[k]
  <2>1. k \in 1 .. Len(g) + Len(b) /\ h[k].pkt.apid \in c  BY <1>1 DEF Of
  <2>2. ~ \E i \in 1 .. Len(b) : k = Len(g) + i  BY <1>1, <2>1
  <2>3. k \in 1 .. Len(g)  BY <1>1, <2>1, <2>2, Split
  <2> QED BY <1>1, <2>1, <2>3 DEF Of
<1>3. \A i \in 1 .. s.count : At(s, i).pkt.n \in 1 .. m  BY DEF Held
<1> QED BY <1>2, <1>3 DEF Held, h

\* A store forwarded to the ground, in order.
LEMMA ForwardDown ==
    ASSUME NEW c, NEW s, NEW g, NEW b, Listed(g), Listed(b), NEW n \in Nat,
           Held(c, s, g, n), Down(c, g, n),
           Len(b) = s.count, \A i \in 1 .. Len(b) : b[i].pkt = At(s, i).pkt
    PROVE  Down(c, g \o b, n)
<1> DEFINE h == g \o b
<1>1. /\ Len(g) \in Nat /\ Len(b) \in Nat /\ Len(h) = Len(g) + Len(b)
      /\ \A i \in 1 .. Len(g) : h[i] = g[i]
      /\ \A i \in 1 .. Len(b) : h[Len(g) + i] = b[i]
  BY Joined
<1> HIDE DEF h
<1>2. ASSUME NEW k \in Of(c, h)
      PROVE  \/ k \in Of(c, g) /\ h[k] = g[k]
             \/ \E i \in 1 .. Len(b) : k = Len(g) + i /\ h[k].pkt = At(s, i).pkt
  <2>1. k \in 1 .. Len(g) + Len(b) /\ h[k].pkt.apid \in c  BY <1>1 DEF Of
  <2>2. CASE k \in 1 .. Len(g)  BY <1>1, <2>1, <2>2 DEF Of
  <2>3. CASE \E i \in 1 .. Len(b) : k = Len(g) + i  BY <1>1, <2>3
  <2> QED BY <1>1, <2>1, <2>2, <2>3, Split
<1>3. \A k \in Of(c, g) : k \in 1 .. Len(g) /\ g[k].pkt.n \in 1 .. n  BY DEF Down, Of
<1>4. \A k \in Of(c, h) : h[k].pkt.n \in 1 .. n
  BY <1>2, <1>3 DEF Held
<1>5. ASSUME NEW j \in Of(c, h), NEW k \in Of(c, h), j < k PROVE h[j].pkt.n < h[k].pkt.n
  <2>1. CASE j \in Of(c, g) /\ h[j] = g[j]
    <3>1. CASE k \in Of(c, g) /\ h[k] = g[k]  BY <1>5, <2>1, <3>1 DEF Down
    <3>2. CASE \E i \in 1 .. Len(b) : k = Len(g) + i /\ h[k].pkt = At(s, i).pkt
      BY <2>1, <3>2 DEF Held
    <3> QED BY <1>2, <3>1, <3>2
  <2>2. CASE \E i \in 1 .. Len(b) : j = Len(g) + i /\ h[j].pkt = At(s, i).pkt
    <3>1. PICK i \in 1 .. Len(b) : j = Len(g) + i /\ h[j].pkt = At(s, i).pkt  BY <2>2
    <3>2. k \notin Of(c, g)  BY <1>1, <1>3, <1>5, <3>1
    <3>3. PICK l \in 1 .. Len(b) : k = Len(g) + l /\ h[k].pkt = At(s, l).pkt  BY <1>2, <3>2
    <3>4. i < l  BY <1>1, <1>5, <3>1, <3>3
    <3> QED BY <3>1, <3>3, <3>4 DEF Held
  <2> QED BY <1>2, <2>1, <2>2
<1> QED BY <1>4, <1>5 DEF Down, h

LEMMA PutHeld ==
    ASSUME NEW c, NEW s, NEW g, NEW n \in Nat, Held(c, s, g, n), Down(c, g, n),
           NEW p \in Packet, p.apid \in c, p.n = n + 1, NEW t \in 0 .. MaxStamp
    PROVE  Held(c, StorePut(s, p, t), g, n + 1)
<1> DEFINE w == StorePut(s, p, t)
<1>1. s \in Store /\ InStep(s)  BY DEF Held
<1>2. /\ w \in Store /\ InStep(w)
      /\ \E d \in 0 .. 1 : \A i \in 1 .. w.count :
            \/ i + d \in 1 .. s.count /\ At(w, i) = At(s, i + d)
            \/ i = w.count /\ At(w, i).pkt = p
  BY <1>1, PutAt
<1> HIDE DEF w
<1>3. PICK d \in 0 .. 1 : \A i \in 1 .. w.count :
            \/ i + d \in 1 .. s.count /\ At(w, i) = At(s, i + d)
            \/ i = w.count /\ At(w, i).pkt = p
  BY <1>2
<1>4. w.count \in Nat /\ s.count \in Nat  BY <1>1, <1>2, StoreAssumption DEF Store
<1>5. \A i \in 1 .. s.count : At(s, i).pkt.apid \in c /\ At(s, i).pkt.n \in 1 .. n  BY DEF Held
<1>6. \A i \in 1 .. w.count : At(w, i).pkt.apid \in c /\ At(w, i).pkt.n \in 1 .. n + 1
  <2> SUFFICES ASSUME NEW i \in 1 .. w.count
               PROVE  At(w, i).pkt.apid \in c /\ At(w, i).pkt.n \in 1 .. n + 1  OBVIOUS
  <2>1. CASE i + d \in 1 .. s.count /\ At(w, i) = At(s, i + d)  BY <1>5, <2>1
  <2>2. CASE At(w, i).pkt = p  BY <2>2
  <2> QED BY <1>3, <2>1, <2>2
<1>7. ASSUME NEW i \in 1 .. w.count, NEW j \in 1 .. w.count, i < j
      PROVE  At(w, i).pkt.n < At(w, j).pkt.n
  <2>1. i + d \in 1 .. s.count /\ At(w, i) = At(s, i + d)  BY <1>3, <1>4, <1>7
  <2>2. CASE j + d \in 1 .. s.count /\ At(w, j) = At(s, j + d)
    <3>1. i + d < j + d  BY <1>7
    <3> QED BY <2>1, <2>2, <3>1 DEF Held
  <2>3. CASE At(w, j).pkt = p  BY <1>5, <2>1, <2>3
  <2> QED BY <1>3, <2>2, <2>3
<1>8. ASSUME NEW k \in Of(c, g), NEW i \in 1 .. w.count PROVE g[k].pkt.n < At(w, i).pkt.n
  <2>1. CASE i + d \in 1 .. s.count /\ At(w, i) = At(s, i + d)  BY <2>1 DEF Held
  <2>2. CASE At(w, i).pkt = p
    <3>1. g[k].pkt.n \in 1 .. n  BY DEF Down
    <3> QED BY <2>2, <3>1
  <2> QED BY <1>3, <2>1, <2>2
<1> QED BY <1>2, <1>6, <1>7, <1>8 DEF Held, w

LEMMA NoneHeld ==
    ASSUME NEW c, NEW s \in Store, InStep(s), s.count = 0, NEW g, NEW n PROVE Held(c, s, g, n)
BY DEF Held

LEMMA PassesGrow ==
    ASSUME NEW g, NEW b, Listed(g), Listed(b), NEW q \in Nat, NEW r \in Nat, r >= q,
           Passes(g, q), Passes(b, r)
    PROVE  Passes(g \o b, r)
<1>1. /\ Len(g) \in Nat /\ Len(b) \in Nat /\ Len(g \o b) = Len(g) + Len(b)
      /\ \A i \in 1 .. Len(g) : (g \o b)[i] = g[i]
      /\ \A i \in 1 .. Len(b) : (g \o b)[Len(g) + i] = b[i]
  BY Joined
<1> SUFFICES ASSUME NEW k \in 1 .. Len(g) + Len(b) PROVE (g \o b)[k].pass \in 0 .. r
  BY <1>1 DEF Passes
<1>2. CASE k \in 1 .. Len(g)
  <2>1. g[k].pass \in 0 .. q  BY <1>2 DEF Passes
  <2> QED BY <1>1, <1>2, <2>1
<1>3. CASE \E i \in 1 .. Len(b) : k = Len(g) + i
  BY <1>1, <1>3 DEF Passes
<1> QED BY <1>1, <1>2, <1>3, Split

LEMMA FirstGrows ==
    ASSUME NEW g, NEW b, Listed(g), Listed(b), First(g), First(b),
           \A j \in 1 .. Len(g), i \in 1 .. Len(b) :
               g[j].pass = b[i].pass /\ g[j].pass # 0 => Precedence(g[j]) <= Precedence(b[i])
    PROVE  First(g \o b)
<1> DEFINE h == g \o b
<1>1. /\ Len(g) \in Nat /\ Len(b) \in Nat /\ Len(h) = Len(g) + Len(b)
      /\ \A i \in 1 .. Len(g) : h[i] = g[i]
      /\ \A i \in 1 .. Len(b) : h[Len(g) + i] = b[i]
  BY Joined
<1> HIDE DEF h
<1> SUFFICES ASSUME NEW j \in 1 .. Len(g) + Len(b), NEW k \in 1 .. Len(g) + Len(b), j < k,
                    h[j].pass = h[k].pass, h[j].pass # 0
             PROVE  Precedence(h[j]) <= Precedence(h[k])
  BY <1>1 DEF First, h
<1>2. CASE k \in 1 .. Len(g)
  <2>1. j \in 1 .. Len(g)  BY <1>1, <1>2
  <2> QED BY <1>1, <1>2, <2>1 DEF First
<1>3. CASE \E i \in 1 .. Len(b) : k = Len(g) + i
  <2>1. PICK i \in 1 .. Len(b) : k = Len(g) + i  BY <1>3
  <2>2. CASE j \in 1 .. Len(g)  BY <1>1, <2>1, <2>2
  <2>3. CASE \E l \in 1 .. Len(b) : j = Len(g) + l
    <3>1. PICK l \in 1 .. Len(b) : j = Len(g) + l  BY <2>3
    <3>2. l < i  BY <1>1, <2>1, <3>1
    <3> QED BY <1>1, <2>1, <3>1, <3>2 DEF First
  <2> QED BY <1>1, <2>2, <2>3, Split
<1> QED BY <1>1, <1>2, <1>3, Split

-----------------------------------------------------------------------------
(* What the router does to the ground and the stores *)

LEMMA Ranks ==
    ASSUME NEW x
    PROVE  /\ Precedence(x) \in 1 .. 3
           /\ x.how = "LIVE" => Precedence(x) = 3
           /\ x.how = "STORED" => Precedence(x) = IF x.pkt.apid = "EVENT" THEN 1 ELSE 2
<1>1. CASE x.how = "LIVE"  BY <1>1 DEF Precedence
<1>2. CASE x.how # "LIVE" /\ x.pkt.apid = "EVENT"  BY <1>2 DEF Precedence
<1>3. CASE x.how # "LIVE" /\ x.pkt.apid # "EVENT"  BY <1>3 DEF Precedence
<1> QED BY <1>1, <1>2, <1>3

\* Live items: at most the first is of a class that is stored, and then it is the
\* packet offered just now, in contact.
LEMMA LiveKeeps ==
    ASSUME OInv, NEW b, Listed(b), ground' = ground \o b,
           Listed(offered'), Len(offered') \in Nat, Len(offered') >= Len(offered),
           \A i \in 1 .. Len(b) : b[i].how = "LIVE" /\ b[i].pass = IF inContact THEN pass ELSE 0,
           \A i \in 1 .. Len(b) : b[i].pkt.apid \in Events \cup HkApid =>
               /\ inContact /\ i = 1
               /\ b[i].pkt.n = Len(offered) + 1 /\ Len(offered') = Len(offered) + 1,
           UNCHANGED <<hkStore, evStore, inContact, onboardTime, pass>>
    PROVE  OInv'
<1> DEFINE n == Len(offered)
           m == Len(offered')
<1>1. /\ Listed(ground) /\ n \in Nat /\ pass \in Nat /\ inContact \in BOOLEAN
      /\ Held(Events, evStore, ground, n) /\ Held(HkApid, hkStore, ground, n)
      /\ Down(Events, ground, n) /\ Down(HkApid, ground, n)
      /\ Passes(ground, pass) /\ First(ground)
  BY DEF OInv
<1>2. Down(Events, ground', m) /\ Down(HkApid, ground', m)
  <2>1. \A i \in 1 .. Len(b) : b[i].pkt.apid \in Events => i = 1 /\ b[i].pkt.n = n + 1 /\ m = n + 1
    OBVIOUS
  <2>2. \A i \in 1 .. Len(b) : b[i].pkt.apid \in HkApid => i = 1 /\ b[i].pkt.n = n + 1 /\ m = n + 1
    OBVIOUS
  <2> HIDE DEF n, m
  <2>3. m \in Nat /\ m >= n  BY DEF n, m
  <2> QED BY <1>1, <2>1, <2>2, <2>3, LiveDown
<1>3. Held(Events, evStore, ground', m) /\ Held(HkApid, hkStore, ground', m)
  <2>1. CASE inContact
    <3>1. evStore.count = 0 /\ hkStore.count = 0  BY <2>1 DEF OInv, NothingHeldInContact
    <3> QED BY <1>1, <3>1, NoneHeld DEF Held
  <2>2. CASE ~inContact
    <3>1. \A i \in 1 .. Len(b) : b[i].pkt.apid \notin Events /\ b[i].pkt.apid \notin HkApid
      BY <2>2
    <3>2. n \in Nat /\ m \in Nat /\ m >= n  BY <1>1
    <3> HIDE DEF n, m
    <3> QED BY <1>1, <3>1, <3>2, LiveHeld
  <2> QED BY <2>1, <2>2
<1>4. Passes(ground', pass)
  <2>1. Passes(b, pass)  BY <1>1 DEF Passes
  <2> QED BY <1>1, <2>1, PassesGrow
<1>5. First(ground')
  <2>1. \A i \in 1 .. Len(b) : Precedence(b[i]) = 3  BY Ranks
  <2>2. First(b)  BY <2>1 DEF First
  <2>3. \A j \in 1 .. Len(ground) : Precedence(ground[j]) \in 1 .. 3  BY Ranks
  <2>4. ASSUME NEW j \in 1 .. Len(ground), NEW i \in 1 .. Len(b)
        PROVE  Precedence(ground[j]) <= Precedence(b[i])
    <3>1. Precedence(ground[j]) \in 1 .. 3 /\ Precedence(b[i]) = 3  BY <2>1, <2>3
    <3> QED BY <3>1
  <2> QED BY <1>1, <2>2, <2>4, FirstGrows
<1>6. Listed(ground')  BY <1>1, Joined
<1> QED BY <1>1, <1>2, <1>3, <1>4, <1>5, <1>6 DEF OInv, NothingHeldInContact

\* A packet stored out of contact, and command responses behind it.
LEMMA StoreKeeps ==
    ASSUME OInv, ~inContact, NEW p \in Packet, p.n = Len(offered) + 1,
           p.apid \in Events \cup HkApid, StoreTm(p),
           NEW b, Listed(b), ground' = ground \o b,
           \A i \in 1 .. Len(b) : /\ b[i].how = "LIVE" /\ b[i].pass = 0
                                  /\ b[i].pkt.apid \notin Events \cup HkApid,
           Listed(offered'), Len(offered') = Len(offered) + 1,
           UNCHANGED <<inContact, onboardTime, pass>>
    PROVE  OInv'
<1> DEFINE n == Len(offered)
<1>1. /\ Listed(ground) /\ n \in Nat /\ pass \in Nat /\ onboardTime \in 0 .. MaxStamp
      /\ Held(Events, evStore, ground, n) /\ Held(HkApid, hkStore, ground, n)
      /\ Down(Events, ground, n) /\ Down(HkApid, ground, n)
      /\ Passes(ground, pass) /\ First(ground)
  BY DEF OInv
<1>2. n + 1 \in Nat /\ n + 1 >= n /\ n + 1 >= n + 1 /\ Len(offered') = n + 1  BY <1>1
<1>3. \A i \in 1 .. Len(b) : b[i].pkt.apid \notin Events /\ b[i].pkt.apid \notin HkApid
  OBVIOUS
<1>4. p.n = n + 1  OBVIOUS
<1> HIDE DEF n
<1>5. Down(Events, ground', n + 1) /\ Down(HkApid, ground', n + 1)
  BY <1>1, <1>2, <1>3, LiveDown
<1>6. Held(Events, evStore', ground', n + 1) /\ Held(HkApid, hkStore', ground', n + 1)
  <2>1. CASE p.apid = "EVENT"
    <3>1. evStore' = StorePut(evStore, p, onboardTime) /\ hkStore' = hkStore
      BY <2>1 DEF StoreTm
    <3>2. Held(Events, evStore', ground, n + 1)
      BY <1>1, <1>4, <2>1, <3>1, PutHeld DEF Events
    <3>3. Held(Events, evStore', ground', n + 1)  BY <1>1, <1>2, <1>3, <3>2, LiveHeld
    <3>4. Held(HkApid, hkStore', ground', n + 1)  BY <1>1, <1>2, <1>3, <3>1, LiveHeld
    <3> QED BY <3>3, <3>4
  <2>2. CASE p.apid # "EVENT"
    <3>1. hkStore' = StorePut(hkStore, p, onboardTime) /\ evStore' = evStore /\ p.apid \in HkApid
      BY <2>2 DEF StoreTm, Events
    <3>2. Held(HkApid, hkStore', ground, n + 1)
      BY <1>1, <1>4, <3>1, PutHeld
    <3>3. Held(HkApid, hkStore', ground', n + 1)  BY <1>1, <1>2, <1>3, <3>2, LiveHeld
    <3>4. Held(Events, evStore', ground', n + 1)  BY <1>1, <1>2, <1>3, <3>1, LiveHeld
    <3> QED BY <3>3, <3>4
  <2> QED BY <2>1, <2>2
<1>7. Passes(ground', pass)
  <2>1. Passes(b, pass)  BY <1>1 DEF Passes
  <2> QED BY <1>1, <2>1, PassesGrow
<1>8. First(ground')
  <2>1. First(b)  BY DEF First
  <2>2. \A j \in 1 .. Len(ground), i \in 1 .. Len(b) :
            ~(ground[j].pass = b[i].pass /\ ground[j].pass # 0)
    OBVIOUS
  <2> QED BY <1>1, <2>1, <2>2, FirstGrows
<1>9. Listed(ground')  BY <1>1, Joined
<1> QED BY <1>1, <1>2, <1>5, <1>6, <1>7, <1>8, <1>9 DEF OInv, NothingHeldInContact

LEMMA ListedFn ==
    ASSUME NEW n \in Nat, NEW s, s = [i \in 1 .. n |-> s[i]]
    PROVE  Listed(s) /\ Len(s) = n
<1>1. s \in Seq({s[i] : i \in 1 .. n})
  OBVIOUS
<1> QED BY <1>1 DEF Listed

LEMMA Classes ==
    /\ "CMD" \notin Events \cup HkApid /\ "UNMAPPED" \notin Events \cup HkApid
    /\ \A p \in TmPacket : p \in Packet /\ p.apid \in TmApid
    /\ "EVENT" \notin HkApid /\ Events = {"EVENT"}
<1>1. \A p \in TmPacket : p \in Packet  BY ObdhAssumption
<1>2. \A p \in TmPacket : p.apid \in TmApid  BY ObdhAssumption DEF TmPacket
<1> QED BY <1>1, <1>2 DEF Events, HkApid

\* Telemetry p offered to the router, with command responses rs behind it.
LEMMA RouteKeeps ==
    ASSUME OInv, NEW p \in TmPacket, Offer(p),
           NEW rs, Listed(rs), \A i \in 1 .. Len(rs) : rs[i].apid = "CMD", RouteTm(p, rs),
           UNCHANGED <<inContact, onboardTime, pass>>
    PROVE  OInv'
<1> DEFINE q == IF inContact THEN pass ELSE 0
           live(s) == [i \in 1 .. Len(s) |-> [pkt |-> s[i], how |-> "LIVE", pass |-> q]]
<1>1. Len(offered) \in Nat /\ Listed(offered) /\ p.n = Len(offered) + 1  BY DEF OInv, Offer
<1>2. offered' = offered \o <<p>> /\ Listed(<<p>>) /\ Len(<<p>>) = 1
  <2>1. PICK S : offered \in Seq(S)  BY <1>1 DEF Listed
  <2>2. <<p>> \in Seq({p})  OBVIOUS
  <2>3. offered \in Seq(S \cup {p})  BY <2>1
  <2>4. Append(offered, p) = offered \o <<p>>  BY <2>3, AppendIsConcat
  <2> QED BY <2>2, <2>4 DEF Offer, Listed
<1>3. /\ Listed(offered') /\ Len(offered') = Len(offered) + 1
      /\ Len(offered') \in Nat /\ Len(offered') >= Len(offered)
  BY <1>1, <1>2, Joined
<1>4. ASSUME NEW s, Listed(s) PROVE Listed(live(s)) /\ Len(live(s)) = Len(s)
  <2>1. Len(s) \in Nat  BY <1>4 DEF Listed
  <2>2. live(s) = [i \in 1 .. Len(s) |-> live(s)[i]]  OBVIOUS
  <2> QED BY <2>1, <2>2, ListedFn
<1>5. ASSUME NEW s PROVE Live(s) = live(s)  BY DEF Live, Tag
<1>6. CASE Route(p.apid, inContact) = "DOWNLINK"
  <2> DEFINE s == <<p>> \o rs
             b == live(s)
  <2>1. /\ Listed(s) /\ Len(rs) \in Nat /\ Len(s) = 1 + Len(rs) /\ s[1] = p
        /\ \A i \in 1 .. Len(rs) : s[1 + i] = rs[i]
    BY <1>2, Joined
  <2>2. ground' = ground \o b /\ UNCHANGED <<hkStore, evStore>>
    BY <1>5, <1>6 DEF RouteTm, Deliver, EventThenReports, Route
  <2>3. Listed(b) /\ Len(b) = Len(s)  BY <1>4, <2>1
  <2> HIDE DEF s
  <2>4. \A i \in 1 .. Len(b) : b[i].pkt = s[i] /\ b[i].how = "LIVE" /\ b[i].pass = q
    BY <2>3
  <2>5. ASSUME NEW i \in 1 .. Len(b), b[i].pkt.apid \in Events \cup HkApid
        PROVE  inContact /\ i = 1 /\ b[i].pkt.n = Len(offered) + 1
    <3>1. i = 1 \/ i - 1 \in 1 .. Len(rs)  BY <2>1, <2>3
    <3>2. i = 1
      <4>1. ASSUME i - 1 \in 1 .. Len(rs) PROVE FALSE
        <5>1. s[1 + (i - 1)] = rs[i - 1] /\ 1 + (i - 1) = i  BY <2>1, <4>1
        <5>2. b[i].pkt.apid = "CMD"  BY <2>4, <4>1, <5>1
        <5> QED BY <2>5, <5>2, Classes
      <4> QED BY <3>1, <4>1
    <3>3. b[i].pkt = p  BY <2>1, <2>4, <3>2
    <3>4. inContact
      BY <1>6, <2>5, <3>3, Classes DEF Route
    <3> QED BY <1>1, <3>2, <3>3, <3>4
  <2> HIDE DEF b
  <2> QED BY <1>1, <1>3, <2>2, <2>3, <2>4, <2>5, LiveKeeps
<1>7. ASSUME Route(p.apid, inContact) # "DOWNLINK"
      PROVE  /\ ground' = ground \o live(rs) /\ Listed(live(rs))
             /\ \A i \in 1 .. Len(live(rs)) : /\ live(rs)[i].how = "LIVE" /\ live(rs)[i].pass = q
                                             /\ live(rs)[i].pkt.apid \notin Events \cup HkApid
  <2>1. Route(p.apid, inContact) \in {"STORE", "DROP"}  BY <1>7 DEF Route
  <2>2. ground' = ground \o live(rs)  BY <1>5, <2>1 DEF RouteTm, Deliver
  <2> QED BY <1>4, <2>2, Classes
<1>8. CASE Route(p.apid, inContact) = "STORE"
  <2>1. ~inContact /\ p.apid \in Events \cup HkApid  BY <1>8, Classes DEF Route
  <2>2. StoreTm(p)  BY <1>8 DEF RouteTm
  <2>3. q = 0  BY <2>1
  <2> DEFINE b == live(rs)
  <2>4. /\ Listed(b) /\ ground' = ground \o b
        /\ \A i \in 1 .. Len(b) : /\ b[i].how = "LIVE" /\ b[i].pass = 0
                                  /\ b[i].pkt.apid \notin Events \cup HkApid
    BY <1>7, <1>8, <2>3
  <2> HIDE DEF b
  <2> QED BY <1>1, <1>3, <2>1, <2>2, <2>4, Classes, StoreKeeps
<1>9. CASE Route(p.apid, inContact) = "DROP"
  <2>1. UNCHANGED <<hkStore, evStore>>  BY <1>9 DEF RouteTm, Route
  <2> DEFINE b == live(rs)
  <2>2. /\ Listed(b) /\ ground' = ground \o b
        /\ \A i \in 1 .. Len(b) : /\ b[i].how = "LIVE" /\ b[i].pass = q
                                  /\ b[i].pkt.apid \notin Events \cup HkApid
    BY <1>7, <1>9
  <2> HIDE DEF b
  <2> QED BY <1>1, <1>3, <2>1, <2>2, LiveKeeps
<1> QED BY <1>6, <1>8, <1>9 DEF Route

\* A backlog in front of a contact: events, then housekeeping, of a new pass.
LEMMA AcquireKeeps == ASSUME OInv, AcquireContact PROVE OInv'
<1> DEFINE n == Len(offered)
           q == pass + 1
           a == [i \in 1 .. evStore.count |-> [pkt |-> At(evStore, i).pkt, how |-> "STORED", pass |-> q]]
           b == [i \in 1 .. hkStore.count |-> [pkt |-> At(hkStore, i).pkt, how |-> "STORED", pass |-> q]]
           g == ground \o a
<1>1. /\ Listed(ground) /\ n \in Nat /\ Listed(offered) /\ pass \in Nat
      /\ onboardTime \in 0 .. MaxStamp
      /\ Held(Events, evStore, ground, n) /\ Held(HkApid, hkStore, ground, n)
      /\ Down(Events, ground, n) /\ Down(HkApid, ground, n)
      /\ Passes(ground, pass) /\ First(ground)
  BY DEF OInv
<1>2. /\ ground' = ground \o (a \o b) /\ inContact' = TRUE /\ pass' = q
      /\ evStore' = Drained(evStore) /\ hkStore' = Drained(hkStore)
      /\ UNCHANGED <<offered, onboardTime>>
  BY DEF AcquireContact, Deliver, Backlog, Forwarded, Tag
<1>3. /\ evStore \in Store /\ InStep(evStore) /\ evStore.count \in Nat
      /\ hkStore \in Store /\ InStep(hkStore) /\ hkStore.count \in Nat
  BY <1>1, StoreAssumption DEF Held, Store
<1>4. /\ Listed(a) /\ Len(a) = evStore.count /\ Listed(b) /\ Len(b) = hkStore.count
  <2>1. a = [i \in 1 .. evStore.count |-> a[i]] /\ b = [i \in 1 .. hkStore.count |-> b[i]]  OBVIOUS
  <2> HIDE DEF a, b
  <2> QED BY <1>3, <2>1, ListedFn
<1>5. \A i \in 1 .. Len(a) : /\ a[i].pkt = At(evStore, i).pkt /\ a[i].how = "STORED" /\ a[i].pass = q
                             /\ a[i].pkt.apid \in Events
  <2>1. \A i \in 1 .. evStore.count : At(evStore, i).pkt.apid \in Events  BY <1>1 DEF Held
  <2> QED BY <1>4, <2>1
<1>6. \A i \in 1 .. Len(b) : /\ b[i].pkt = At(hkStore, i).pkt /\ b[i].how = "STORED" /\ b[i].pass = q
                             /\ b[i].pkt.apid \in HkApid
  <2>1. \A i \in 1 .. hkStore.count : At(hkStore, i).pkt.apid \in HkApid  BY <1>1 DEF Held
  <2> QED BY <1>4, <2>1
<1> HIDE DEF a, b
<1>7. ground' = g \o b
  <2>1. Listed(ground) /\ Listed(a) /\ Listed(b)  BY <1>1, <1>4
  <2>2. PICK x, y, z : x = ground /\ y = a /\ z = b  OBVIOUS
  <2>3. Listed(x) /\ Listed(y) /\ Listed(z)  BY <2>1, <2>2
  <2>4. (x \o y) \o z = x \o (y \o z)  BY <2>3, Assoc
  <2> QED BY <1>2, <2>2, <2>4
<1> HIDE DEF n
<1>8. /\ Listed(g) /\ Len(a) \in Nat /\ Len(ground) \in Nat /\ Len(g) = Len(ground) + Len(a)
      /\ \A i \in 1 .. Len(ground) : g[i] = ground[i]
      /\ \A i \in 1 .. Len(a) : g[Len(ground) + i] = a[i]
  BY <1>1, <1>4, Joined
<1>9. Events \cap HkApid = {}  BY Classes
<1>10. Down(Events, ground', n)
  <2>1. Down(Events, g, n)  BY <1>1, <1>4, <1>5, ForwardDown
  <2>2. \A i \in 1 .. Len(b) : b[i].pkt.apid \notin Events  BY <1>6, <1>9
  <2>3. n >= n  BY <1>1
  <2> HIDE DEF g
  <2> QED BY <1>1, <1>4, <1>7, <1>8, <2>1, <2>2, <2>3, LiveDown
<1>11. Down(HkApid, ground', n)
  <2>1. \A i \in 1 .. Len(a) : a[i].pkt.apid \notin HkApid  BY <1>5, <1>9
  <2>2. n >= n  BY <1>1
  <2>3. Down(HkApid, g, n) /\ Held(HkApid, hkStore, g, n)
    BY <1>1, <1>4, <2>1, <2>2, LiveDown, LiveHeld
  <2> HIDE DEF g
  <2> QED BY <1>1, <1>4, <1>6, <1>7, <1>8, <2>3, ForwardDown
<1>12. Held(Events, evStore', ground', n) /\ Held(HkApid, hkStore', ground', n)
  BY <1>2, <1>3, DrainedStore, NoneHeld
<1>13. Passes(ground', pass')
  <2>1. q \in Nat /\ q >= pass /\ q >= q  BY <1>1
  <2>2. Passes(a, q) /\ Passes(b, q)  BY <1>5, <1>6, <2>1 DEF Passes
  <2> HIDE DEF q
  <2>3. Passes(g, q)  BY <1>1, <1>4, <2>1, <2>2, PassesGrow
  <2> HIDE DEF g
  <2> QED BY <1>2, <1>4, <1>7, <1>8, <2>1, <2>2, <2>3, PassesGrow
<1>14. First(ground')
  <2>1. \A i \in 1 .. Len(a) : Precedence(a[i]) = 1  BY <1>5, Ranks DEF Events
  <2>2. \A i \in 1 .. Len(b) : Precedence(b[i]) = 2
    <3>1. \A i \in 1 .. Len(b) : b[i].pkt.apid # "EVENT"  BY <1>6, Classes
    <3> QED BY <1>6, <3>1, Ranks
  <2>3. First(a) /\ First(b)  BY <2>1, <2>2 DEF First
  <2>4. \A j \in 1 .. Len(ground) : ground[j].pass # q
    <3> SUFFICES ASSUME NEW j \in 1 .. Len(ground) PROVE ground[j].pass # q  OBVIOUS
    <3>1. ground[j].pass \in 0 .. pass  BY <1>1 DEF Passes
    <3> QED BY <1>1, <3>1
  <2>5. First(g)
    <3>1. \A j \in 1 .. Len(ground), i \in 1 .. Len(a) : ground[j].pass # a[i].pass
      BY <1>5, <2>4
    <3> HIDE DEF g
    <3> QED BY <1>1, <1>4, <2>3, <3>1, FirstGrows DEF g
  <2>6. ASSUME NEW j \in 1 .. Len(g), NEW i \in 1 .. Len(b), g[j].pass = b[i].pass
        PROVE  Precedence(g[j]) <= Precedence(b[i])
    <3>1. CASE j \in 1 .. Len(ground)
      <4>1. g[j] = ground[j] /\ b[i].pass = q  BY <1>6, <1>8, <3>1
      <4> QED BY <2>4, <2>6, <3>1, <4>1
    <3>2. CASE \E l \in 1 .. Len(a) : j = Len(ground) + l
      <4>1. PICK l \in 1 .. Len(a) : j = Len(ground) + l  BY <3>2
      <4>2. Precedence(g[j]) = 1 /\ Precedence(b[i]) = 2  BY <1>8, <2>1, <2>2, <4>1
      <4> QED BY <4>2
    <3> QED BY <1>8, <3>1, <3>2, Split
  <2> HIDE DEF g
  <2> QED BY <1>4, <1>7, <1>8, <2>3, <2>5, <2>6, FirstGrows
<1>15. evStore'.count = 0 /\ hkStore'.count = 0  BY <1>2, <1>3, DrainedStore
<1>16. Listed(ground')
  <2> HIDE DEF g
  <2> QED BY <1>4, <1>7, <1>8, Joined
<1>17. Len(offered') = n /\ pass' \in Nat  BY <1>1, <1>2 DEF n
<1> QED BY <1>1, <1>2, <1>10, <1>11, <1>12, <1>13, <1>14, <1>15, <1>16, <1>17
     DEF OInv, NothingHeldInContact

-----------------------------------------------------------------------------
(* The steps *)

LEMMA Reports ==
    ASSUME NEW tc, NEW hook, HandleTc(tc, hook) PROVE Len(out') \in Nat
<1>1. Listed(<<>>)
  <2>1. <<>> \in Seq({0})  OBVIOUS
  <2> QED BY <2>1 DEF Listed
<1>2. \A kind, code : Listed(Rep(kind, code))
  <2> SUFFICES ASSUME NEW kind, NEW code PROVE Listed(Rep(kind, code))  OBVIOUS
  <2>1. PICK r : r = [kind |-> kind, code |-> code]  OBVIOUS
  <2>2. <<r>> \in Seq({r})  OBVIOUS
  <2> QED BY <2>1, <2>2 DEF Listed, Rep
<1>3. \A stage, kind : Listed(IfAsked(tc, stage, kind))  BY <1>1, <1>2 DEF IfAsked
<1>4. Listed(Begun(tc))  BY <1>3, Joined DEF Begun
<1>5. \A failed : Listed(Completion(tc, failed))  BY <1>2, <1>3 DEF Completion
<1>6. ASSUME NEW rs, Listed(rs), Send(rs) PROVE Len(out') \in Nat
  <2>1. Len(rs) \in Nat  BY <1>6 DEF Listed
  <2>2. PICK kept \in Nat : kept = IF Len(rs) > MaxTmPerTc THEN MaxTmPerTc ELSE Len(rs)
    BY <2>1, CommandPathAssumption
  <2>3. out' = [i \in 1 .. kept |-> [kind |-> rs[i].kind, code |-> rs[i].code,
                                     seq |-> (tmSeq + i - 1) % TmSeqMod]]
    BY <1>6, <2>2 DEF Send
  <2>4. PICK o : o = out'  OBVIOUS
  <2>5. o = [i \in 1 .. kept |-> o[i]]  BY <2>3, <2>4
  <2> QED BY <2>2, <2>4, <2>5, ListedFn
<1>7. CASE Unnameable(tc)  BY <1>1, <1>6, <1>7 DEF Unnameable
<1>8. CASE Malformed(tc)  BY <1>2, <1>6, <1>8 DEF Malformed
<1>9. CASE NotACommand(tc)  BY <1>2, <1>6, <1>9 DEF NotACommand
<1>10. CASE ConnectionTest(tc)
  <2>1. Listed(Begun(tc) \o Rep("CONN_TEST", "NONE"))  BY <1>2, <1>4, Joined
  <2>2. Listed(Begun(tc) \o Rep("CONN_TEST", "NONE")
                         \o Completion(tc, Len(Begun(tc)) >= MaxTmPerTc))
    BY <1>5, <2>1, Joined
  <2> QED BY <1>6, <1>10, <2>2 DEF ConnectionTest
<1>11. CASE ExitSafeMode(tc, hook)
  <2>1. Listed(Begun(tc) \o Completion(tc, hook # "EXITED"))  BY <1>4, <1>5, Joined
  <2> QED BY <1>6, <1>11, <2>1 DEF ExitSafeMode
<1> QED BY <1>7, <1>8, <1>9, <1>10, <1>11 DEF HandleTc

LEMMA IngestTcKeeps ==
    ASSUME OInv, NEW tc \in Sent, NEW hook \in Hook, IngestTc(tc, hook) PROVE OInv'
<1>1. Len(out') \in Nat  BY Reports DEF IngestTc
<1>2. PICK rs : rs = Responses(tc)  OBVIOUS
<1>3. Listed(rs) /\ Len(rs) = Len(out') /\ \A i \in 1 .. Len(rs) : rs[i].apid = "CMD"
  <2>1. PICK n \in Nat : n = Len(out')  BY <1>1
  <2>2. rs = [i \in 1 .. n |-> [apid |-> "CMD", n |-> 0, kind |-> out'[i].kind, cmd |-> tc.cmd]]
    BY <1>2, <2>1 DEF Responses
  <2>3. rs = [i \in 1 .. n |-> rs[i]]  BY <2>2
  <2> QED BY <2>1, <2>2, <2>3, ListedFn
<1>4. UNCHANGED <<inContact, onboardTime, pass>>  BY DEF IngestTc
<1>5. CASE exits' = exits
  <2>1. PICK b : b = Live(rs)  OBVIOUS
  <2>2. ground' = ground \o b /\ UNCHANGED <<hkStore, evStore, offered>>
    BY <1>2, <1>5, <2>1 DEF IngestTc, Deliver
  <2>3. b = [i \in 1 .. Len(rs) |-> [pkt |-> rs[i], how |-> "LIVE",
                                     pass |-> IF inContact THEN pass ELSE 0]]
    BY <1>4, <2>1 DEF Live, Tag
  <2>4. Len(rs) \in Nat /\ b = [i \in 1 .. Len(rs) |-> b[i]]  BY <1>1, <1>3, <2>3
  <2>5. Listed(b) /\ Len(b) = Len(rs)  BY <2>4, ListedFn
  <2>6. \A i \in 1 .. Len(b) : /\ b[i].how = "LIVE" /\ b[i].pass = IF inContact THEN pass ELSE 0
                               /\ b[i].pkt.apid \notin Events \cup HkApid
    BY <1>3, <2>3, <2>5, Classes
  <2>7. Len(offered) \in Nat /\ Listed(offered) /\ Len(offered) >= Len(offered)  BY DEF OInv
  <2> QED BY <1>4, <2>2, <2>5, <2>6, <2>7, LiveKeeps
<1>6. CASE exits' # exits
  <2>1. PICK p \in TmPacket : Offer(p) /\ RouteTm(p, rs)  BY <1>2, <1>6 DEF IngestTc
  <2> QED BY <1>3, <1>4, <2>1, RouteKeeps
<1> QED BY <1>5, <1>6

LEMMA IngestTmKeeps == ASSUME OInv, NEW p \in TmPacket, IngestTm(p) PROVE OInv'
<1>1. <<>> \in Seq({0}) /\ Len(<<>>) = 0  OBVIOUS
<1>2. Listed(<<>>) /\ \A i \in 1 .. Len(<<>>) : (<<>>)[i].apid = "CMD"  BY <1>1 DEF Listed
<1>3. Offer(p) /\ RouteTm(p, <<>>) /\ UNCHANGED <<inContact, onboardTime, pass>>  BY DEF IngestTm
<1> QED BY <1>2, <1>3, RouteKeeps

LEMMA ObdhStart == ASSUME NEW c \in BOOLEAN, ObdhInit(c) PROVE OInv
<1>1. StoreInit \in Store /\ InStep(StoreInit) /\ StoreInit.count = 0  BY EmptyStore
<1>2. <<>> \in Seq({0}) /\ Len(<<>>) = 0  OBVIOUS
<1>3. ground = <<>> /\ offered = <<>> /\ Listed(<<>>)  BY <1>2 DEF ObdhInit, Listed
<1>4. Held(Events, evStore, ground, Len(offered)) /\ Held(HkApid, hkStore, ground, Len(offered))
  BY <1>1, NoneHeld DEF ObdhInit
<1>5. /\ Down(Events, ground, Len(offered)) /\ Down(HkApid, ground, Len(offered))
      /\ Passes(ground, pass) /\ First(ground)
  BY <1>2, <1>3 DEF Down, Of, Passes, First
<1>6. onboardTime \in 0 .. MaxStamp /\ inContact \in BOOLEAN /\ pass \in Nat
  BY StoreAssumption DEF ObdhInit
<1>7. NothingHeldInContact  BY <1>1 DEF ObdhInit, NothingHeldInContact
<1> QED BY <1>2, <1>3, <1>4, <1>5, <1>6, <1>7 DEF OInv

LEMMA ObdhKept == ASSUME OInv, [ObdhNext]_obdhVars PROVE OInv'
<1>1. CASE ObdhTick
  <2>1. onboardTime' \in 0 .. MaxStamp  BY <1>1, StoreAssumption DEF ObdhTick, OInv
  <2> QED BY <1>1, <2>1 DEF ObdhTick, OInv, NothingHeldInContact
<1>2. CASE AcquireContact  BY <1>2, AcquireKeeps
<1>3. CASE LoseContact
  BY <1>3 DEF LoseContact, OInv, NothingHeldInContact
<1>4. CASE \E p \in TmPacket : IngestTm(p)  BY <1>4, IngestTmKeeps
<1>5. CASE IngestMalformed
  BY <1>5 DEF IngestMalformed, OInv, NothingHeldInContact
<1>6. CASE \E tc \in Sent : IngestShortTc(tc)
  BY <1>6 DEF IngestShortTc, IngestMalformed, OInv, NothingHeldInContact
<1>7. CASE \E tc \in Sent : \E hook \in Hook : IngestTc(tc, hook)  BY <1>7, IngestTcKeeps
<1>8. CASE ObdhBuildHk
  BY <1>8 DEF ObdhBuildHk, OInv, NothingHeldInContact
<1>9. CASE UNCHANGED obdhVars
  BY <1>9 DEF obdhVars, OInv, NothingHeldInContact
<1> QED BY <1>1, <1>2, <1>3, <1>4, <1>5, <1>6, <1>7, <1>8, <1>9 DEF ObdhNext

LEMMA ObdhInvariant == ObdhSpec => []OInv
<1>1. (\E c \in BOOLEAN : ObdhInit(c)) => OInv  BY ObdhStart
<1>2. OInv /\ [ObdhNext]_obdhVars => OInv'  BY ObdhKept
<1> QED BY <1>1, <1>2, PTL DEF ObdhSpec

-----------------------------------------------------------------------------
(* Counting: what was offered is on the ground, held or counted as lost *)

Offs(c, o) == {i \in 1 .. Len(o) : o[i].apid \in c}
Kept(g)    == {k \in 1 .. Len(g) : g[k].how = "STORED"}
One(p, c)  == IF p.apid \in c THEN 1 ELSE 0

\* The members of Z up to m are those of X, those beyond are Y shifted by m.
Parts(m, n, X, Y, Z) ==
    /\ m \in Nat /\ n \in Nat
    /\ X \in SUBSET (1 .. m) /\ Y \in SUBSET (1 .. n) /\ Z \in SUBSET (1 .. m + n)
    /\ \A i \in 1 .. m : i \in Z <=> i \in X
    /\ \A i \in 1 .. n : m + i \in Z <=> i \in Y

LEMMA Tally ==
    ASSUME NEW m, NEW n, NEW X, NEW Y, NEW Z, Parts(m, n, X, Y, Z)
    PROVE  /\ Cardinality(X) \in Nat /\ Cardinality(Y) \in Nat
           /\ Cardinality(Z) = Cardinality(X) + Cardinality(Y)
<1> DEFINE T == {m + i : i \in Y}
           f == [i \in Y |-> m + i]
<1> USE DEF Parts
<1>1. IsFiniteSet(X) /\ IsFiniteSet(Y)
  <2>1. IsFiniteSet(1 .. m) /\ IsFiniteSet(1 .. n)  BY FS_Interval
  <2> QED BY <2>1, FS_Subset
<1>2. f \in Bijection(Y, T)
  <2>1. f \in [Y -> T] /\ \A x, y \in Y : f[x] = f[y] => x = y  OBVIOUS
  <2>2. \A t \in T : \E i \in Y : f[i] = t  OBVIOUS
  <2> QED BY <2>1, <2>2 DEF Bijection, Injection, Surjection, IsInjective
<1>3. IsFiniteSet(T) /\ Cardinality(T) = Cardinality(Y)
  BY <1>1, <1>2, FS_Bijection DEF ExistsBijection
<1>4. X \cap T = {}  OBVIOUS
<1>5. Z = X \cup T
  <2>1. \A z \in Z : z \in X \cup T
    <3> SUFFICES ASSUME NEW z \in Z PROVE z \in X \cup T  OBVIOUS
    <3>1. z \in 1 .. m \/ \E i \in 1 .. n : z = m + i  BY Split
    <3> QED BY <3>1
  <2>2. X \subseteq Z /\ T \subseteq Z  OBVIOUS
  <2> QED BY <2>1, <2>2
<1>6. Cardinality(X) \in Nat /\ Cardinality(Y) \in Nat  BY <1>1, FS_CardinalityType
<1>7. Cardinality(X \cap T) = 0  BY <1>4, FS_EmptySet
<1> HIDE DEF T
<1>8. Cardinality(X \cup T) = Cardinality(X) + Cardinality(T) - Cardinality(X \cap T)
  BY <1>1, <1>3, FS_Union
<1> QED BY <1>3, <1>5, <1>6, <1>7, <1>8

LEMMA GroundTally ==
    ASSUME NEW a, NEW b, Listed(a), Listed(b)
    PROVE  /\ \A c : /\ Cardinality(Of(c, a)) \in Nat /\ Cardinality(Of(c, b)) \in Nat
                     /\ Cardinality(Of(c, a \o b)) = Cardinality(Of(c, a)) + Cardinality(Of(c, b))
           /\ Cardinality(Kept(a)) \in Nat /\ Cardinality(Kept(b)) \in Nat
           /\ Cardinality(Kept(a \o b)) = Cardinality(Kept(a)) + Cardinality(Kept(b))
<1> DEFINE h == a \o b
<1>1. /\ Len(a) \in Nat /\ Len(b) \in Nat /\ Len(h) = Len(a) + Len(b)
      /\ \A i \in 1 .. Len(a) : h[i] = a[i] /\ i \in 1 .. Len(a) + Len(b)
      /\ \A i \in 1 .. Len(b) : h[Len(a) + i] = b[i] /\ Len(a) + i \in 1 .. Len(a) + Len(b)
  BY Joined
<1> HIDE DEF h
<1>2. ASSUME NEW c
      PROVE  /\ Cardinality(Of(c, a)) \in Nat /\ Cardinality(Of(c, b)) \in Nat
             /\ Cardinality(Of(c, h)) = Cardinality(Of(c, a)) + Cardinality(Of(c, b))
  <2>1. /\ Of(c, a) \in SUBSET (1 .. Len(a)) /\ Of(c, b) \in SUBSET (1 .. Len(b))
        /\ Of(c, h) \in SUBSET (1 .. Len(a) + Len(b))
        /\ \A i \in 1 .. Len(a) : i \in Of(c, h) <=> i \in Of(c, a)
        /\ \A i \in 1 .. Len(b) : Len(a) + i \in Of(c, h) <=> i \in Of(c, b)
    BY <1>1 DEF Of
  <2>2. PICK m, n, X, Y, Z : m = Len(a) /\ n = Len(b) /\ X = Of(c, a) /\ Y = Of(c, b) /\ Z = Of(c, h)
    OBVIOUS
  <2>3. Parts(m, n, X, Y, Z)
    BY <1>1, <2>1, <2>2 DEF Parts
  <2>4. Cardinality(X) \in Nat /\ Cardinality(Y) \in Nat /\ Cardinality(Z) = Cardinality(X) + Cardinality(Y)
    BY <2>3, Tally
  <2> QED BY <2>2, <2>4
<1>3. /\ Kept(a) \in SUBSET (1 .. Len(a)) /\ Kept(b) \in SUBSET (1 .. Len(b))
      /\ Kept(h) \in SUBSET (1 .. Len(a) + Len(b))
      /\ \A i \in 1 .. Len(a) : i \in Kept(h) <=> i \in Kept(a)
      /\ \A i \in 1 .. Len(b) : Len(a) + i \in Kept(h) <=> i \in Kept(b)
  BY <1>1 DEF Kept
<1>4. /\ Cardinality(Kept(a)) \in Nat /\ Cardinality(Kept(b)) \in Nat
      /\ Cardinality(Kept(h)) = Cardinality(Kept(a)) + Cardinality(Kept(b))
  <2>1. PICK m, n, X, Y, Z : m = Len(a) /\ n = Len(b) /\ X = Kept(a) /\ Y = Kept(b) /\ Z = Kept(h)
    OBVIOUS
  <2>2. Parts(m, n, X, Y, Z)
    BY <1>1, <1>3, <2>1 DEF Parts
  <2>3. Cardinality(X) \in Nat /\ Cardinality(Y) \in Nat /\ Cardinality(Z) = Cardinality(X) + Cardinality(Y)
    BY <2>2, Tally
  <2> QED BY <2>1, <2>3
<1> QED BY <1>2, <1>4 DEF h

LEMMA Singles == Cardinality({}) = 0 /\ Cardinality({1}) = 1
<1>1. IsFiniteSet({}) /\ Cardinality({}) = 0  BY FS_EmptySet
<1>2. Cardinality({} \cup {1}) = 0 + 1  BY <1>1, FS_AddElement
<1>3. {} \cup {1} = {1}  OBVIOUS
<1> QED BY <1>1, <1>2, <1>3

\* One packet more is offered.
LEMMA OfferTally ==
    ASSUME NEW o, Listed(o), NEW p, NEW c
    PROVE  /\ Cardinality(Offs(c, o)) \in Nat
           /\ Cardinality(Offs(c, o \o <<p>>)) = Cardinality(Offs(c, o)) + One(p, c)
<1>1. PICK q : q = <<p>>  OBVIOUS
<1>2. Listed(q) /\ Len(q) = 1 /\ q[1] = p
  <2>1. <<p>> \in Seq({p})  OBVIOUS
  <2> QED BY <1>1, <2>1 DEF Listed
<1>3. PICK h : h = o \o q  OBVIOUS
<1>4. /\ Len(o) \in Nat /\ Len(h) = Len(o) + 1
      /\ \A i \in 1 .. Len(o) : h[i] = o[i]
      /\ \A i \in 1 .. 1 : h[Len(o) + i] = p
  <2>1. /\ Len(o) \in Nat /\ Len(h) = Len(o) + Len(q)
        /\ \A i \in 1 .. Len(o) : h[i] = o[i]
        /\ \A i \in 1 .. Len(q) : h[Len(o) + i] = q[i]
    <3>1. PICK a : a = o  OBVIOUS
    <3>2. Listed(a) /\ Listed(q) /\ h = a \o q  BY <1>2, <1>3, <3>1
    <3> QED BY <3>1, <3>2, Joined
  <2> QED BY <1>2, <2>1
<1>5. /\ Offs(c, o) \in SUBSET (1 .. Len(o)) /\ Offs(c, q) \in SUBSET (1 .. 1)
      /\ Offs(c, h) \in SUBSET (1 .. Len(o) + 1)
      /\ \A i \in 1 .. Len(o) : i \in Offs(c, h) <=> i \in Offs(c, o)
      /\ \A i \in 1 .. 1 : Len(o) + i \in Offs(c, h) <=> i \in Offs(c, q)
  BY <1>2, <1>4 DEF Offs
<1>6. /\ Cardinality(Offs(c, o)) \in Nat
      /\ Cardinality(Offs(c, h)) = Cardinality(Offs(c, o)) + Cardinality(Offs(c, q))
  <2>1. PICK m, n, X, Y, Z : m = Len(o) /\ n = 1 /\ X = Offs(c, o) /\ Y = Offs(c, q) /\ Z = Offs(c, h)
    OBVIOUS
  <2>2. Parts(m, n, X, Y, Z)
    BY <1>4, <1>5, <2>1 DEF Parts
  <2>3. Cardinality(X) \in Nat /\ Cardinality(Y) \in Nat /\ Cardinality(Z) = Cardinality(X) + Cardinality(Y)
    BY <2>2, Tally
  <2> QED BY <2>1, <2>3
<1>7. Offs(c, q) = IF p.apid \in c THEN {1} ELSE {}  BY <1>2 DEF Offs
<1> QED BY <1>1, <1>3, <1>6, <1>7, Singles DEF One

\* Items of which none is of class c, or at most the first.
LEMMA NoneOf ==
    ASSUME NEW b, NEW c, \A i \in 1 .. Len(b) : b[i].pkt.apid \notin c
    PROVE  Cardinality(Of(c, b)) = 0
<1>1. Of(c, b) = {}  BY DEF Of
<1> QED BY <1>1, Singles

LEMMA FirstOf ==
    ASSUME NEW b, NEW c, Len(b) \in Nat, Len(b) >= 1,
           \A i \in 1 .. Len(b) : i # 1 => b[i].pkt.apid \notin c
    PROVE  Cardinality(Of(c, b)) = One(b[1].pkt, c)
<1>1. 1 \in 1 .. Len(b)  OBVIOUS
<1>2. Of(c, b) = IF b[1].pkt.apid \in c THEN {1} ELSE {}  BY <1>1 DEF Of
<1> QED BY <1>2, Singles DEF One

LEMMA AllOf ==
    ASSUME NEW b, NEW c, Listed(b), \A i \in 1 .. Len(b) : b[i].pkt.apid \in c /\ b[i].how = "STORED"
    PROVE  Cardinality(Of(c, b)) = Len(b) /\ Cardinality(Kept(b)) = Len(b)
<1>1. Len(b) \in Nat  BY DEF Listed
<1>2. Of(c, b) = 1 .. Len(b) /\ Kept(b) = 1 .. Len(b)  BY DEF Of, Kept
<1>3. PICK n \in Nat : n = Len(b)  BY <1>1
<1>4. 0 < n => Cardinality(1 .. n) = n  BY FS_Interval
<1>5. n = 0 => Cardinality(1 .. n) = n
  <2>1. n = 0 => 1 .. n = {}  OBVIOUS
  <2> QED BY <2>1, Singles
<1> QED BY <1>2, <1>3, <1>4, <1>5

LEMMA NoneKept ==
    ASSUME NEW b, \A i \in 1 .. Len(b) : b[i].how = "LIVE" PROVE Cardinality(Kept(b)) = 0
<1>1. Kept(b) = {}  BY DEF Kept
<1> QED BY <1>1, Singles

\* A packet put into a store is held in it or counted in it, or in place of another.
LEMMA PutTally ==
    ASSUME NEW s \in Store, NEW p \in Packet, Size[p] >= 1, NEW t
    PROVE  LET w == StorePut(s, p, t) IN w.count + w.dropped = s.count + s.dropped + 1
<1>1. /\ s.count \in Nat /\ s.dropped \in Nat /\ Size[p] \in Nat /\ MaxPkt \in Nat
  BY StoreAssumption DEF Store
<1>2. CASE Fits(p) /\ Full(s)
  BY <1>1, <1>2 DEF StorePut, Write, MakeRoom
<1>3. CASE Fits(p) /\ ~Full(s)
  BY <1>1, <1>3 DEF StorePut, Write, MakeRoom
<1>4. CASE ~Fits(p)
  <2>1. TooBig(p)  BY <1>1, <1>4 DEF Fits, TooBig
  <2>2. StorePut(s, p, t) = [s EXCEPT !.dropped = @ + 1]  BY <1>4, <2>1 DEF StorePut
  <2>3. StorePut(s, p, t).count = s.count /\ StorePut(s, p, t).dropped = s.dropped + 1
    BY <2>2 DEF Store
  <2> QED BY <1>1, <2>3
<1> QED BY <1>2, <1>3, <1>4

\* LossVisible, with the packets counted in the sequences.
Counted ==
    /\ Cardinality(Offs(Events, offered)) =
           Cardinality(Of(Events, ground)) + evStore.count + evStore.dropped
    /\ Cardinality(Offs(HkApid, offered)) =
           Cardinality(Of(HkApid, ground)) + hkStore.count + hkStore.dropped
    /\ Cardinality(Offs({"UNMAPPED"}, offered)) = nUnknown
    /\ nDownlinked = Len(ground)
    /\ nStored = Cardinality(Kept(ground))
                   + hkStore.count + hkStore.dropped + evStore.count + evStore.dropped

\* Numbers for the counters, and the sequences they count.
LEMMA CountTypes ==
    ASSUME OInv
    PROVE  /\ evStore \in Store /\ hkStore \in Store
           /\ evStore.count \in Nat /\ evStore.dropped \in Nat
           /\ hkStore.count \in Nat /\ hkStore.dropped \in Nat
           /\ Listed(ground) /\ Listed(offered) /\ Len(ground) \in Nat
           /\ \A c : Cardinality(Of(c, ground)) \in Nat /\ Cardinality(Offs(c, offered)) \in Nat
           /\ Cardinality(Kept(ground)) \in Nat
<1>1. evStore \in Store /\ hkStore \in Store /\ Listed(ground) /\ Listed(offered)
  BY DEF OInv, Held
<1>2. PICK g : g = ground  OBVIOUS
<1>3. PICK o : o = offered  OBVIOUS
<1>4. /\ \A c : Cardinality(Of(c, g)) \in Nat
      /\ Cardinality(Kept(g)) \in Nat
  BY <1>1, <1>2, GroundTally
<1>5. \A c : Cardinality(Offs(c, o)) \in Nat  BY <1>1, <1>3, OfferTally
<1>6. Len(ground) \in Nat  BY <1>1 DEF Listed
<1> QED BY <1>1, <1>2, <1>3, <1>4, <1>5, <1>6, StoreAssumption DEF Store

\* What RouteTm sends down (b), and what it does with p.
Passed(b, p) ==
    /\ Listed(b) /\ ground' = ground \o b /\ nDownlinked' = nDownlinked + Len(b)
    /\ \A i \in 1 .. Len(b) : b[i].how = "LIVE"
    /\ \/ /\ Len(b) >= 1 /\ b[1].pkt = p
          /\ \A i \in 1 .. Len(b) : i # 1 => b[i].pkt.apid = "CMD"
          /\ p.apid # "UNMAPPED"
          /\ UNCHANGED <<hkStore, evStore, nStored, nUnknown>>
       \/ /\ \A i \in 1 .. Len(b) : b[i].pkt.apid = "CMD"
          /\ p.apid \in Events \cup HkApid
          /\ StoreTm(p) /\ UNCHANGED nUnknown
       \/ /\ \A i \in 1 .. Len(b) : b[i].pkt.apid = "CMD"
          /\ p.apid = "UNMAPPED" /\ nUnknown' = nUnknown + 1
          /\ UNCHANGED <<hkStore, evStore, nStored>>

LEMMA Routed ==
    ASSUME OInv, NEW p \in TmPacket, NEW rs, Listed(rs),
           \A i \in 1 .. Len(rs) : rs[i].apid = "CMD", RouteTm(p, rs), UNCHANGED <<inContact, pass>>
    PROVE  \E b : Passed(b, p)
<1> DEFINE q == IF inContact THEN pass ELSE 0
           live(s) == [i \in 1 .. Len(s) |-> [pkt |-> s[i], how |-> "LIVE", pass |-> q]]
<1>1. ASSUME NEW s PROVE Live(s) = live(s)  BY DEF Live, Tag
<1>2. ASSUME NEW s, Listed(s) PROVE Listed(live(s)) /\ Len(live(s)) = Len(s)
  <2>1. Len(s) \in Nat  BY <1>2 DEF Listed
  <2>2. live(s) = [i \in 1 .. Len(s) |-> live(s)[i]]  OBVIOUS
  <2> QED BY <2>1, <2>2, ListedFn
<1>3. ASSUME NEW s, Listed(s)
      PROVE  \A i \in 1 .. Len(live(s)) : live(s)[i].pkt = s[i] /\ live(s)[i].how = "LIVE"
  BY <1>2, <1>3
<1>4. CASE Route(p.apid, inContact) = "DOWNLINK"
  <2>1. Listed(<<p>>) /\ Len(<<p>>) = 1
    <3>1. <<p>> \in Seq({p})  OBVIOUS
    <3> QED BY <3>1 DEF Listed
  <2>2. PICK s : s = <<p>> \o rs  OBVIOUS
  <2>3. /\ Listed(s) /\ Len(rs) \in Nat /\ Len(s) = 1 + Len(rs) /\ s[1] = p
        /\ \A i \in 1 .. Len(rs) : s[1 + i] = rs[i]
    BY <2>1, <2>2, Joined
  <2>4. PICK b : b = live(s)  OBVIOUS
  <2>5. /\ ground' = ground \o b /\ nDownlinked' = nDownlinked + Len(b)
        /\ UNCHANGED <<hkStore, evStore, nStored, nUnknown>>
    BY <1>1, <1>4, <2>2, <2>4 DEF RouteTm, Deliver, EventThenReports, Route
  <2>6. /\ Listed(b) /\ Len(b) = Len(s)
        /\ \A i \in 1 .. Len(b) : b[i].pkt = s[i] /\ b[i].how = "LIVE"
    BY <1>2, <1>3, <2>3, <2>4
  <2>7. ASSUME NEW i \in 1 .. Len(b), i # 1 PROVE b[i].pkt.apid = "CMD"
    <3>1. i - 1 \in 1 .. Len(rs) /\ 1 + (i - 1) = i  BY <2>3, <2>6, <2>7
    <3>2. s[1 + (i - 1)] = rs[i - 1]  BY <2>3, <3>1
    <3> QED BY <2>6, <3>1, <3>2
  <2>8. p.apid # "UNMAPPED"  BY <1>4, Classes DEF Route
  <2>9. Len(b) >= 1 /\ b[1].pkt = p  BY <2>3, <2>6
  <2>10. /\ Listed(b) /\ ground' = ground \o b /\ nDownlinked' = nDownlinked + Len(b)
         /\ \A i \in 1 .. Len(b) : b[i].how = "LIVE"
         /\ Len(b) >= 1 /\ b[1].pkt = p
         /\ \A i \in 1 .. Len(b) : i # 1 => b[i].pkt.apid = "CMD"
         /\ p.apid # "UNMAPPED"
         /\ UNCHANGED <<hkStore, evStore, nStored, nUnknown>>
    BY <2>5, <2>6, <2>7, <2>8, <2>9
  <2>11. Passed(b, p)  BY <2>10 DEF Passed
  <2> QED BY <2>11
<1>5. ASSUME Route(p.apid, inContact) # "DOWNLINK"
      PROVE  /\ ground' = ground \o live(rs) /\ nDownlinked' = nDownlinked + Len(live(rs))
             /\ Listed(live(rs))
             /\ \A i \in 1 .. Len(live(rs)) : /\ live(rs)[i].how = "LIVE"
                                             /\ live(rs)[i].pkt.apid = "CMD"
  <2>1. Route(p.apid, inContact) \in {"STORE", "DROP"}  BY <1>5 DEF Route
  <2>2. Deliver(live(rs))  BY <1>1, <2>1 DEF RouteTm
  <2> QED BY <1>2, <1>3, <2>2 DEF Deliver
<1> HIDE DEF live
<1>6. CASE Route(p.apid, inContact) = "STORE"
  <2>1. p.apid \in Events \cup HkApid  BY <1>6, Classes DEF Route
  <2>2. StoreTm(p) /\ UNCHANGED nUnknown  BY <1>6 DEF RouteTm
  <2>3. Passed(live(rs), p)  BY <1>5, <1>6, <2>1, <2>2 DEF Passed
  <2> QED BY <2>3
<1>7. CASE Route(p.apid, inContact) = "DROP"
  <2>1. p.apid = "UNMAPPED"  BY <1>7, Classes DEF Route, TmApid, Events
  <2>2. nUnknown' = nUnknown + 1 /\ UNCHANGED <<hkStore, evStore, nStored>>
    BY <1>7 DEF RouteTm
  <2>3. Passed(live(rs), p)  BY <1>5, <1>7, <2>1, <2>2 DEF Passed
  <2> QED BY <2>3
<1> QED BY <1>4, <1>6, <1>7 DEF Route

\* Nothing more and one more, as sums.
LEMMA Sums ==
    ASSUME NEW m \in Nat, NEW n \in Nat
    PROVE  /\ m + 0 = m /\ m + n + 0 = m + n
           /\ m + 0 + 0 = m /\ m + 1 + 0 = m + 1 /\ m + 0 + 1 = m + 1
  OBVIOUS

LEMMA Balance ==
    ASSUME NEW g \in Nat, NEW n \in Nat, NEW d \in Nat, NEW o \in Nat, NEW n1 \in Nat,
           NEW d1 \in Nat, NEW f \in Nat, NEW m \in Nat, NEW c \in Nat, NEW q \in Nat,
           NEW m1 \in Nat, NEW c1 \in Nat, NEW k \in Nat, NEW e \in Nat, NEW h \in Nat,
           n1 + d1 = n + d + e, m1 + c1 = m + c + h
    PROVE  /\ (g + n + d) + (o + e) = (g + o) + n1 + d1
           /\ (f + m + c) + (q + h) = (f + q) + m1 + c1
           /\ (k + m + c + n + d) + e + h = k + m1 + c1 + n1 + d1
OBVIOUS

LEMMA RouteCounts ==
    ASSUME OInv, Counted, NEW p \in TmPacket, Offer(p), NEW rs, Listed(rs),
           \A i \in 1 .. Len(rs) : rs[i].apid = "CMD", RouteTm(p, rs), UNCHANGED <<inContact, pass>>
    PROVE  Counted'
<1>1. PICK b : Passed(b, p)  BY Routed
<1> USE DEF Passed
<1>2. /\ evStore \in Store /\ hkStore \in Store
      /\ evStore.count \in Nat /\ evStore.dropped \in Nat
      /\ hkStore.count \in Nat /\ hkStore.dropped \in Nat
      /\ Listed(ground) /\ Listed(offered) /\ Len(ground) \in Nat
      /\ \A c : Cardinality(Of(c, ground)) \in Nat /\ Cardinality(Offs(c, offered)) \in Nat
      /\ Cardinality(Kept(ground)) \in Nat
  BY CountTypes
<1>3. ASSUME NEW c
      PROVE  Cardinality(Offs(c, offered')) = Cardinality(Offs(c, offered)) + One(p, c)
  <2>1. PICK S : offered \in Seq(S)  BY <1>2 DEF Listed
  <2>2. offered \in Seq(S \cup {p})  BY <2>1
  <2>3. offered' = offered \o <<p>>  BY <2>2, AppendIsConcat DEF Offer
  <2>4. PICK o : o = offered  OBVIOUS
  <2>5. Cardinality(Offs(c, o \o <<p>>)) = Cardinality(Offs(c, o)) + One(p, c)
    BY <1>2, <2>4, OfferTally
  <2> QED BY <2>3, <2>4, <2>5
<1>4. /\ \A c : /\ Cardinality(Of(c, b)) \in Nat
                /\ Cardinality(Of(c, ground')) = Cardinality(Of(c, ground)) + Cardinality(Of(c, b))
      /\ Cardinality(Kept(ground')) = Cardinality(Kept(ground))
      /\ Len(ground') = Len(ground) + Len(b)
  <2>1. PICK g : g = ground  OBVIOUS
  <2>2. /\ \A c : /\ Cardinality(Of(c, b)) \in Nat
                  /\ Cardinality(Of(c, g \o b)) = Cardinality(Of(c, g)) + Cardinality(Of(c, b))
        /\ Cardinality(Kept(g)) \in Nat
        /\ Cardinality(Kept(g \o b)) = Cardinality(Kept(g)) + Cardinality(Kept(b))
        /\ Len(g \o b) = Len(g) + Len(b)
    BY <1>1, <1>2, <2>1, GroundTally, Joined
  <2>3. Cardinality(Kept(b)) = 0  BY <1>1, NoneKept
  <2> QED BY <1>1, <2>1, <2>2, <2>3
<1>5. "CMD" \notin Events /\ "CMD" \notin HkApid /\ "UNMAPPED" \notin Events
      /\ "UNMAPPED" \notin HkApid /\ Events \cap HkApid = {} /\ Events = {"EVENT"}
  BY Classes
<1>10. /\ Cardinality(Offs(Events, offered')) = Cardinality(Offs(Events, offered)) + One(p, Events)
       /\ Cardinality(Offs(HkApid, offered')) = Cardinality(Offs(HkApid, offered)) + One(p, HkApid)
       /\ Cardinality(Offs({"UNMAPPED"}, offered')) =
              Cardinality(Offs({"UNMAPPED"}, offered)) + One(p, {"UNMAPPED"})
       /\ Cardinality(Of(Events, ground')) = Cardinality(Of(Events, ground)) + Cardinality(Of(Events, b))
       /\ Cardinality(Of(HkApid, ground')) = Cardinality(Of(HkApid, ground)) + Cardinality(Of(HkApid, b))
       /\ Cardinality(Kept(ground')) = Cardinality(Kept(ground))
       /\ nDownlinked' = Len(ground')
  <2>1. Len(b) \in Nat  BY <1>1 DEF Listed
  <2> QED BY <1>1, <1>2, <1>3, <1>4, <2>1 DEF Counted
<1>11. /\ Cardinality(Of(Events, ground)) \in Nat /\ Cardinality(Of(HkApid, ground)) \in Nat
       /\ nUnknown \in Nat /\ Cardinality(Kept(ground)) \in Nat
       /\ evStore.count \in Nat /\ evStore.dropped \in Nat
       /\ hkStore.count \in Nat /\ hkStore.dropped \in Nat
  BY <1>2 DEF Counted
\* How much the stores take of p: e and h packets.
<1> DEFINE Taken(e, h) ==
        /\ One(p, Events) = Cardinality(Of(Events, b)) + e
        /\ One(p, HkApid) = Cardinality(Of(HkApid, b)) + h
        /\ evStore'.count \in Nat /\ evStore'.dropped \in Nat
        /\ hkStore'.count \in Nat /\ hkStore'.dropped \in Nat
        /\ evStore'.count + evStore'.dropped = evStore.count + evStore.dropped + e
        /\ hkStore'.count + hkStore'.dropped = hkStore.count + hkStore.dropped + h
        /\ nStored' = nStored + e + h
        /\ nUnknown' = nUnknown + One(p, {"UNMAPPED"})
<1>12. nStored \in Nat
  <2>1. PICK k : k = Cardinality(Kept(ground))  OBVIOUS
  <2>2. nStored = k + hkStore.count + hkStore.dropped + evStore.count + evStore.dropped
    BY <2>1 DEF Counted
  <2>3. k \in Nat  BY <1>11, <2>1
  <2> QED BY <1>11, <2>2, <2>3
<1>13. /\ evStore.count + evStore.dropped + 0 = evStore.count + evStore.dropped
       /\ hkStore.count + hkStore.dropped + 0 = hkStore.count + hkStore.dropped
       /\ nStored + 0 + 0 = nStored /\ nStored + 1 + 0 = nStored + 1
       /\ nStored + 0 + 1 = nStored + 1 /\ nUnknown + 0 = nUnknown
  BY <1>11, <1>12, Sums
<1>14. ASSUME NEW e \in Nat, NEW h \in Nat, Taken(e, h) PROVE Counted'
  <2>1. PICK x, g, n, d, o, n1, d1 :
            /\ x = Cardinality(Offs(Events, offered)) /\ g = Cardinality(Of(Events, ground))
            /\ n = evStore.count /\ d = evStore.dropped /\ o = Cardinality(Of(Events, b))
            /\ n1 = evStore'.count /\ d1 = evStore'.dropped
    OBVIOUS
  <2>2. PICK y, f, m, c, q, m1, c1 :
            /\ y = Cardinality(Offs(HkApid, offered)) /\ f = Cardinality(Of(HkApid, ground))
            /\ m = hkStore.count /\ c = hkStore.dropped /\ q = Cardinality(Of(HkApid, b))
            /\ m1 = hkStore'.count /\ c1 = hkStore'.dropped
    OBVIOUS
  <2>3. PICK k : k = Cardinality(Kept(ground))  OBVIOUS
  <2>4. /\ g \in Nat /\ n \in Nat /\ d \in Nat /\ o \in Nat /\ n1 \in Nat /\ d1 \in Nat
        /\ f \in Nat /\ m \in Nat /\ c \in Nat /\ q \in Nat /\ m1 \in Nat /\ c1 \in Nat
        /\ k \in Nat /\ n1 + d1 = n + d + e /\ m1 + c1 = m + c + h
    BY <1>2, <1>4, <1>14, <2>1, <2>2, <2>3
  <2>5. x = g + n + d /\ y = f + m + c /\ nStored = k + m + c + n + d
    BY <2>1, <2>2, <2>3 DEF Counted
  <2>6. /\ x + (o + e) = (g + o) + n1 + d1 /\ y + (q + h) = (f + q) + m1 + c1
        /\ nStored + e + h = k + m1 + c1 + n1 + d1
    BY <2>4, <2>5, Balance
  <2>7. /\ Cardinality(Offs(Events, offered')) = x + (o + e)
        /\ Cardinality(Of(Events, ground')) = g + o
        /\ Cardinality(Offs(HkApid, offered')) = y + (q + h)
        /\ Cardinality(Of(HkApid, ground')) = f + q
        /\ Cardinality(Offs({"UNMAPPED"}, offered')) = nUnknown'
    BY <1>10, <1>14, <2>1, <2>2 DEF Counted
  <2>8. nStored' = nStored + e + h /\ Cardinality(Kept(ground')) = k  BY <1>10, <1>14, <2>3
  <2> QED BY <1>10, <2>1, <2>2, <2>6, <2>7, <2>8 DEF Counted
<1>6. CASE /\ Len(b) >= 1 /\ b[1].pkt = p
           /\ \A i \in 1 .. Len(b) : i # 1 => b[i].pkt.apid = "CMD"
           /\ p.apid # "UNMAPPED"
           /\ UNCHANGED <<hkStore, evStore, nStored, nUnknown>>
  <2>1. Len(b) \in Nat  BY <1>1 DEF Listed
  <2>2. /\ Cardinality(Of(Events, b)) = One(p, Events)
        /\ Cardinality(Of(HkApid, b)) = One(p, HkApid)
    BY <1>5, <1>6, <2>1, FirstOf
  <2>3. One(p, {"UNMAPPED"}) = 0  BY <1>6 DEF One
  <2>4. One(p, Events) \in Nat /\ One(p, HkApid) \in Nat  BY DEF One
  <2>5. /\ One(p, Events) = Cardinality(Of(Events, b)) + 0
        /\ One(p, HkApid) = Cardinality(Of(HkApid, b)) + 0
    BY <2>2, <2>4, Sums
  <2>6. nUnknown' = nUnknown + One(p, {"UNMAPPED"})  BY <1>6, <1>13, <2>3
  <2>7. Taken(0, 0)  BY <1>6, <1>11, <1>13, <2>5, <2>6
  <2> QED BY <2>7, <1>14
<1>7. ASSUME \A i \in 1 .. Len(b) : b[i].pkt.apid = "CMD"
      PROVE  Cardinality(Of(Events, b)) = 0 /\ Cardinality(Of(HkApid, b)) = 0
  BY <1>5, <1>7, NoneOf
<1>8. CASE /\ \A i \in 1 .. Len(b) : b[i].pkt.apid = "CMD"
           /\ p.apid \in Events \cup HkApid
           /\ StoreTm(p) /\ UNCHANGED nUnknown
  <2>1. p \in Packet /\ Size[p] >= 1
    <3>1. p \in Packet /\ Size[p] = p.len  BY ObdhAssumption
    <3>2. p.len \in Nat \ {0}  BY ObdhAssumption DEF TmPacket
    <3> QED BY <3>1, <3>2
  <2>2. Cardinality(Of(Events, b)) = 0 /\ Cardinality(Of(HkApid, b)) = 0  BY <1>7, <1>8
  <2>3. One(p, {"UNMAPPED"}) = 0  BY <1>5, <1>8 DEF One
  <2>4. CASE p.apid = "EVENT"
    <3>1. /\ evStore' = StorePut(evStore, p, onboardTime) /\ hkStore' = hkStore
          /\ nStored' = nStored + 1
      BY <1>8, <2>4 DEF StoreTm
    <3>2. /\ evStore'.count + evStore'.dropped = evStore.count + evStore.dropped + 1
      BY <1>2, <2>1, <3>1, PutTally
    <3>3. evStore' \in Store
      <4>1. InStep(evStore) /\ onboardTime \in 0 .. MaxStamp  BY DEF OInv, Held
      <4> QED BY <1>2, <2>1, <3>1, <4>1, PutAt
    <3>4. evStore'.count \in Nat /\ evStore'.dropped \in Nat  BY <3>3, StoreAssumption DEF Store
    <3>5. One(p, Events) = 1 /\ One(p, HkApid) = 0  BY <1>5, <2>4 DEF One
    <3>6. /\ One(p, Events) = Cardinality(Of(Events, b)) + 1
          /\ One(p, HkApid) = Cardinality(Of(HkApid, b)) + 0
          /\ nUnknown' = nUnknown + One(p, {"UNMAPPED"})
      BY <1>8, <1>13, <2>2, <2>3, <3>5
    <3>7. Taken(1, 0)  BY <1>11, <1>13, <3>1, <3>2, <3>4, <3>6
    <3> QED BY <3>7, <1>14
  <2>5. CASE p.apid # "EVENT"
    <3>1. /\ hkStore' = StorePut(hkStore, p, onboardTime) /\ evStore' = evStore
          /\ nStored' = nStored + 1
      BY <1>8, <2>5 DEF StoreTm
    <3>2. /\ hkStore'.count + hkStore'.dropped = hkStore.count + hkStore.dropped + 1
      BY <1>2, <2>1, <3>1, PutTally
    <3>3. hkStore' \in Store
      <4>1. InStep(hkStore) /\ onboardTime \in 0 .. MaxStamp  BY DEF OInv, Held
      <4> QED BY <1>2, <2>1, <3>1, <4>1, PutAt
    <3>4. hkStore'.count \in Nat /\ hkStore'.dropped \in Nat  BY <3>3, StoreAssumption DEF Store
    <3>5. One(p, Events) = 0 /\ One(p, HkApid) = 1  BY <1>5, <1>8, <2>5 DEF One
    <3>6. /\ One(p, Events) = Cardinality(Of(Events, b)) + 0
          /\ One(p, HkApid) = Cardinality(Of(HkApid, b)) + 1
          /\ nUnknown' = nUnknown + One(p, {"UNMAPPED"})
      BY <1>8, <1>13, <2>2, <2>3, <3>5
    <3>7. Taken(0, 1)  BY <1>11, <1>13, <3>1, <3>2, <3>4, <3>6
    <3> QED BY <3>7, <1>14
  <2> QED BY <2>4, <2>5
<1>9. CASE /\ \A i \in 1 .. Len(b) : b[i].pkt.apid = "CMD"
           /\ p.apid = "UNMAPPED" /\ nUnknown' = nUnknown + 1
           /\ UNCHANGED <<hkStore, evStore, nStored>>
  <2>1. Cardinality(Of(Events, b)) = 0 /\ Cardinality(Of(HkApid, b)) = 0  BY <1>7, <1>9
  <2>2. One(p, {"UNMAPPED"}) = 1  BY <1>9 DEF One
  <2>3. One(p, Events) = 0 /\ One(p, HkApid) = 0  BY <1>5, <1>9 DEF One
  <2>4. /\ One(p, Events) = Cardinality(Of(Events, b)) + 0
        /\ One(p, HkApid) = Cardinality(Of(HkApid, b)) + 0
        /\ nUnknown' = nUnknown + One(p, {"UNMAPPED"})
    BY <1>9, <2>1, <2>2, <2>3
  <2>5. Taken(0, 0)  BY <1>9, <1>11, <1>13, <2>4
  <2> QED BY <2>5, <1>14
<1> QED BY <1>1, <1>6, <1>8, <1>9

\* A drain moves what is held to the ground.
LEMMA AcquireCounts == ASSUME OInv, Counted, AcquireContact PROVE Counted'
<1> DEFINE q == pass + 1
           a == [i \in 1 .. evStore.count |-> [pkt |-> At(evStore, i).pkt, how |-> "STORED", pass |-> q]]
           b == [i \in 1 .. hkStore.count |-> [pkt |-> At(hkStore, i).pkt, how |-> "STORED", pass |-> q]]
<1>1. /\ evStore.count \in Nat /\ evStore.dropped \in Nat
      /\ hkStore.count \in Nat /\ hkStore.dropped \in Nat
      /\ Listed(ground) /\ Len(ground) \in Nat
      /\ \A c : Cardinality(Of(c, ground)) \in Nat
      /\ Cardinality(Kept(ground)) \in Nat
  BY CountTypes
<1>2. /\ ground' = ground \o (a \o b) /\ nDownlinked' = nDownlinked + Len(a \o b)
      /\ evStore' = Drained(evStore) /\ hkStore' = Drained(hkStore)
      /\ UNCHANGED <<offered, nStored, nUnknown>>
  BY DEF AcquireContact, Deliver, Backlog, Forwarded, Tag
<1>3. /\ evStore'.count = 0 /\ evStore'.dropped = evStore.dropped
      /\ hkStore'.count = 0 /\ hkStore'.dropped = hkStore.dropped
  BY <1>2 DEF Drained
<1>4. /\ Listed(a) /\ Len(a) = evStore.count /\ Listed(b) /\ Len(b) = hkStore.count
  <2>1. a = [i \in 1 .. evStore.count |-> a[i]] /\ b = [i \in 1 .. hkStore.count |-> b[i]]  OBVIOUS
  <2> HIDE DEF a, b
  <2> QED BY <1>1, <2>1, ListedFn
<1>5. \A i \in 1 .. Len(a) : a[i].pkt.apid \in Events /\ a[i].how = "STORED"
  <2>1. \A i \in 1 .. evStore.count : At(evStore, i).pkt.apid \in Events  BY DEF OInv, Held
  <2> QED BY <1>4, <2>1
<1>6. \A i \in 1 .. Len(b) : b[i].pkt.apid \in HkApid /\ b[i].how = "STORED"
  <2>1. \A i \in 1 .. hkStore.count : At(hkStore, i).pkt.apid \in HkApid  BY DEF OInv, Held
  <2> QED BY <1>4, <2>1
<1> HIDE DEF a, b
<1>7. PICK x, y, z : x = ground /\ y = a /\ z = b  OBVIOUS
<1>8. /\ Listed(x) /\ Listed(y) /\ Listed(z) /\ Listed(y \o z)
      /\ Len(y \o z) = Len(y) + Len(z) /\ Len(x \o (y \o z)) = Len(x) + Len(y \o z)
  <2>1. Listed(x) /\ Listed(y) /\ Listed(z)  BY <1>1, <1>4, <1>7
  <2>2. Listed(y \o z) /\ Len(y \o z) = Len(y) + Len(z)  BY <2>1, Joined
  <2> QED BY <2>1, <2>2, Joined
<1>9. /\ Cardinality(Of(Events, y)) = evStore.count /\ Cardinality(Of(HkApid, y)) = 0
      /\ Cardinality(Of(HkApid, z)) = hkStore.count /\ Cardinality(Of(Events, z)) = 0
      /\ Cardinality(Kept(y)) = evStore.count /\ Cardinality(Kept(z)) = hkStore.count
  <2>1. Events \cap HkApid = {}  BY Classes
  <2>2. \A i \in 1 .. Len(y) : y[i].pkt.apid \in Events /\ y[i].how = "STORED"  BY <1>5, <1>7
  <2>3. \A i \in 1 .. Len(z) : z[i].pkt.apid \in HkApid /\ z[i].how = "STORED"  BY <1>6, <1>7
  <2>4. \A i \in 1 .. Len(y) : y[i].pkt.apid \notin HkApid  BY <2>1, <2>2
  <2>5. \A i \in 1 .. Len(z) : z[i].pkt.apid \notin Events  BY <2>1, <2>3
  <2>6. Cardinality(Of(Events, y)) = Len(y) /\ Cardinality(Kept(y)) = Len(y)
    BY <1>8, <2>2, AllOf
  <2>7. Cardinality(Of(HkApid, z)) = Len(z) /\ Cardinality(Kept(z)) = Len(z)
    BY <1>8, <2>3, AllOf
  <2>8. Cardinality(Of(HkApid, y)) = 0 /\ Cardinality(Of(Events, z)) = 0
    BY <2>4, <2>5, NoneOf
  <2> QED BY <1>4, <1>7, <2>6, <2>7, <2>8
<1>10. /\ Cardinality(Of(Events, ground')) = Cardinality(Of(Events, x)) + evStore.count
       /\ Cardinality(Of(HkApid, ground')) = Cardinality(Of(HkApid, x)) + hkStore.count
       /\ Cardinality(Kept(ground')) = Cardinality(Kept(x)) + (evStore.count + hkStore.count)
  <2>1. \A c : /\ Cardinality(Of(c, x \o (y \o z))) =
                     Cardinality(Of(c, x)) + Cardinality(Of(c, y \o z))
               /\ Cardinality(Of(c, y \o z)) = Cardinality(Of(c, y)) + Cardinality(Of(c, z))
    BY <1>8, GroundTally
  <2>2. /\ Cardinality(Kept(x \o (y \o z))) = Cardinality(Kept(x)) + Cardinality(Kept(y \o z))
        /\ Cardinality(Kept(y \o z)) = Cardinality(Kept(y)) + Cardinality(Kept(z))
    BY <1>8, GroundTally
  <2>3. Cardinality(Of(Events, y \o z)) = evStore.count  BY <1>1, <1>9, <2>1
  <2>4. Cardinality(Of(HkApid, y \o z)) = hkStore.count  BY <1>1, <1>9, <2>1
  <2> QED BY <1>2, <1>7, <1>9, <2>1, <2>2, <2>3, <2>4
<1>11. nDownlinked' = Len(ground')
  <2>1. nDownlinked' = nDownlinked + Len(y \o z) /\ Len(ground') = Len(x) + Len(y \o z)
    BY <1>2, <1>7, <1>8
  <2> QED BY <1>7, <2>1 DEF Counted
<1>12. PICK e, h, k : /\ e = Cardinality(Of(Events, ground)) /\ h = Cardinality(Of(HkApid, ground))
                      /\ k = Cardinality(Kept(ground))
  OBVIOUS
<1>13. e \in Nat /\ h \in Nat /\ k \in Nat  BY <1>1, <1>12
<1>14. /\ Cardinality(Offs(Events, offered)) = e + evStore.count + evStore.dropped
       /\ Cardinality(Offs(HkApid, offered)) = h + hkStore.count + hkStore.dropped
       /\ nStored = k + hkStore.count + hkStore.dropped + evStore.count + evStore.dropped
       /\ Cardinality(Offs({"UNMAPPED"}, offered)) = nUnknown
  BY <1>12 DEF Counted
<1>15. /\ Cardinality(Of(Events, ground')) = e + evStore.count
       /\ Cardinality(Of(HkApid, ground')) = h + hkStore.count
       /\ Cardinality(Kept(ground')) = k + (evStore.count + hkStore.count)
  BY <1>7, <1>10, <1>12
<1>16. nStored = (k + (evStore.count + hkStore.count)) + 0 + hkStore.dropped + 0 + evStore.dropped
  BY <1>1, <1>13, <1>14
<1>17. /\ e + evStore.count + evStore.dropped = (e + evStore.count) + 0 + evStore.dropped
       /\ h + hkStore.count + hkStore.dropped = (h + hkStore.count) + 0 + hkStore.dropped
  BY <1>1, <1>13
<1> QED BY <1>2, <1>3, <1>11, <1>14, <1>15, <1>16, <1>17 DEF Counted

LEMMA IngestTcCounts ==
    ASSUME OInv, Counted, NEW tc \in Sent, NEW hook \in Hook, IngestTc(tc, hook) PROVE Counted'
<1>1. Len(out') \in Nat  BY Reports DEF IngestTc
<1>2. PICK rs : rs = Responses(tc)  OBVIOUS
<1>3. Listed(rs) /\ Len(rs) = Len(out') /\ \A i \in 1 .. Len(rs) : rs[i].apid = "CMD"
  <2>1. PICK n \in Nat : n = Len(out')  BY <1>1
  <2>2. rs = [i \in 1 .. n |-> [apid |-> "CMD", n |-> 0, kind |-> out'[i].kind, cmd |-> tc.cmd]]
    BY <1>2, <2>1 DEF Responses
  <2>3. rs = [i \in 1 .. n |-> rs[i]]  BY <2>2
  <2> QED BY <2>1, <2>2, <2>3, ListedFn
<1>4. UNCHANGED <<inContact, pass>>  BY DEF IngestTc
<1>5. CASE exits' = exits
  <2>1. PICK b : b = Live(rs)  OBVIOUS
  <2>2. /\ ground' = ground \o b /\ nDownlinked' = nDownlinked + Len(b)
        /\ UNCHANGED <<hkStore, evStore, offered, nStored, nUnknown>>
    BY <1>2, <1>5, <2>1 DEF IngestTc, Deliver
  <2>3. b = [i \in 1 .. Len(rs) |-> [pkt |-> rs[i], how |-> "LIVE",
                                     pass |-> IF inContact THEN pass ELSE 0]]
    BY <1>4, <2>1 DEF Live, Tag
  <2>4. Len(rs) \in Nat /\ b = [i \in 1 .. Len(rs) |-> b[i]]  BY <1>1, <1>3, <2>3
  <2>5. Listed(b) /\ Len(b) = Len(rs)  BY <2>4, ListedFn
  <2>6. \A i \in 1 .. Len(b) : /\ b[i].how = "LIVE" /\ b[i].pkt.apid \notin Events
                               /\ b[i].pkt.apid \notin HkApid
    BY <1>3, <2>3, <2>5, Classes
  <2>7. /\ Cardinality(Of(Events, b)) = 0 /\ Cardinality(Of(HkApid, b)) = 0
        /\ Cardinality(Kept(b)) = 0
    BY <2>6, NoneOf, NoneKept
  <2>8. PICK g : g = ground  OBVIOUS
  <2>9. Listed(g)  BY <2>8, CountTypes
  <2>10. /\ \A c : /\ Cardinality(Of(c, g)) \in Nat
                   /\ Cardinality(Of(c, g \o b)) = Cardinality(Of(c, g)) + Cardinality(Of(c, b))
         /\ Cardinality(Kept(g)) \in Nat
         /\ Cardinality(Kept(g \o b)) = Cardinality(Kept(g)) + Cardinality(Kept(b))
         /\ Len(g \o b) = Len(g) + Len(b)
    BY <2>5, <2>9, GroundTally, Joined
  <2>11. Cardinality(Of(Events, g \o b)) = Cardinality(Of(Events, g))  BY <2>7, <2>10
  <2>12. Cardinality(Of(HkApid, g \o b)) = Cardinality(Of(HkApid, g))  BY <2>7, <2>10
  <2>13. Cardinality(Kept(g \o b)) = Cardinality(Kept(g))  BY <2>7, <2>10
  <2>14. nDownlinked' = Len(g \o b)  BY <2>2, <2>8, <2>10 DEF Counted
  <2> QED BY <2>2, <2>8, <2>11, <2>12, <2>13, <2>14 DEF Counted
<1>6. CASE exits' # exits
  <2>1. PICK p \in TmPacket : Offer(p) /\ RouteTm(p, rs)  BY <1>2, <1>6 DEF IngestTc
  <2> QED BY <1>3, <1>4, <2>1, RouteCounts
<1> QED BY <1>5, <1>6

LEMMA IngestTmCounts == ASSUME OInv, Counted, NEW p \in TmPacket, IngestTm(p) PROVE Counted'
<1>1. <<>> \in Seq({0}) /\ Len(<<>>) = 0  OBVIOUS
<1>2. Listed(<<>>) /\ \A i \in 1 .. Len(<<>>) : (<<>>)[i].apid = "CMD"  BY <1>1 DEF Listed
<1>3. Offer(p) /\ RouteTm(p, <<>>) /\ UNCHANGED <<inContact, pass>>  BY DEF IngestTm
<1> QED BY <1>2, <1>3, RouteCounts

LEMMA CountsStart == ASSUME NEW c \in BOOLEAN, ObdhInit(c) PROVE Counted
<1>1. Len(<<>>) = 0  OBVIOUS
<1>2. /\ ground = <<>> /\ offered = <<>> /\ nDownlinked = 0 /\ nStored = 0 /\ nUnknown = 0
      /\ hkStore.count = 0 /\ hkStore.dropped = 0 /\ evStore.count = 0 /\ evStore.dropped = 0
  BY DEF ObdhInit, StoreInit
<1>3. /\ \A d : Offs(d, offered) = {} /\ Of(d, ground) = {}
      /\ Kept(ground) = {}
  BY <1>1, <1>2 DEF Offs, Of, Kept
<1>4. /\ Cardinality(Offs(Events, offered)) = 0 /\ Cardinality(Offs(HkApid, offered)) = 0
      /\ Cardinality(Offs({"UNMAPPED"}, offered)) = 0
  BY <1>3, Singles
<1>5. /\ Cardinality(Of(Events, ground)) = 0 /\ Cardinality(Of(HkApid, ground)) = 0
      /\ Cardinality(Kept(ground)) = 0
  BY <1>3, Singles
<1>6. Len(ground) = 0  BY <1>1, <1>2
<1> QED BY <1>2, <1>4, <1>5, <1>6 DEF Counted

LEMMA CountsKept == ASSUME OInv, Counted, [ObdhNext]_obdhVars PROVE Counted'
<1>1. CASE AcquireContact  BY <1>1, AcquireCounts
<1>2. CASE \E p \in TmPacket : IngestTm(p)  BY <1>2, IngestTmCounts
<1>3. CASE \E tc \in Sent : \E hook \in Hook : IngestTc(tc, hook)  BY <1>3, IngestTcCounts
<1>4. CASE UNCHANGED <<hkStore, evStore, nDownlinked, nStored, nUnknown, ground, offered>>
  BY <1>4 DEF Counted
<1>5. CASE ObdhTick \/ LoseContact \/ ObdhBuildHk  BY <1>4, <1>5 DEF ObdhTick, LoseContact, ObdhBuildHk
<1>6. CASE IngestMalformed \/ \E tc \in Sent : IngestShortTc(tc)
  BY <1>4, <1>6 DEF IngestMalformed, IngestShortTc
<1>7. CASE UNCHANGED obdhVars  BY <1>4, <1>7 DEF obdhVars
<1> QED BY <1>1, <1>2, <1>3, <1>5, <1>6, <1>7 DEF ObdhNext

-----------------------------------------------------------------------------
(* What a store holds out of contact: the newest packets of its class *)

FreshIn(c, o, l) == {n \in l + 1 .. Len(o) : o[n].apid \in c /\ o[n].len <= MaxPkt}

\* Store s holds packets of FreshIn(c, o, l), and of these it lacks older ones only,
\* and those only when it is full.
LastIn(c, s, o, l) ==
    /\ \A i \in 1 .. s.count : \E n \in FreshIn(c, o, l) : At(s, i).pkt = o[n]
    /\ \A n \in FreshIn(c, o, l) :
          \/ \E i \in 1 .. s.count : At(s, i).pkt = o[n]
          \/ s.count = StoreCap /\ n < At(s, 1).pkt.n

Numbered == \A n \in 1 .. Len(offered) : offered[n].n = n

NewestInv ==
    /\ losAt \in 0 .. Len(offered) /\ Numbered
    /\ ~inContact => /\ LastIn(Events, evStore, offered, losAt)
                     /\ LastIn(HkApid, hkStore, offered, losAt)

\* store_put: a packet that does not fit changes nothing held; one that does goes
\* behind the others, and the oldest makes room for it in a full store.
LEMMA PutWhere ==
    ASSUME NEW s \in Store, InStep(s), NEW p \in Packet, NEW t \in 0 .. MaxStamp,
           NEW w, w = StorePut(s, p, t)
    PROVE  /\ ~Fits(p) => w.count = s.count /\ \A i : At(w, i) = At(s, i)
           /\ Fits(p) /\ Full(s) =>
                 /\ w.count = StoreCap /\ At(w, StoreCap).pkt = p
                 /\ \A i \in 1 .. StoreCap - 1 : At(w, i) = At(s, i + 1)
           /\ Fits(p) /\ ~Full(s) =>
                 /\ w.count = s.count + 1 /\ At(w, s.count + 1).pkt = p
                 /\ \A i \in 1 .. s.count : At(w, i) = At(s, i)
<1>1. CASE Fits(p)
  <2>1. PICK r : r = MakeRoom(s)  OBVIOUS
  <2>2. r \in Store /\ InStep(r) /\ r.count < StoreCap  BY <2>1, RoomMade, RoomContents
  <2>3. w = Write(r, p, t)  BY <1>1, <2>1 DEF StorePut
  <2>4. /\ \A i \in 1 .. r.count : At(w, i) = At(r, i)
        /\ At(w, r.count + 1) = [pkt |-> p, stamp |-> t]
    BY <2>2, <2>3, WriteAt
  <2>5. w.count = r.count + 1  BY <2>3 DEF Write
  <2>6. CASE Full(s)
    <3>1. s.count = StoreCap /\ s.count \in Nat /\ s.count > 0
      BY <2>6, StoreAssumption DEF Full, Store
    <3>2. r.count = StoreCap - 1  BY <2>1, <2>6, <3>1, RoomMade
    <3>3. \A i \in 1 .. r.count : At(r, i) = At(s, i + 1)
      BY <2>1, <2>2, <2>6, <3>1, RoomMade, AdvanceAt
    <3>4. StoreCap - 1 + 1 = StoreCap  BY StoreAssumption
    <3>5. \A i \in 1 .. StoreCap - 1 : At(w, i) = At(s, i + 1)  BY <2>4, <3>2, <3>3
    <3>6. w.count = StoreCap /\ At(w, StoreCap).pkt = p  BY <2>4, <2>5, <3>2, <3>4
    <3> QED BY <1>1, <2>6, <3>5, <3>6
  <2>7. CASE ~Full(s)
    <3>1. r = s  BY <2>1, <2>7, RoomMade
    <3> QED BY <1>1, <2>4, <2>5, <2>7, <3>1
  <2> QED BY <2>6, <2>7
<1>2. CASE ~Fits(p)
  <2>1. /\ w.count = s.count /\ w.slot = s.slot /\ w.tail = s.tail
    BY <1>2 DEF StorePut, Store
  <2> QED BY <1>2, <2>1 DEF At
<1> QED BY <1>1, <1>2

\* Sequence q is o with p behind it.
Added(o, q, p) ==
    /\ Len(o) \in Nat /\ Len(q) = Len(o) + 1
    /\ \A n \in 1 .. Len(o) : q[n] = o[n]
    /\ q[Len(o) + 1] = p

LEMMA FreshGrows ==
    ASSUME NEW c, NEW o, NEW q, NEW p, NEW l, Added(o, q, p), l \in 0 .. Len(o)
    PROVE  /\ \A n \in FreshIn(c, o, l) : n \in FreshIn(c, q, l) /\ q[n] = o[n]
           /\ \A n \in FreshIn(c, q, l) :
                 \/ n \in FreshIn(c, o, l)
                 \/ n = Len(o) + 1 /\ p.apid \in c /\ p.len <= MaxPkt
           /\ p.apid \in c /\ p.len <= MaxPkt => Len(o) + 1 \in FreshIn(c, q, l)
<1> USE DEF Added
<1>1. PICK m \in Nat : m = Len(o)  OBVIOUS
<1>2. \A n \in l + 1 .. m : n \in 1 .. m /\ n \in l + 1 .. m + 1  BY <1>1
<1>3. \A n \in l + 1 .. m + 1 : n \in l + 1 .. m \/ n = m + 1  BY <1>1
<1>4. m + 1 \in l + 1 .. m + 1  BY <1>1
<1> QED BY <1>1, <1>2, <1>3, <1>4 DEF FreshIn

\* Nothing of the class was offered: the store is as it was.
LEMMA LastKeeps ==
    ASSUME NEW c, NEW s, NEW o, NEW q, NEW p, NEW l, Added(o, q, p), l \in 0 .. Len(o),
           LastIn(c, s, o, l), ~(p.apid \in c /\ p.len <= MaxPkt)
    PROVE  LastIn(c, s, q, l)
<1>1. \A n \in FreshIn(c, o, l) : n \in FreshIn(c, q, l) /\ q[n] = o[n]  BY FreshGrows
<1>2. \A n \in FreshIn(c, q, l) :
         \/ n \in FreshIn(c, o, l)
         \/ n = Len(o) + 1 /\ p.apid \in c /\ p.len <= MaxPkt
  BY FreshGrows
<1>3. \A n \in FreshIn(c, q, l) : n \in FreshIn(c, o, l)  BY <1>2
<1> QED BY <1>1, <1>3 DEF LastIn

LEMMA LastPut ==
    ASSUME NEW c, NEW s \in Store, InStep(s), NEW o, NEW q, NEW p \in Packet, NEW l,
           Added(o, q, p), l \in 0 .. Len(o), \A n \in 1 .. Len(o) : o[n].n = n,
           \A i \in 1 .. s.count : At(s, i).pkt.n \in 1 .. Len(o),
           \A i, j \in 1 .. s.count : i < j => At(s, i).pkt.n < At(s, j).pkt.n,
           LastIn(c, s, o, l), p.apid \in c, p.n = Len(o) + 1, Fits(p) <=> p.len <= MaxPkt,
           NEW t \in 0 .. MaxStamp
    PROVE  LastIn(c, StorePut(s, p, t), q, l)
<1>1. PICK w : w = StorePut(s, p, t)  OBVIOUS
<1>2. PICK m \in Nat : m = Len(o)  BY DEF Added
<1>3. s.count \in 0 .. StoreCap /\ StoreCap \in Nat /\ StoreCap >= 1
  BY StoreAssumption DEF Store
<1>4. /\ \A n \in FreshIn(c, o, l) : n \in FreshIn(c, q, l) /\ q[n] = o[n]
      /\ \A n \in FreshIn(c, q, l) : n \in FreshIn(c, o, l) \/ (n = m + 1 /\ p.len <= MaxPkt)
      /\ p.len <= MaxPkt => m + 1 \in FreshIn(c, q, l)
  <2>1. \A n \in FreshIn(c, o, l) : n \in FreshIn(c, q, l) /\ q[n] = o[n]  BY FreshGrows
  <2>2. \A n \in FreshIn(c, q, l) :
           \/ n \in FreshIn(c, o, l)
           \/ n = Len(o) + 1 /\ p.apid \in c /\ p.len <= MaxPkt
    BY FreshGrows
  <2>3. p.apid \in c /\ p.len <= MaxPkt => Len(o) + 1 \in FreshIn(c, q, l)  BY FreshGrows
  <2> QED BY <1>2, <2>1, <2>2, <2>3
<1>5. \A n \in FreshIn(c, o, l) : n \in 1 .. m /\ o[n].n = n
  <2>1. \A n \in l + 1 .. m : n \in 1 .. m  BY <1>2
  <2> QED BY <1>2, <2>1 DEF FreshIn
<1>6. /\ \A i \in 1 .. s.count : \E n \in FreshIn(c, o, l) : At(s, i).pkt = o[n]
      /\ \A n \in FreshIn(c, o, l) :
            \/ \E i \in 1 .. s.count : At(s, i).pkt = o[n]
            \/ s.count = StoreCap /\ n < At(s, 1).pkt.n
  BY DEF LastIn
<1>7. CASE ~Fits(p)
  <2>1. w.count = s.count /\ \A i : At(w, i) = At(s, i)  BY <1>1, <1>7, PutWhere
  <2>2. \A n \in FreshIn(c, q, l) : n \in FreshIn(c, o, l)  BY <1>4, <1>7
  <2>3. LastIn(c, w, q, l)  BY <1>4, <1>6, <2>1, <2>2 DEF LastIn
  <2> QED BY <1>1, <2>3
<1>8. CASE Fits(p) /\ Full(s)
  <2>1. /\ w.count = StoreCap /\ At(w, StoreCap).pkt = p
        /\ \A i \in 1 .. StoreCap - 1 : At(w, i) = At(s, i + 1)
    BY <1>1, <1>8, PutWhere
  <2>2. s.count = StoreCap  BY <1>8 DEF Full
  <2>3. q[m + 1] = p /\ m + 1 \in FreshIn(c, q, l)  BY <1>2, <1>4, <1>8 DEF Added
  <2>4. ASSUME NEW i \in 1 .. w.count PROVE \E n \in FreshIn(c, q, l) : At(w, i).pkt = q[n]
    <3>1. CASE i = StoreCap  BY <2>1, <2>3, <3>1
    <3>2. CASE i # StoreCap
      <4>1. i \in 1 .. StoreCap - 1 /\ i + 1 \in 1 .. s.count  BY <1>3, <2>1, <2>2, <3>2
      <4>2. PICK n \in FreshIn(c, o, l) : At(s, i + 1).pkt = o[n]  BY <1>6, <4>1
      <4> QED BY <1>4, <2>1, <4>1, <4>2
    <3> QED BY <3>1, <3>2
  <2>5. At(s, 1).pkt.n \in 1 .. m /\ At(s, 1).pkt.n < At(w, 1).pkt.n /\ At(w, 1).pkt.n \in Nat
    <3>1. At(s, 1).pkt.n \in 1 .. m  BY <1>2, <1>3, <2>2
    <3>2. CASE StoreCap = 1
      <4>1. At(w, 1).pkt.n = m + 1  BY <1>2, <2>1, <3>2
      <4> QED BY <3>1, <4>1
    <3>3. CASE StoreCap # 1
      <4>1. 1 \in 1 .. StoreCap - 1 /\ 1 \in 1 .. s.count /\ 2 \in 1 .. s.count
        BY <1>3, <2>2, <3>3
      <4>2. At(w, 1) = At(s, 2)
        <5>1. At(w, 1) = At(s, 1 + 1)  BY <2>1, <4>1
        <5> QED BY <5>1
      <4>3. At(s, 2).pkt.n \in 1 .. m /\ At(s, 1).pkt.n < At(s, 2).pkt.n  BY <1>2, <4>1
      <4> QED BY <3>1, <4>2, <4>3
    <3> QED BY <3>2, <3>3
  <2>6. ASSUME NEW n \in FreshIn(c, q, l)
        PROVE  \/ \E i \in 1 .. w.count : At(w, i).pkt = q[n]
               \/ w.count = StoreCap /\ n < At(w, 1).pkt.n
    <3>1. CASE n = m + 1
      <4>1. StoreCap \in 1 .. w.count  BY <1>3, <2>1
      <4> QED BY <2>1, <2>3, <3>1, <4>1
    <3>2. CASE n \in FreshIn(c, o, l)
      <4>1. q[n] = o[n] /\ n \in 1 .. m /\ o[n].n = n  BY <1>4, <1>5, <3>2
      <4>2. CASE n < At(s, 1).pkt.n  BY <2>1, <2>5, <4>1, <4>2
      <4>3. CASE \E i \in 1 .. s.count : At(s, i).pkt = o[n]
        <5>1. PICK i \in 1 .. s.count : At(s, i).pkt = o[n]  BY <4>3
        <5>2. CASE i = 1
          <6>1. n = At(s, 1).pkt.n  BY <4>1, <5>1, <5>2
          <6> QED BY <2>1, <2>5, <6>1
        <5>3. CASE i # 1
          <6>1. i - 1 \in 1 .. StoreCap - 1 /\ i - 1 \in 1 .. w.count /\ (i - 1) + 1 = i
            BY <1>3, <2>1, <2>2, <5>3
          <6>2. At(w, i - 1) = At(s, i)  BY <2>1, <6>1
          <6> QED BY <4>1, <5>1, <6>1, <6>2
        <5> QED BY <5>2, <5>3
      <4> QED BY <1>6, <3>2, <4>2, <4>3
    <3> QED BY <1>4, <3>1, <3>2
  <2>7. LastIn(c, w, q, l)  BY <2>4, <2>6 DEF LastIn
  <2> QED BY <1>1, <2>7
<1>9. CASE Fits(p) /\ ~Full(s)
  <2>1. /\ w.count = s.count + 1 /\ At(w, s.count + 1).pkt = p
        /\ \A i \in 1 .. s.count : At(w, i) = At(s, i)
    BY <1>1, <1>9, PutWhere
  <2>2. s.count # StoreCap  BY <1>9 DEF Full
  <2>3. q[m + 1] = p /\ m + 1 \in FreshIn(c, q, l)  BY <1>2, <1>4, <1>9 DEF Added
  <2>4. /\ \A i \in 1 .. w.count : i \in 1 .. s.count \/ i = s.count + 1
        /\ \A i \in 1 .. s.count : i \in 1 .. w.count
        /\ s.count + 1 \in 1 .. w.count
    BY <1>3, <2>1
  <2>5. \A i \in 1 .. w.count : \E n \in FreshIn(c, q, l) : At(w, i).pkt = q[n]
    BY <1>4, <1>6, <2>1, <2>3, <2>4
  <2>6. ASSUME NEW n \in FreshIn(c, q, l) PROVE \E i \in 1 .. w.count : At(w, i).pkt = q[n]
    <3>1. CASE n = m + 1  BY <2>1, <2>3, <2>4, <3>1
    <3>2. CASE n \in FreshIn(c, o, l)
      <4>1. PICK i \in 1 .. s.count : At(s, i).pkt = o[n]  BY <1>6, <2>2, <3>2
      <4> QED BY <1>4, <2>1, <2>4, <3>2, <4>1
    <3> QED BY <1>4, <3>1, <3>2
  <2>7. LastIn(c, w, q, l)  BY <2>5, <2>6 DEF LastIn
  <2> QED BY <1>1, <2>7
<1> QED BY <1>7, <1>8, <1>9

LEMMA LastNone ==
    ASSUME NEW c, NEW s, s.count = 0, NEW o, Len(o) \in Nat PROVE LastIn(c, s, o, Len(o))
<1>1. FreshIn(c, o, Len(o)) = {}
  <2>1. PICK m \in Nat : m = Len(o)  OBVIOUS
  <2>2. m + 1 .. m = {}  OBVIOUS
  <2> QED BY <2>1, <2>2 DEF FreshIn
<1> QED BY <1>1 DEF LastIn

LEMMA Offering ==
    ASSUME OInv, NEW p \in TmPacket, Offer(p)
    PROVE  Added(offered, offered', p) /\ p.n = Len(offered) + 1
<1>1. PICK S : offered \in Seq(S)  BY DEF OInv, Listed
<1>2. PICK T : T = S \cup {p}  OBVIOUS
<1>3. offered \in Seq(T) /\ p \in T  BY <1>1, <1>2
<1>4. offered' = Append(offered, p) /\ p.n = Len(offered) + 1  BY DEF Offer
<1>5. Len(offered) \in Nat  BY DEF OInv
<1>6. /\ Len(offered') = Len(offered) + 1 /\ offered'[Len(offered) + 1] = p
      /\ \A n \in 1 .. Len(offered) : offered'[n] = offered[n]
  BY <1>3, <1>4, AppendProperties
<1> QED BY <1>4, <1>5, <1>6 DEF Added

LEMMA RouteNewest ==
    ASSUME OInv, NewestInv, NEW p \in TmPacket, Offer(p), NEW rs, RouteTm(p, rs),
           UNCHANGED <<inContact, losAt>>
    PROVE  NewestInv'
<1>1. Added(offered, offered', p) /\ p.n = Len(offered) + 1  BY Offering
<1>2. losAt \in 0 .. Len(offered) /\ \A n \in 1 .. Len(offered) : offered[n].n = n
  BY DEF NewestInv, Numbered
<1>3. losAt' \in 0 .. Len(offered') /\ Numbered'
  <2> USE DEF Added
  <2>1. \A n \in 1 .. Len(offered) + 1 : n \in 1 .. Len(offered) \/ n = Len(offered) + 1  BY <1>1
  <2>2. \A n \in 1 .. Len(offered') : offered'[n].n = n  BY <1>1, <1>2, <2>1
  <2> QED BY <1>1, <1>2, <2>2 DEF Numbered
<1>4. ASSUME ~inContact
      PROVE  /\ LastIn(Events, evStore', offered', losAt)
             /\ LastIn(HkApid, hkStore', offered', losAt)
  <2>1. /\ LastIn(Events, evStore, offered, losAt) /\ LastIn(HkApid, hkStore, offered, losAt)
        /\ onboardTime \in 0 .. MaxStamp
    BY <1>4 DEF NewestInv, OInv
  <2>2. p \in Packet /\ (Fits(p) <=> p.len <= MaxPkt) /\ p.apid \in TmApid
    <3>1. p \in Packet /\ Size[p] = p.len  BY ObdhAssumption
    <3>2. PICK k \in TmKind : p.apid = k.apid /\ p.len = k.len  BY DEF TmPacket
    <3>3. k.apid \in TmApid /\ k.len \in Nat \ {0}  BY ObdhAssumption
    <3> QED BY <3>1, <3>2, <3>3, StoreAssumption DEF Fits
  <2>3. CASE p.apid = "EVENT"
    <3>1. evStore' = StorePut(evStore, p, onboardTime) /\ hkStore' = hkStore
      BY <1>4, <2>3 DEF RouteTm, Route, StoreTm
    <3>2. p.apid \in Events /\ p.apid \notin HkApid  BY <2>3 DEF Events, HkApid
    <3>3. /\ evStore \in Store /\ InStep(evStore)
          /\ \A i \in 1 .. evStore.count : At(evStore, i).pkt.n \in 1 .. Len(offered)
          /\ \A i, j \in 1 .. evStore.count : i < j => At(evStore, i).pkt.n < At(evStore, j).pkt.n
      BY DEF OInv, Held
    <3>4. LastIn(Events, StorePut(evStore, p, onboardTime), offered', losAt)
      BY <1>1, <1>2, <2>1, <2>2, <3>2, <3>3, LastPut
    <3>5. LastIn(HkApid, hkStore, offered', losAt)  BY <1>1, <1>2, <2>1, <3>2, LastKeeps
    <3> QED BY <3>1, <3>4, <3>5
  <2>4. CASE p.apid \in HkApid
    <3>1. hkStore' = StorePut(hkStore, p, onboardTime) /\ evStore' = evStore
      BY <1>4, <2>4 DEF RouteTm, Route, StoreTm, HkApid
    <3>2. p.apid \notin Events  BY <2>4 DEF Events, HkApid
    <3>3. /\ hkStore \in Store /\ InStep(hkStore)
          /\ \A i \in 1 .. hkStore.count : At(hkStore, i).pkt.n \in 1 .. Len(offered)
          /\ \A i, j \in 1 .. hkStore.count : i < j => At(hkStore, i).pkt.n < At(hkStore, j).pkt.n
      BY DEF OInv, Held
    <3>4. LastIn(HkApid, StorePut(hkStore, p, onboardTime), offered', losAt)
      BY <1>1, <1>2, <2>1, <2>2, <2>4, <3>3, LastPut
    <3>5. LastIn(Events, evStore, offered', losAt)  BY <1>1, <1>2, <2>1, <3>2, LastKeeps
    <3> QED BY <3>1, <3>4, <3>5
  <2>5. CASE p.apid \notin HkApid \cup {"EVENT"}
    <3>1. Route(p.apid, inContact) \in {"DOWNLINK", "DROP"}  BY <2>5 DEF Route
    <3>2. evStore' = evStore /\ hkStore' = hkStore  BY <3>1 DEF RouteTm
    <3>3. p.apid \notin Events  BY <2>5 DEF Events
    <3>4. LastIn(Events, evStore, offered', losAt)  BY <1>1, <1>2, <2>1, <3>3, LastKeeps
    <3>5. LastIn(HkApid, hkStore, offered', losAt)  BY <1>1, <1>2, <2>1, <2>5, LastKeeps
    <3> QED BY <3>2, <3>4, <3>5
  <2> QED BY <2>3, <2>4, <2>5
<1> QED BY <1>3, <1>4 DEF NewestInv

LEMMA NewestStart == ASSUME NEW c \in BOOLEAN, ObdhInit(c) PROVE NewestInv
<1>1. offered = <<>> /\ losAt = 0 /\ evStore.count = 0 /\ hkStore.count = 0
  BY EmptyStore DEF ObdhInit
<1>2. Len(offered) = 0  BY <1>1
<1>3. LastIn(Events, evStore, offered, 0) /\ LastIn(HkApid, hkStore, offered, 0)
  BY <1>1, <1>2, LastNone
<1> QED BY <1>1, <1>2, <1>3 DEF NewestInv, Numbered

LEMMA NewestKept == ASSUME OInv, NewestInv, [ObdhNext]_obdhVars PROVE NewestInv'
<1>1. CASE AcquireContact
  BY <1>1 DEF AcquireContact, NewestInv, Numbered
<1>2. CASE LoseContact
  <2>1. /\ inContact /\ losAt' = Len(offered)
        /\ UNCHANGED <<hkStore, evStore, offered>>
    BY <1>2 DEF LoseContact
  <2>2. Len(offered) \in Nat /\ evStore.count = 0 /\ hkStore.count = 0
    BY <2>1 DEF OInv, NothingHeldInContact
  <2>3. LastIn(Events, evStore, offered, Len(offered)) /\ LastIn(HkApid, hkStore, offered, Len(offered))
    BY <2>2, LastNone
  <2> QED BY <2>1, <2>2, <2>3 DEF NewestInv, Numbered
<1>3. CASE \E p \in TmPacket : IngestTm(p)
  <2>1. PICK p \in TmPacket : IngestTm(p)  BY <1>3
  <2>2. Offer(p) /\ RouteTm(p, <<>>) /\ UNCHANGED <<inContact, losAt>>  BY <2>1 DEF IngestTm
  <2> QED BY <2>2, RouteNewest
<1>4. CASE \E tc \in Sent : \E hook \in Hook : IngestTc(tc, hook)
  <2>1. PICK tc \in Sent, hook \in Hook : IngestTc(tc, hook)  BY <1>4
  <2>2. UNCHANGED <<inContact, losAt>>  BY <2>1 DEF IngestTc
  <2>3. CASE exits' = exits
    <3>1. UNCHANGED <<hkStore, evStore, offered>>  BY <2>1, <2>3 DEF IngestTc
    <3> QED BY <2>2, <3>1 DEF NewestInv, Numbered
  <2>4. CASE exits' # exits
    <3>1. PICK p \in TmPacket : Offer(p) /\ RouteTm(p, Responses(tc))  BY <2>1, <2>4 DEF IngestTc
    <3> QED BY <2>2, <3>1, RouteNewest
  <2> QED BY <2>3, <2>4
<1>5. CASE UNCHANGED <<hkStore, evStore, inContact, offered, losAt>>
  BY <1>5 DEF NewestInv, Numbered
<1>6. CASE ObdhTick \/ ObdhBuildHk  BY <1>5, <1>6 DEF ObdhTick, ObdhBuildHk
<1>7. CASE IngestMalformed \/ \E tc \in Sent : IngestShortTc(tc)
  BY <1>5, <1>7 DEF IngestMalformed, IngestShortTc
<1>8. CASE UNCHANGED obdhVars  BY <1>5, <1>8 DEF obdhVars
<1> QED BY <1>1, <1>2, <1>3, <1>4, <1>6, <1>7, <1>8 DEF ObdhNext

-----------------------------------------------------------------------------
(* The theorems *)

\* Nothing stored is left behind in contact (obdh_set_contact drains both stores,
\* and a packet is stored out of contact only).
THEOREM NothingHeld == ObdhSpec => []NothingHeldInContact
<1>1. OInv => NothingHeldInContact  BY DEF OInv
<1> QED BY <1>1, ObdhInvariant, PTL

\* Events reach the ground in the order they were offered, and so does
\* housekeeping, over any number of passes, and no packet comes twice.
THEOREM OrderKept == ObdhSpec => []InOrder
<1>1. OInv => InOrder  BY DEF OInv, InOrder, Down, Of, ReceivedOf
<1> QED BY <1>1, ObdhInvariant, PTL

\* Within a pass stored telemetry precedes real-time telemetry, and the events
\* among it the housekeeping.
THEOREM StoredBeforeLive == ObdhSpec => []StoredFirst
<1>1. OInv => StoredFirst  BY DEF OInv, First, StoredFirst
<1> QED BY <1>1, ObdhInvariant, PTL

\* Every packet of either class is on the ground, held, or counted as dropped; one
\* for no known destination is counted too (store_put and the counters of obdh_ingest).
THEOREM NothingLostUnseen == ObdhSpec => []LossVisible
<1>1. (\E c \in BOOLEAN : ObdhInit(c)) => Counted  BY CountsStart
<1>2. OInv /\ Counted /\ [ObdhNext]_obdhVars => Counted'  BY CountsKept
<1>3. Counted => LossVisible
  BY DEF Counted, LossVisible, Offs, Of, Kept, IsOf, ReceivedOf
<1> QED BY <1>1, <1>2, <1>3, ObdhInvariant, PTL DEF ObdhSpec
\* Out of contact either store holds the newest packets of its own class, as many as
\* it has room for, whatever was offered to the other (store_put, and the two stores
\* of obdh_ingest).
THEOREM NewestHeld == ObdhSpec => []HoldsTheNewest
<1>1. (\E c \in BOOLEAN : ObdhInit(c)) => NewestInv  BY NewestStart
<1>2. OInv /\ NewestInv /\ [ObdhNext]_obdhVars => NewestInv'  BY NewestKept
<1>3. OInv /\ NewestInv => HoldsTheNewest
  <2> SUFFICES ASSUME OInv, NewestInv, ~inContact PROVE HoldsTheNewest  BY DEF HoldsTheNewest
  <2>1. Fresh(Events) = FreshIn(Events, offered, losAt) /\ Fresh(HkApid) = FreshIn(HkApid, offered, losAt)
    BY DEF Fresh, FreshIn
  <2>2. HoldsLast(evStore, Events)  BY <2>1 DEF OInv, Held, NewestInv, LastIn, HoldsLast
  <2>3. HoldsLast(hkStore, HkApid)  BY <2>1 DEF OInv, Held, NewestInv, LastIn, HoldsLast
  <2> QED BY <2>2, <2>3 DEF HoldsTheNewest
<1> QED BY <1>1, <1>2, <1>3, ObdhInvariant, PTL DEF ObdhSpec
=============================================================================
