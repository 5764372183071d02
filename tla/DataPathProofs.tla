--------------------------- MODULE DataPathProofs ---------------------------
(***************************************************************************)
(* Proofs about DataPath, for any number of packets and of connections and *)
(* any sizes of the buffers: nothing is delivered twice, only a torn frame *)
(* puts the stream out of step, and a connection that is neither broken    *)
(* nor torn loses nothing.                                                 *)
(***************************************************************************)
EXTENDS DataPath, SequenceTheorems, TLAPS

LEMMA ConstantsAreNumbers ==
  /\ MaxPkts \in Nat /\ MaxConns \in Nat /\ MaxConns > 0
  /\ TcpCap \in Nat /\ TcpCap > 1
  /\ MAX_BUFFERED_PKTS \in Nat /\ MAX_BUFFERED_PKTS > 0
  /\ UdpCap \in Nat /\ UdpCap > 0
BY TunnelAssumption, DeviceDataAssumption

-----------------------------------------------------------------------------
(* Sequences as queues of different packets. *)

LEMMA ElementsOf ==
  ASSUME NEW S, NEW s \in Seq(S)
  PROVE  /\ Len(s) \in Nat /\ DOMAIN s = 1 .. Len(s)
         /\ \A i \in DOMAIN s : s[i] \in S
         /\ ToSet(s) \subseteq S
BY LenProperties, ElementOfSeq DEF ToSet

LEMMA PieceOf ==
  ASSUME NEW S, NEW s \in Seq(S), NEW m \in 1 .. Len(s) + 1, NEW n \in 0 .. Len(s)
  PROVE  /\ SubSeq(s, m, n) \in Seq(S)
         /\ \A i \in DOMAIN SubSeq(s, m, n) :
              i + (m - 1) \in DOMAIN s /\ SubSeq(s, m, n)[i] = s[i + (m - 1)]
         /\ Len(SubSeq(s, m, n)) = IF m <= n THEN n - m + 1 ELSE 0
<1>1. \A i \in m .. n : s[i] \in S
  BY ElementOfSeq
<1>2. /\ SubSeq(s, m, n) \in Seq(S)
      /\ Len(SubSeq(s, m, n)) = IF m <= n THEN n - m + 1 ELSE 0
      /\ \A i \in 1 .. n - m + 1 : SubSeq(s, m, n)[i] = s[m + i - 1]
  BY <1>1, SubSeqProperties
<1>3. DOMAIN SubSeq(s, m, n) = 1 .. Len(SubSeq(s, m, n)) /\ DOMAIN s = 1 .. Len(s)
  BY <1>2, LenProperties
<1>4. \A i \in DOMAIN SubSeq(s, m, n) : m + i - 1 = i + (m - 1) /\ i + (m - 1) \in 1 .. Len(s)
  BY <1>2, <1>3
<1> QED BY <1>2, <1>3, <1>4

LEMMA EmptyQueue ==
  ASSUME NEW S
  PROVE  /\ <<>> \in Seq(S) /\ Len(<<>>) = 0 /\ ToSet(<<>>) = {} /\ IsInjective(<<>>)
         /\ DOMAIN <<>> = {}
<1>1. <<>> \in Seq(S) /\ Len(<<>>) = 0 /\ DOMAIN <<>> = {}
  BY EmptySeq
<1> QED BY <1>1 DEF ToSet, IsInjective

LEMMA HeadLeaves ==
  ASSUME NEW S, NEW s \in Seq(S), s # <<>>
  PROVE  /\ Head(s) \in S /\ Head(s) \in ToSet(s) /\ Head(s) = s[1] /\ 1 \in DOMAIN s
         /\ Tail(s) \in Seq(S) /\ Len(Tail(s)) = Len(s) - 1
         /\ \A i \in DOMAIN Tail(s) : i + 1 \in DOMAIN s /\ Tail(s)[i] = s[i + 1] /\ i \in Nat
         /\ ToSet(s) = ToSet(Tail(s)) \cup {Head(s)}
         /\ IsInjective(s) => IsInjective(Tail(s)) /\ Head(s) \notin ToSet(Tail(s))
<1>1. /\ Head(s) \in S /\ Head(s) = s[1] /\ Tail(s) \in Seq(S) /\ Len(Tail(s)) = Len(s) - 1
      /\ \A i \in 1 .. Len(Tail(s)) : Tail(s)[i] = s[i + 1]
  BY HeadTailProperties
<1>2. /\ Len(s) \in Nat /\ Len(s) > 0 /\ DOMAIN s = 1 .. Len(s)
      /\ DOMAIN Tail(s) = 1 .. Len(s) - 1
  BY <1>1, LenProperties, EmptySeq
<1>3. 1 \in DOMAIN s /\ \A i \in DOMAIN Tail(s) :
        i + 1 \in DOMAIN s /\ Tail(s)[i] = s[i + 1] /\ i \in Nat /\ i + 1 # 1
  BY <1>1, <1>2
<1>4. \A i \in DOMAIN s : i = 1 \/ (i - 1 \in DOMAIN Tail(s) /\ Tail(s)[i - 1] = s[i])
  <2> SUFFICES ASSUME NEW i \in DOMAIN s, i # 1
               PROVE  i - 1 \in DOMAIN Tail(s) /\ Tail(s)[i - 1] = s[i]
    OBVIOUS
  <2>1. i - 1 \in DOMAIN Tail(s) /\ (i - 1) + 1 = i
    BY <1>2
  <2> QED BY <1>3, <2>1
<1>5. ToSet(s) = ToSet(Tail(s)) \cup {Head(s)}
  <2>1. ToSet(s) \subseteq ToSet(Tail(s)) \cup {Head(s)}
    <3> SUFFICES ASSUME NEW i \in DOMAIN s PROVE s[i] \in ToSet(Tail(s)) \cup {Head(s)}
      BY DEF ToSet
    <3> QED BY <1>1, <1>4 DEF ToSet
  <2>2. ToSet(Tail(s)) \subseteq ToSet(s) /\ Head(s) \in ToSet(s)
    BY <1>1, <1>3 DEF ToSet
  <2> QED BY <2>1, <2>2
<1>6. ASSUME IsInjective(s) PROVE IsInjective(Tail(s)) /\ Head(s) \notin ToSet(Tail(s))
  <2>1. \A i, j \in DOMAIN s : s[i] = s[j] => i = j
    BY <1>6 DEF IsInjective
  <2>2. \A i, j \in DOMAIN Tail(s) : Tail(s)[i] = Tail(s)[j] => i = j
    <3> SUFFICES ASSUME NEW i \in DOMAIN Tail(s), NEW j \in DOMAIN Tail(s),
                        Tail(s)[i] = Tail(s)[j]
                 PROVE  i = j
      OBVIOUS
    <3>1. i + 1 = j + 1 /\ i \in Nat /\ j \in Nat
      BY <1>3, <2>1
    <3> QED BY <3>1
  <2>3. Head(s) \notin ToSet(Tail(s))
    BY <1>1, <1>3, <2>1 DEF ToSet
  <2> QED BY <2>2, <2>3 DEF IsInjective
<1> QED BY <1>1, <1>3, <1>5, <1>6 DEF ToSet

LEMMA OneJoins ==
  ASSUME NEW S, NEW s \in Seq(S), NEW e \in S
  PROVE  /\ Append(s, e) \in Seq(S) /\ Len(Append(s, e)) = Len(s) + 1
         /\ ToSet(Append(s, e)) = ToSet(s) \cup {e}
         /\ Append(s, e)[Len(s) + 1] = e
         /\ IsInjective(s) /\ e \notin ToSet(s) => IsInjective(Append(s, e))
<1>1. /\ Append(s, e) \in Seq(S) /\ Len(Append(s, e)) = Len(s) + 1
      /\ \A i \in 1 .. Len(s) : Append(s, e)[i] = s[i]
      /\ Append(s, e)[Len(s) + 1] = e
  BY AppendProperties
<1>2. /\ Len(s) \in Nat /\ DOMAIN s = 1 .. Len(s)
      /\ DOMAIN Append(s, e) = 1 .. Len(s) + 1
  BY <1>1, LenProperties
<1>3. \A i \in DOMAIN Append(s, e) : i \in DOMAIN s \/ i = Len(s) + 1
  BY <1>2
<1>4. DOMAIN s \subseteq DOMAIN Append(s, e) /\ Len(s) + 1 \in DOMAIN Append(s, e)
  BY <1>2
<1>5. ToSet(Append(s, e)) = ToSet(s) \cup {e}
  BY <1>1, <1>2, <1>3, <1>4 DEF ToSet
<1>6. IsInjective(s) /\ e \notin ToSet(s) => IsInjective(Append(s, e))
  BY <1>1, <1>2, <1>3 DEF ToSet, IsInjective
<1> QED BY <1>1, <1>5, <1>6

(* A queue cut down to its bound keeps the packet that has just joined. *)
LEMMA Trimmed ==
  ASSUME NEW s \in Seq(Packets), NEW p \in Packets, Len(s) <= MAX_BUFFERED_PKTS
  PROVE  /\ Bounded(Append(s, p)) \in Seq(Packets)
         /\ Len(Bounded(Append(s, p))) <= MAX_BUFFERED_PKTS
         /\ ToSet(Bounded(Append(s, p))) \subseteq ToSet(s) \cup {p}
         /\ p \in ToSet(Bounded(Append(s, p)))
         /\ IsInjective(s) /\ p \notin ToSet(s) => IsInjective(Bounded(Append(s, p)))
<1> DEFINE t == Append(s, p)
           L == Len(t)
           m == L - MAX_BUFFERED_PKTS + 1
<1> USE ConstantsAreNumbers
<1>1. /\ t \in Seq(Packets) /\ L = Len(s) + 1 /\ Len(s) \in Nat
      /\ ToSet(t) = ToSet(s) \cup {p} /\ t[L] = p
      /\ IsInjective(s) /\ p \notin ToSet(s) => IsInjective(t)
  BY OneJoins, ElementsOf
<1>2. DOMAIN t = 1 .. L
  BY <1>1, ElementsOf
<1> HIDE DEF t, L
<1>3. CASE L <= MAX_BUFFERED_PKTS
  <2>1. Bounded(t) = t
    BY <1>1, <1>3 DEF Bounded, L
  <2> QED BY <1>1, <1>3, <2>1 DEF t, L
<1>4. CASE L > MAX_BUFFERED_PKTS
  <2>1. Bounded(t) = SubSeq(t, m, L) /\ m \in 1 .. L + 1 /\ L \in 0 .. L /\ m <= L /\ L \in Nat
    <3>1. Bounded(t) = SubSeq(t, Len(t) - MAX_BUFFERED_PKTS + 1, Len(t))
      BY <1>4 DEF Bounded, L
    <3>2. m \in 1 .. L + 1 /\ L \in 0 .. L /\ m <= L /\ L \in Nat
      BY <1>1, <1>4
    <3> QED BY <3>1, <3>2 DEF L
  <2>2. /\ SubSeq(t, m, L) \in Seq(Packets)
        /\ \A i \in DOMAIN SubSeq(t, m, L) :
             i + (m - 1) \in DOMAIN t /\ SubSeq(t, m, L)[i] = t[i + (m - 1)]
        /\ Len(SubSeq(t, m, L)) = L - m + 1
    BY <1>1, <2>1, PieceOf DEF L
  <2>3. /\ DOMAIN SubSeq(t, m, L) = 1 .. L - m + 1 /\ L - m + 1 = MAX_BUFFERED_PKTS
        /\ L - m + 1 \in DOMAIN SubSeq(t, m, L) /\ (L - m + 1) + (m - 1) = L
    BY <2>1, <2>2, LenProperties
  <2>4. p \in ToSet(SubSeq(t, m, L))
    <3>1. SubSeq(t, m, L)[L - m + 1] = p
      BY <1>1, <2>2, <2>3
    <3> QED BY <2>3, <3>1 DEF ToSet
  <2>5. ToSet(SubSeq(t, m, L)) \subseteq ToSet(t)
    BY <2>2 DEF ToSet
  <2>6. ASSUME IsInjective(t) PROVE IsInjective(SubSeq(t, m, L))
    <3> SUFFICES ASSUME NEW i \in DOMAIN SubSeq(t, m, L), NEW j \in DOMAIN SubSeq(t, m, L),
                        SubSeq(t, m, L)[i] = SubSeq(t, m, L)[j]
                 PROVE  i = j
      BY DEF IsInjective
    <3>1. i + (m - 1) = j + (m - 1)
      BY <2>2, <2>6 DEF IsInjective
    <3> QED BY <2>1, <2>3, <3>1
  <2> QED BY <1>1, <2>1, <2>2, <2>3, <2>4, <2>5, <2>6 DEF t
<1> QED BY <1>1, <1>3, <1>4

-----------------------------------------------------------------------------
(* The stream as a carrier of bodies. *)

Body(p)      == [pkt |-> p, part |-> "body"]
BodyIn(w, p) == Body(p) \in ToSet(w)
Once(w)      == \A i, j \in DOMAIN w : w[i].part = "body" /\ w[i] = w[j] => i = j

LEMMA InWireIsBodyIn ==
  /\ \A p : InWire(p) <=> BodyIn(wire, p)
  /\ BodiesOnce <=> Once(wire)
BY DEF InWire, BodyIn, Body, BodiesOnce, Once

LEMMA FrameUnits ==
  ASSUME NEW p \in Packets
  PROVE  /\ Frame(p) \in Seq(Units) /\ Len(Frame(p)) = 2
         /\ Frame(p)[1] = [pkt |-> p, part |-> "len"] /\ Frame(p)[2] = Body(p)
<1>1. [pkt |-> p, part |-> "len"] \in Units /\ Body(p) \in Units
  BY DEF Units, Body
<1> QED BY <1>1 DEF Frame, Body

LEMMA FrameJoins ==
  ASSUME NEW w \in Seq(Units), NEW p \in Packets
  PROVE  /\ w \o Frame(p) \in Seq(Units) /\ Len(w \o Frame(p)) = Len(w) + 2
         /\ \A i \in 1 .. Len(w) : (w \o Frame(p))[i] = w[i]
         /\ (w \o Frame(p))[Len(w) + 1] = [pkt |-> p, part |-> "len"]
         /\ (w \o Frame(p))[Len(w) + 2] = Body(p)
<1>1. /\ Frame(p) \in Seq(Units) /\ Len(Frame(p)) = 2
      /\ Frame(p)[1] = [pkt |-> p, part |-> "len"] /\ Frame(p)[2] = Body(p)
  BY FrameUnits
<1>2. /\ w \o Frame(p) \in Seq(Units)
      /\ Len(w \o Frame(p)) = Len(w) + Len(Frame(p))
      /\ \A i \in 1 .. Len(w) + Len(Frame(p)) : (w \o Frame(p))[i] =
           IF i <= Len(w) THEN w[i] ELSE Frame(p)[i - Len(w)]
  BY <1>1, ConcatProperties, Zenon
<1>3. Len(w) \in Nat
  BY LenProperties
<1> DEFINE L == Len(w)
<1>4. /\ L + 1 \in 1 .. L + 2 /\ L + 2 \in 1 .. L + 2 /\ (L + 1) - L = 1
      /\ (L + 2) - L = 2 /\ ~(L + 1 <= L) /\ ~(L + 2 <= L)
      /\ \A i \in 1 .. L : i \in 1 .. L + 2 /\ i <= L
  BY <1>3
<1> QED BY <1>1, <1>2, <1>4

LEMMA BodyJoins ==
  ASSUME NEW w \in Seq(Units), NEW p \in Packets
  PROVE  /\ \A q : BodyIn(w \o Frame(p), q) <=> BodyIn(w, q) \/ q = p
         /\ Once(w) /\ ~BodyIn(w, p) => Once(w \o Frame(p))
<1> DEFINE t == w \o Frame(p)
           L == Len(w)
<1>1. /\ t \in Seq(Units) /\ Len(t) = L + 2 /\ L \in Nat
      /\ \A i \in 1 .. L : t[i] = w[i]
      /\ t[L + 1] = [pkt |-> p, part |-> "len"] /\ t[L + 2] = Body(p)
  BY FrameJoins, LenProperties
<1>2. DOMAIN t = 1 .. L + 2 /\ DOMAIN w = 1 .. L
  BY <1>1, LenProperties
<1> HIDE DEF t, L
<1>3. \A i \in DOMAIN t : i \in DOMAIN w \/ i = L + 1 \/ i = L + 2
  BY <1>1, <1>2
<1>4. DOMAIN w \subseteq DOMAIN t /\ L + 2 \in DOMAIN t
  BY <1>1, <1>2
<1>5. t[L + 1] # Body(p) /\ t[L + 1].part # "body"
  BY <1>1 DEF Body
<1>6. \A q : BodyIn(t, q) <=> BodyIn(w, q) \/ q = p
  <2> SUFFICES ASSUME NEW q PROVE BodyIn(t, q) <=> BodyIn(w, q) \/ q = p
    OBVIOUS
  <2>1. ASSUME BodyIn(t, q) PROVE BodyIn(w, q) \/ q = p
    <3>1. PICK i \in DOMAIN t : t[i] = Body(q)
      BY <2>1 DEF BodyIn, ToSet
    <3>2. CASE i \in DOMAIN w
      BY <1>1, <1>2, <3>1, <3>2 DEF BodyIn, ToSet
    <3>3. CASE i = L + 1
      BY <1>5, <3>1, <3>3 DEF Body
    <3>4. CASE i = L + 2
      BY <1>1, <3>1, <3>4 DEF Body
    <3> QED BY <1>3, <3>2, <3>3, <3>4
  <2>2. ASSUME BodyIn(w, q) PROVE BodyIn(t, q)
    <3>1. PICK i \in DOMAIN w : w[i] = Body(q)
      BY <2>2 DEF BodyIn, ToSet
    <3>2. t[i] = Body(q) /\ i \in DOMAIN t
      BY <1>1, <1>2, <1>4, <3>1
    <3> QED BY <3>2 DEF BodyIn, ToSet
  <2>3. q = p => BodyIn(t, q)
    BY <1>1, <1>4 DEF BodyIn, ToSet
  <2> QED BY <2>1, <2>2, <2>3
<1>7. ASSUME Once(w), ~BodyIn(w, p) PROVE Once(t)
  <2>1. \A i \in DOMAIN w : w[i] # Body(p)
    BY <1>7 DEF BodyIn, ToSet
  <2> QED BY <1>1, <1>2, <1>3, <1>5, <1>7, <2>1 DEF Once
<1> QED BY <1>6, <1>7 DEF t

(* A send() that lacks room takes a header at most. *)
LEMMA HeaderJoins ==
  ASSUME NEW w \in Seq(Units), NEW p \in Packets, NEW k \in 0 .. 1
  PROVE  LET t == w \o SubSeq(Frame(p), 1, k)
         IN /\ t \in Seq(Units) /\ Len(t) = Len(w) + k
            /\ \A q : BodyIn(t, q) <=> BodyIn(w, q)
            /\ Once(w) => Once(t)
            /\ k = 0 => t = w
<1> DEFINE f == SubSeq(Frame(p), 1, k)
           t == w \o f
           L == Len(w)
<1>1. /\ f \in Seq(Units) /\ Len(f) = k
      /\ \A i \in DOMAIN f : i \in DOMAIN Frame(p) /\ f[i] = Frame(p)[i]
  <2>0. Frame(p) \in Seq(Units) /\ Len(Frame(p)) = 2
    BY FrameUnits
  <2>1. 1 \in 1 .. Len(Frame(p)) + 1 /\ k \in 0 .. Len(Frame(p))
    BY <2>0
  <2>2. /\ f \in Seq(Units)
        /\ \A i \in DOMAIN f : i + (1 - 1) \in DOMAIN Frame(p) /\ f[i] = Frame(p)[i + (1 - 1)]
        /\ Len(f) = IF 1 <= k THEN k - 1 + 1 ELSE 0
    BY <2>0, <2>1, PieceOf
  <2>3. Len(f) = k /\ DOMAIN f = 1 .. k
    BY <2>2, LenProperties
  <2> QED BY <2>2, <2>3
<1>2. /\ t \in Seq(Units) /\ Len(t) = L + k /\ L \in Nat
      /\ \A i \in 1 .. L + k : t[i] = IF i <= L THEN w[i] ELSE f[i - L]
  <2>1. /\ w \o f \in Seq(Units) /\ Len(w \o f) = Len(w) + Len(f)
        /\ \A i \in 1 .. Len(w) + Len(f) : (w \o f)[i] = IF i <= Len(w) THEN w[i] ELSE f[i - Len(w)]
    <3> HIDE DEF f
    <3> QED BY <1>1, ConcatProperties, Zenon
  <2>2. Len(w) \in Nat
    BY LenProperties
  <2> QED BY <1>1, <2>1, <2>2
<1>3. DOMAIN t = 1 .. L + k /\ DOMAIN w = 1 .. L
  BY <1>2, LenProperties
<1>4. \A i \in DOMAIN f : f[i].part # "body"
  <2>1. \A i \in DOMAIN f : i = 1
    BY <1>1, LenProperties
  <2>2. Frame(p)[1] = [pkt |-> p, part |-> "len"]
    BY FrameUnits
  <2>3. Frame(p)[1].part # "body"
    BY <2>2
  <2> QED BY <1>1, <2>1, <2>3
<1>5. k = 0 => t = w
  BY <1>2, <1>3, SeqEqual
<1> HIDE DEF t, L, f
<1>6. /\ \A i \in DOMAIN w : i \in DOMAIN t /\ t[i] = w[i]
      /\ \A i \in DOMAIN t : i \in DOMAIN w \/ t[i].part # "body"
  <2>1. \A i \in DOMAIN w : i \in DOMAIN t /\ t[i] = w[i]
    BY <1>2, <1>3
  <2>2. ASSUME NEW i \in DOMAIN t, i \notin DOMAIN w PROVE t[i].part # "body"
    <3>1. i \in 1 .. L + k /\ ~(i <= L) /\ i - L \in 1 .. k
      BY <1>2, <1>3, <2>2
    <3>2. i - L \in DOMAIN f
      BY <1>1, <3>1, LenProperties
    <3> QED BY <1>2, <1>4, <3>1, <3>2
  <2> QED BY <2>1, <2>2
<1>7. \A q : BodyIn(t, q) <=> BodyIn(w, q)
  <2> SUFFICES ASSUME NEW q PROVE BodyIn(t, q) <=> BodyIn(w, q)
    OBVIOUS
  <2>1. Body(q).part = "body"
    BY DEF Body
  <2> QED BY <1>6, <2>1 DEF BodyIn, ToSet
<1>8. Once(w) => Once(t)
  BY <1>6 DEF Once
<1> QED BY <1>2, <1>5, <1>7, <1>8 DEF t, f, L

(* A prefix is left by a break ... *)
LEMMA PrefixLeft ==
  ASSUME NEW w \in Seq(Units), NEW k \in 0 .. Len(w)
  PROVE  /\ SubSeq(w, 1, k) \in Seq(Units) /\ Len(SubSeq(w, 1, k)) = k
         /\ \A i \in 1 .. k : SubSeq(w, 1, k)[i] = w[i]
         /\ \A q : BodyIn(SubSeq(w, 1, k), q) => BodyIn(w, q)
         /\ Once(w) => Once(SubSeq(w, 1, k))
<1>0. 1 \in 1 .. Len(w) + 1 /\ Len(w) \in Nat
  BY LenProperties
<1>1. /\ SubSeq(w, 1, k) \in Seq(Units)
      /\ \A i \in DOMAIN SubSeq(w, 1, k) :
           i + (1 - 1) \in DOMAIN w /\ SubSeq(w, 1, k)[i] = w[i + (1 - 1)]
      /\ Len(SubSeq(w, 1, k)) = IF 1 <= k THEN k - 1 + 1 ELSE 0
  BY <1>0, PieceOf
<1>2. Len(SubSeq(w, 1, k)) = k /\ DOMAIN SubSeq(w, 1, k) = 1 .. k
  BY <1>0, <1>1, LenProperties
<1>3. \A i \in DOMAIN SubSeq(w, 1, k) : i \in DOMAIN w /\ SubSeq(w, 1, k)[i] = w[i]
  BY <1>1, <1>2
<1> QED BY <1>1, <1>2, <1>3 DEF BodyIn, ToSet, Once

(* ... and all but the first unit by a read. *)
LEMMA UnitLeaves ==
  ASSUME NEW w \in Seq(Units), w # <<>>
  PROVE  /\ Tail(w) \in Seq(Units) /\ Len(Tail(w)) = Len(w) - 1 /\ Head(w) \in Units
         /\ \A q : BodyIn(Tail(w), q) => BodyIn(w, q)
         /\ \A q : BodyIn(w, q) => BodyIn(Tail(w), q) \/ Head(w) = Body(q)
         /\ Once(w) => Once(Tail(w))
         /\ \A q : Once(w) /\ Head(w) = Body(q) => ~BodyIn(Tail(w), q)
<1>1. /\ Head(w) \in Units /\ Head(w) = w[1] /\ 1 \in DOMAIN w
      /\ Tail(w) \in Seq(Units) /\ Len(Tail(w)) = Len(w) - 1
      /\ \A i \in DOMAIN Tail(w) : i + 1 \in DOMAIN w /\ Tail(w)[i] = w[i + 1] /\ i \in Nat
      /\ ToSet(w) = ToSet(Tail(w)) \cup {Head(w)}
  BY HeadLeaves
<1>2. ASSUME Once(w) PROVE Once(Tail(w))
  <2> SUFFICES ASSUME NEW i \in DOMAIN Tail(w), NEW j \in DOMAIN Tail(w),
                      Tail(w)[i].part = "body", Tail(w)[i] = Tail(w)[j]
               PROVE  i = j
    BY DEF Once
  <2>1. i + 1 = j + 1 /\ i \in Nat /\ j \in Nat
    BY <1>1, <1>2 DEF Once
  <2> QED BY <2>1
<1>3. ASSUME NEW q, Once(w), Head(w) = Body(q) PROVE ~BodyIn(Tail(w), q)
  <2> SUFFICES ASSUME NEW i \in DOMAIN Tail(w), Tail(w)[i] = Body(q) PROVE FALSE
    BY DEF BodyIn, ToSet
  <2>1. w[i + 1] = w[1] /\ w[1].part = "body" /\ i + 1 \in DOMAIN w /\ i \in DOMAIN Tail(w)
    BY <1>1, <1>3 DEF Body
  <2>2. i + 1 = 1
    BY <1>1, <1>3, <2>1 DEF Once
  <2>3. DOMAIN Tail(w) = 1 .. Len(Tail(w))
    BY <1>1, LenProperties
  <2> QED BY <1>1, <2>2, <2>3
<1> QED BY <1>1, <1>2, <1>3 DEF BodyIn

-----------------------------------------------------------------------------
(* What the outcomes of a send do to the stream. *)

LEMMA WholeFrameSent ==
  ASSUME TunnelTypeOK, NEW c, NEW p \in Packets, SendsWhole(c, p)
  PROVE  /\ wire' \in Seq(Units) /\ Len(wire') <= TcpCap /\ torn' = torn
         /\ \A q : BodyIn(wire', q) <=> BodyIn(wire, q) \/ (q = p /\ Live(c))
         /\ Once(wire) /\ ~BodyIn(wire, p) => Once(wire')
         /\ wire' = IF Live(c) THEN wire \o Frame(p) ELSE wire
<1>1. /\ wire \in Seq(Units) /\ Len(wire) <= TcpCap /\ torn' = torn /\ Len(wire) \in Nat
      /\ TcpCap \in Nat
  BY ConstantsAreNumbers, LenProperties DEF TunnelTypeOK, SendsWhole
<1>2. CASE Live(c)
  <2>1. Room >= Len(Frame(p)) /\ wire' = wire \o Frame(p)
    BY <1>2 DEF SendsWhole
  <2>2. wire' \in Seq(Units) /\ Len(wire') = Len(wire) + 2 /\ Len(Frame(p)) = 2
    BY <1>1, <2>1, FrameJoins, FrameUnits
  <2>3. Len(wire') <= TcpCap
    BY <1>1, <2>1, <2>2 DEF Room
  <2>4. /\ \A q : BodyIn(wire', q) <=> BodyIn(wire, q) \/ q = p
        /\ Once(wire) /\ ~BodyIn(wire, p) => Once(wire')
    BY <1>1, <2>1, BodyJoins
  <2> QED BY <1>1, <1>2, <2>1, <2>2, <2>3, <2>4
<1>3. CASE ~Live(c)
  <2>1. wire' = wire
    BY <1>3 DEF SendsWhole
  <2> QED BY <1>1, <1>3, <2>1
<1> QED BY <1>2, <1>3

LEMMA SendStops ==
  ASSUME TunnelTypeOK, NEW c, NEW p \in Packets, SendBlocks(c, p) \/ SendFails(c)
  PROVE  /\ wire' \in Seq(Units) /\ Len(wire') <= TcpCap /\ torn' \in BOOLEAN
         /\ \A q : BodyIn(wire', q) <=> BodyIn(wire, q)
         /\ Once(wire) => Once(wire')
         /\ torn => torn'
         /\ ~torn' => wire' = wire
<1>1. /\ wire \in Seq(Units) /\ Len(wire) <= TcpCap /\ torn \in BOOLEAN /\ Len(wire) \in Nat
      /\ TcpCap \in Nat
  BY ConstantsAreNumbers, LenProperties DEF TunnelTypeOK
<1>2. CASE UNCHANGED bytes
  <2>1. wire' = wire /\ torn' = torn
    BY <1>2 DEF bytes
  <2> QED BY <1>1, <2>1
<1>3. CASE Live(c) /\ SendBlocks(c, p)
  <2>1. Room < Len(Frame(p)) /\ Len(Frame(p)) = 2
    BY <1>3, FrameUnits DEF SendBlocks
  <2>2. PICK k \in 0 .. Room : /\ wire' = wire \o SubSeq(Frame(p), 1, k)
                               /\ torn' = (torn \/ k > 0)
    BY <1>3 DEF SendBlocks
  <2>3. k \in 0 .. 1 /\ k <= TcpCap - Len(wire)
    BY <1>1, <2>1, <2>2 DEF Room
  <2>4. /\ wire' \in Seq(Units) /\ Len(wire') = Len(wire) + k
        /\ \A q : BodyIn(wire', q) <=> BodyIn(wire, q)
        /\ Once(wire) => Once(wire')
        /\ k = 0 => wire' = wire
    BY <1>1, <2>2, <2>3, HeaderJoins
  <2>5. Len(wire') <= TcpCap
    BY <1>1, <2>3, <2>4
  <2>6. torn' \in BOOLEAN /\ (torn => torn') /\ (k # 0 => torn')
    <3>1. k # 0 => k > 0
      BY <2>3
    <3> QED BY <1>1, <2>2, <3>1, Zenon
  <2> QED BY <2>4, <2>5, <2>6, Zenon
<1> QED BY <1>2, <1>3 DEF SendBlocks, SendFails

-----------------------------------------------------------------------------
(* The types. *)

LEMMA FateTyped ==
  ASSUME NEW seq, NEW p, NEW what \in Fates, fate \in [Packets -> Fates]
  PROVE  FateAfter(seq, p, what) \in [Packets -> Fates]
BY DEF FateAfter, Fates

LEMMA DeviceKeepsTypes ==
  ASSUME DataTypeOK, ConnsKnown, DeviceStep
  PROVE  DataTypeOK'
<1> USE ConstantsAreNumbers
<1> USE DEF DataTypeOK, TunnelTypeOK, DeviceTypeOK, HostTypeOK, DeviceStep, host, Conns, None
<1>1. CASE Select
  <2>1. server_ready' \in BOOLEAN /\ conn_ready' \in Conns \cup {None}
    BY <1>1 DEF Select
  <2>2. tcp_conn' \in Conns \cup {None}
    BY <1>1 DEF Select
  <2>3. pending_queue' \in Seq(Packets) /\ Len(pending_queue') <= MAX_BUFFERED_PKTS
    <3>1. <<>> \in Seq(Packets) /\ Len(<<>>) = 0
      BY EmptyQueue
    <3>2. pending_queue' = pending_queue \/ pending_queue' = <<>>
      BY <1>1 DEF Select
    <3>3. CASE pending_queue' = pending_queue
      BY <3>3
    <3>4. CASE pending_queue' = <<>>
      BY <3>1, <3>4
    <3> QED BY <3>2, <3>3, <3>4
  <2>4. UNCHANGED <<conns, open, backlog, wire, torn, sent, udp_rcv, udp_buffer, fate, taken>>
        /\ phase' = "accept"
    BY <1>1 DEF Select, tunnel, bytes
  <2> QED BY <2>1, <2>2, <2>3, <2>4
<1>2. CASE NoConnection
  BY <1>2 DEF NoConnection, tunnel, bytes
<1>3. CASE Accept
  <2>1. Head(backlog) \in Conns /\ Tail(backlog) \in Seq(Conns)
    BY <1>3, HeadLeaves DEF Accept, ConnsKnown
  <2> QED BY <1>3, <2>1 DEF Accept, bytes
<1>4. CASE FlushOne
  <2>1. /\ Head(udp_buffer) \in Packets /\ Tail(udp_buffer) \in Seq(Packets)
        /\ Len(Tail(udp_buffer)) <= MAX_BUFFERED_PKTS
    <3>1. /\ Head(udp_buffer) \in Packets /\ Tail(udp_buffer) \in Seq(Packets)
          /\ Len(Tail(udp_buffer)) = Len(udp_buffer) - 1 /\ Len(udp_buffer) \in Nat
      BY <1>4, HeadLeaves, LenProperties DEF FlushOne
    <3> QED BY <3>1
  <2>2. wire' \in Seq(Units) /\ Len(wire') <= TcpCap /\ torn' = torn
    <3>1. TunnelTypeOK /\ SendsWhole(tcp_conn, Head(udp_buffer))
      BY <1>4 DEF FlushOne
    <3> QED BY <2>1, <3>1, WholeFrameSent
  <2>3. fate' \in [Packets -> Fates]
    BY <1>4 DEF FlushOne, Fates
  <2> QED BY <1>4, <2>1, <2>2, <2>3 DEF FlushOne
<1>5. CASE FlushEnds
  <2>1. wire' \in Seq(Units) /\ Len(wire') <= TcpCap /\ torn' \in BOOLEAN
    <3>1. CASE UNCHANGED bytes
      BY <3>1 DEF bytes
    <3>2. CASE /\ udp_buffer # <<>>
               /\ SendBlocks(tcp_conn, Head(udp_buffer)) \/ SendFails(tcp_conn)
      <4>1. Head(udp_buffer) \in Packets
        BY <3>2, HeadLeaves
      <4> QED BY <3>2, <4>1, SendStops
    <3> QED BY <1>5, <3>1, <3>2 DEF FlushEnds
  <2> QED BY <1>5, <2>1, EmptyQueue DEF FlushEnds
<1>6. CASE UdpEmpty
  BY <1>6 DEF UdpEmpty, tunnel, bytes
<1>7. CASE ReadConnected
  <2> DEFINE data == Head(udp_rcv)
  <2>1. data \in Packets /\ udp_rcv' \in Seq(Packets) /\ Len(udp_rcv') <= UdpCap
    <3>1. /\ Head(udp_rcv) \in Packets /\ Tail(udp_rcv) \in Seq(Packets)
          /\ Len(Tail(udp_rcv)) = Len(udp_rcv) - 1 /\ Len(udp_rcv) \in Nat
      BY <1>7, HeadLeaves, LenProperties DEF ReadConnected
    <3> QED BY <1>7, <3>1 DEF ReadConnected
  <2> HIDE DEF data
  <2>2. CASE /\ SendsWhole(tcp_conn, data) /\ fate' = [fate EXCEPT ![data] = "handed"]
             /\ UNCHANGED <<tcp_conn, udp_buffer, pending_queue>>
    <3>1. wire' \in Seq(Units) /\ Len(wire') <= TcpCap /\ torn' = torn
      BY <2>1, <2>2, WholeFrameSent
    <3>2. fate' \in [Packets -> Fates]
      BY <2>2 DEF Fates
    <3> QED BY <1>7, <2>1, <2>2, <3>1, <3>2 DEF ReadConnected, data
  <2>3. CASE /\ SendBlocks(tcp_conn, data) /\ Defer(data)
             /\ UNCHANGED <<tcp_conn, udp_buffer>>
    <3>1. wire' \in Seq(Units) /\ Len(wire') <= TcpCap /\ torn' \in BOOLEAN
      BY <2>1, <2>3, SendStops
    <3>2. pending_queue' \in Seq(Packets) /\ Len(pending_queue') <= MAX_BUFFERED_PKTS
      BY <2>1, <2>3, Trimmed DEF Defer
    <3>3. fate' \in [Packets -> Fates]
      BY <2>3, FateTyped DEF Defer, Fates
    <3> QED BY <1>7, <2>1, <2>3, <3>1, <3>2, <3>3 DEF ReadConnected, data
  <2>4. CASE /\ SendFails(tcp_conn) /\ tcp_conn' = None /\ pending_queue' = <<>>
             /\ Park(data)
    <3>1. wire' = wire /\ torn' = torn
      BY <2>4 DEF SendFails, bytes
    <3>2. udp_buffer' \in Seq(Packets) /\ Len(udp_buffer') <= MAX_BUFFERED_PKTS
      BY <2>1, <2>4, Trimmed DEF Park
    <3>3. fate' \in [Packets -> Fates]
      BY <2>4, FateTyped DEF Park, Fates
    <3> QED BY <1>7, <2>1, <2>4, <3>1, <3>2, <3>3, EmptyQueue DEF ReadConnected, data
  <2> QED BY <1>7, <2>2, <2>3, <2>4 DEF ReadConnected, data
<1>8. CASE ReadUnconnected
  <2>1. /\ Head(udp_rcv) \in Packets /\ Tail(udp_rcv) \in Seq(Packets)
        /\ Len(Tail(udp_rcv)) = Len(udp_rcv) - 1 /\ Len(udp_rcv) \in Nat
    BY <1>8, HeadLeaves, LenProperties DEF ReadUnconnected
  <2>2. udp_buffer' \in Seq(Packets) /\ Len(udp_buffer') <= MAX_BUFFERED_PKTS
    BY <1>8, <2>1, Trimmed DEF ReadUnconnected, Park
  <2>3. fate' \in [Packets -> Fates]
    BY <1>8, FateTyped DEF ReadUnconnected, Park, Fates
  <2> QED BY <1>8, <2>1, <2>2, <2>3 DEF ReadUnconnected, tunnel, bytes
<1>9. CASE RetryOne
  <2>1. /\ Head(pending_queue) \in Packets /\ Tail(pending_queue) \in Seq(Packets)
        /\ Len(Tail(pending_queue)) = Len(pending_queue) - 1 /\ Len(pending_queue) \in Nat
    BY <1>9, HeadLeaves, LenProperties DEF RetryOne
  <2>2. wire' \in Seq(Units) /\ Len(wire') <= TcpCap /\ torn' = torn
    <3>1. TunnelTypeOK /\ SendsWhole(tcp_conn, Head(pending_queue))
      BY <1>9 DEF RetryOne
    <3> QED BY <2>1, <3>1, WholeFrameSent
  <2>3. fate' \in [Packets -> Fates]
    BY <1>9 DEF RetryOne, Fates
  <2> QED BY <1>9, <2>1, <2>2, <2>3 DEF RetryOne
<1>10. CASE RetryEnds
  <2>1. wire' \in Seq(Units) /\ Len(wire') <= TcpCap /\ torn' \in BOOLEAN
    <3>1. CASE UNCHANGED bytes
      BY <3>1 DEF bytes
    <3>2. CASE /\ pending_queue # <<>>
               /\ SendBlocks(tcp_conn, Head(pending_queue)) \/ SendFails(tcp_conn)
      <4>1. Head(pending_queue) \in Packets
        BY <3>2, HeadLeaves
      <4> QED BY <3>2, <4>1, SendStops
    <3> QED BY <1>10, <3>1, <3>2 DEF RetryEnds
  <2> QED BY <1>10, <2>1 DEF RetryEnds
<1>11. CASE HealthCheck
  BY <1>11 DEF HealthCheck, tunnel, bytes
<1> QED BY <1>1, <1>2, <1>3, <1>4, <1>5, <1>6, <1>7, <1>8, <1>9, <1>10, <1>11 DEF data_channel

LEMMA EmitKeepsTypes ==
  ASSUME DataTypeOK, SenderEmits, UNCHANGED host
  PROVE  DataTypeOK'
<1> USE ConstantsAreNumbers
<1> USE DEF DataTypeOK, TunnelTypeOK, DeviceTypeOK, HostTypeOK, host
<1>1. sent + 1 \in Packets /\ sent' \in 0 .. MaxPkts
  BY DEF SenderEmits, Packets
<1>2. udp_rcv' \in Seq(Packets) /\ Len(udp_rcv') <= UdpCap
  <2>1. /\ Append(udp_rcv, sent + 1) \in Seq(Packets)
        /\ Len(Append(udp_rcv, sent + 1)) = Len(udp_rcv) + 1 /\ Len(udp_rcv) \in Nat
    BY <1>1, OneJoins, LenProperties
  <2>2. CASE Len(udp_rcv) < UdpCap
    <3>1. udp_rcv' = Append(udp_rcv, sent + 1)
      BY <2>2 DEF SenderEmits
    <3> QED BY <2>1, <2>2, <3>1
  <2>3. CASE ~(Len(udp_rcv) < UdpCap)
    <3>1. udp_rcv' = udp_rcv
      BY <2>3 DEF SenderEmits
    <3> QED BY <3>1
  <2> QED BY <2>2, <2>3
<1>3. fate' \in [Packets -> Fates]
  BY DEF SenderEmits, Fates
<1> QED BY <1>1, <1>2, <1>3 DEF SenderEmits, tunnel, bytes

LEMMA HostKeepsTypes ==
  ASSUME DataTypeOK, HostReads \/ HostClosesOrConnects
  PROVE  DataTypeOK'
<1> USE ConstantsAreNumbers
<1> USE DEF DataTypeOK, TunnelTypeOK, DeviceTypeOK, HostTypeOK, device, Conns,
            HostReads, HostClosesOrConnects
<1>1. <<>> \in Seq(Units) /\ Len(<<>>) = 0
  BY EmptyQueue
<1>2. ASSUME ReadUnit
      PROVE  /\ Head(wire) \in Units /\ wire' \in Seq(Units) /\ Len(wire') <= TcpCap
             /\ UNCHANGED <<conns, open, backlog, torn, linked>>
             /\ <<Head(wire)>> \in Seq(Units) /\ Len(<<Head(wire)>>) = 1
  <2>1. /\ Head(wire) \in Units /\ Tail(wire) \in Seq(Units)
        /\ Len(Tail(wire)) = Len(wire) - 1 /\ Len(wire) \in Nat
    BY <1>2, UnitLeaves, LenProperties DEF ReadUnit
  <2> QED BY <1>2, <2>1 DEF ReadUnit
<1>3. CASE ReadHeader /\ UNCHANGED device
  <2>1. hdr' \in Seq(Units) /\ Len(hdr') <= 1
    <3>1. hdr' = <<Head(wire)>> \/ hdr' = hdr
      BY <1>3 DEF ReadHeader
    <3>2. ReadUnit
      BY <1>3 DEF ReadHeader
    <3>3. CASE hdr' = <<Head(wire)>>
      BY <1>2, <3>2, <3>3
    <3>4. CASE hdr' = hdr
      BY <3>4
    <3> QED BY <3>1, <3>3, <3>4
  <2> QED BY <1>2, <1>3, <2>1 DEF ReadHeader
<1>4. CASE ReadBody /\ UNCHANGED device
  <2>1. Head(wire).pkt \in Packets
    BY <1>2, <1>4 DEF ReadBody, Units
  <2>2. delivered' \in [Packets -> Nat]
    <3>1. \/ delivered' = delivered
          \/ delivered' = [delivered EXCEPT ![Head(wire).pkt] = @ + 1]
      BY <1>4 DEF ReadBody
    <3>2. delivered[Head(wire).pkt] + 1 \in Nat
      BY <2>1
    <3> QED BY <2>1, <3>1, <3>2
  <2>3. garbage' \in BOOLEAN
    BY <1>4 DEF ReadBody
  <2>4. hdr' \in Seq(Units) /\ Len(hdr') <= 1
    <3>1. hdr' = <<>>
      BY <1>4 DEF ReadBody
    <3> QED BY <1>1, <3>1
  <2> QED BY <1>2, <1>4, <2>2, <2>3, <2>4 DEF ReadBody
<1>5. CASE StreamEnds /\ UNCHANGED device
  BY <1>5 DEF StreamEnds, tunnel, bytes
<1>6. CASE Connect /\ UNCHANGED device
  <2>1. conns + 1 \in Conns /\ conns' \in 0 .. MaxConns
    BY <1>6 DEF Connect
  <2>2. backlog' \in Seq(Conns)
    BY <1>6, <2>1, OneJoins DEF Connect
  <2>3. hdr' \in Seq(Units) /\ Len(hdr') <= 1 /\ wire' \in Seq(Units) /\ Len(wire') <= TcpCap
    <3>1. hdr' = <<>> /\ wire' = <<>>
      BY <1>6 DEF Connect
    <3> QED BY <1>1, <3>1
  <2> QED BY <1>6, <2>1, <2>2, <2>3 DEF Connect
<1>7. CASE ReadTimesOut /\ UNCHANGED device
  BY <1>7 DEF ReadTimesOut, bytes
<1> QED BY <1>3, <1>4, <1>5, <1>6, <1>7

LEMMA BreakKeepsTypes ==
  ASSUME DataTypeOK, Break, UNCHANGED <<device, host>>
  PROVE  DataTypeOK'
<1> USE ConstantsAreNumbers
<1> USE DEF DataTypeOK, TunnelTypeOK, DeviceTypeOK, HostTypeOK, device, host
<1>1. wire' \in Seq(Units) /\ Len(wire') <= TcpCap
  <2>1. PICK k \in 0 .. Len(wire) : wire' = SubSeq(wire, 1, k)
    BY DEF Break
  <2>2. wire' \in Seq(Units) /\ Len(wire') = k /\ Len(wire) \in Nat
    BY <2>1, PrefixLeft, LenProperties
  <2> QED BY <2>2
<1> QED BY <1>1 DEF Break

LEMMA TypesKept ==
  ASSUME DataTypeOK, ConnsKnown, [Next]_vars
  PROVE  DataTypeOK'
<1>1. CASE UNCHANGED vars
  BY <1>1 DEF DataTypeOK, TunnelTypeOK, DeviceTypeOK, HostTypeOK, vars, tunnel, bytes, device, host
<1> QED BY <1>1, EmitKeepsTypes, DeviceKeepsTypes, HostKeepsTypes, BreakKeepsTypes DEF Next

(* A connection the device knows of has been made. *)
LEMMA ConnsKnownKept ==
  ASSUME DataTypeOK, ConnsKnown, [Next]_vars
  PROVE  ConnsKnown'
<1> USE ConstantsAreNumbers
<1> USE DEF DataTypeOK, TunnelTypeOK, DeviceTypeOK, Conns, None
<1>0. /\ conns \in Nat /\ tcp_conn \in Nat /\ tcp_conn <= conns
      /\ \A i \in DOMAIN backlog : backlog[i] <= conns /\ backlog[i] \in Nat
      /\ open => conns # None
      /\ phase = "accept" /\ server_ready => backlog # <<>>
      /\ phase = "flush" => taken = {}
  BY ElementsOf DEF ConnsKnown
<1>1. CASE UNCHANGED <<tunnel, tcp_conn, phase, server_ready, taken>>
  BY <1>0, <1>1 DEF ConnsKnown, tunnel, bytes
<1>2. CASE Select
  <2>1. UNCHANGED <<conns, open, backlog, taken>> /\ phase' = "accept"
    BY <1>2 DEF Select, tunnel, bytes
  <2>2. tcp_conn' = tcp_conn \/ tcp_conn' = 0
    BY <1>2 DEF Select
  <2>3. server_ready' => backlog' # <<>>
    BY <1>2, <2>1 DEF Select
  <2> QED BY <1>0, <2>1, <2>2, <2>3 DEF ConnsKnown
<1>3. CASE Accept
  <2>1. /\ Head(backlog) <= conns
        /\ \A i \in DOMAIN Tail(backlog) : i + 1 \in DOMAIN backlog /\ Tail(backlog)[i] = backlog[i + 1]
    BY <1>0, <1>3, HeadLeaves DEF Accept
  <2>2. \A i \in DOMAIN backlog' : backlog'[i] <= conns
    BY <1>0, <1>3, <2>1 DEF Accept
  <2> QED BY <1>0, <1>3, <2>1, <2>2 DEF Accept, ConnsKnown
<1>4. CASE FlushOne
  BY <1>0, <1>4 DEF FlushOne, ConnsKnown
<1>5. CASE FlushEnds
  BY <1>0, <1>5 DEF FlushEnds, ConnsKnown
<1>6. CASE NoConnection \/ UdpEmpty
  BY <1>0, <1>6 DEF NoConnection, UdpEmpty, tunnel, bytes, ConnsKnown
<1>7. CASE ReadConnected
  BY <1>0, <1>7 DEF ReadConnected, ConnsKnown
<1>8. CASE ReadUnconnected \/ HealthCheck
  BY <1>0, <1>8 DEF ReadUnconnected, HealthCheck, tunnel, bytes, ConnsKnown
<1>9. CASE RetryOne \/ RetryEnds
  BY <1>0, <1>9 DEF RetryOne, RetryEnds, ConnsKnown
<1>10. CASE Connect /\ UNCHANGED device
  <2>1. \A i \in DOMAIN backlog' : backlog'[i] <= conns + 1
    <3>0. conns + 1 \in Conns /\ backlog' = Append(backlog, conns + 1)
      BY <1>10 DEF Connect
    <3>1. /\ \A i \in 1 .. Len(backlog) : backlog'[i] = backlog[i]
          /\ backlog'[Len(backlog) + 1] = conns + 1
          /\ backlog' \in Seq(Conns) /\ Len(backlog') = Len(backlog) + 1
      BY <3>0, AppendProperties
    <3>2. /\ DOMAIN backlog' = 1 .. Len(backlog) + 1 /\ DOMAIN backlog = 1 .. Len(backlog)
          /\ Len(backlog) \in Nat
      BY <3>1, LenProperties
    <3> SUFFICES ASSUME NEW i \in DOMAIN backlog' PROVE backlog'[i] <= conns + 1
      OBVIOUS
    <3>3. CASE i = Len(backlog) + 1
      BY <1>0, <3>1, <3>3
    <3>4. CASE i \in DOMAIN backlog
      <4>1. backlog'[i] = backlog[i] /\ backlog[i] <= conns /\ backlog[i] \in Nat
        BY <1>0, <3>1, <3>2, <3>4
      <4> QED BY <1>0, <4>1
    <3> QED BY <3>2, <3>3, <3>4
  <2>2. backlog' # <<>>
    <3>1. conns + 1 \in Conns /\ backlog' = Append(backlog, conns + 1)
      BY <1>10 DEF Connect
    <3>2. Len(backlog') = Len(backlog) + 1 /\ Len(backlog) \in Nat
      BY <3>1, OneJoins, LenProperties
    <3>3. Len(<<>>) = 0
      BY EmptyQueue
    <3> QED BY <3>2, <3>3
  <2>3. /\ UNCHANGED <<tcp_conn, phase, server_ready, taken>> /\ conns' = conns + 1
        /\ conns + 1 # 0 /\ tcp_conn <= conns + 1
    BY <1>0, <1>10 DEF Connect, device
  <2> QED BY <1>0, <2>1, <2>2, <2>3 DEF ConnsKnown
<1>11. CASE ReadTimesOut /\ UNCHANGED device
  BY <1>0, <1>11 DEF ReadTimesOut, device, ConnsKnown
<1>12. CASE HostReads
  BY <1>0, <1>12 DEF HostReads, ReadHeader, ReadBody, ReadUnit, StreamEnds, tunnel, bytes,
                     device, ConnsKnown
<1>13. CASE Break /\ UNCHANGED <<device, host>>
  BY <1>0, <1>13 DEF Break, device, ConnsKnown
<1>14. CASE SenderEmits
  BY <1>1, <1>14 DEF SenderEmits
<1> QED BY <1>1, <1>2, <1>3, <1>4, <1>5, <1>6, <1>7, <1>8, <1>9, <1>10, <1>11, <1>12, <1>13, <1>14
     DEF Next, DeviceStep, data_channel, HostClosesOrConnects, vars, device

-----------------------------------------------------------------------------
(* Every packet in one place. *)

Less(q) ==
  /\ q \in ToSet(udp_rcv') => q \in ToSet(udp_rcv)
  /\ q \in ToSet(udp_buffer') => q \in ToSet(udp_buffer)
  /\ q \in ToSet(pending_queue') => q \in ToSet(pending_queue)
  /\ BodyIn(wire', q) => BodyIn(wire, q)
  /\ q \in taken' => q \in taken

Different ==
  /\ IsInjective(udp_rcv) /\ IsInjective(udp_buffer) /\ IsInjective(pending_queue)
  /\ Once(wire)

(* A step that neither takes a packet in nor delivers one. *)
Carries ==
  /\ UNCHANGED <<sent, delivered>>
  /\ \A q \in Packets : Held(q)' => Held(q)

LEMMA PlacementIs ==
  /\ Placement <=> Different /\ \A q \in Packets : OnePlace(q)
  /\ Placement' <=> Different' /\ \A q \in Packets : OnePlace(q)'
BY DEF Placement, Different, BodiesOnce, Once

LEMMA OneMoves ==
  ASSUME DataTypeOK, Placement, UNCHANGED <<sent, delivered>>, Different',
         NEW p, p \in Packets => Held(p) /\ OnePlace(p)',
         \A q \in Packets : q = p \/ Less(q)
  PROVE  Placement' /\ Carries
<1>1. ASSUME NEW q \in Packets, Less(q) PROVE OnePlace(q)' /\ (Held(q)' => Held(q))
  <2>1. OnePlace(q)
    BY DEF Placement
  <2> QED BY <1>1, <2>1 DEF OnePlace, Less, Held, InWire, BodyIn, Body
<1> QED BY <1>1, PlacementIs DEF Carries

LEMMA NoneMoves ==
  ASSUME DataTypeOK, Placement, UNCHANGED <<sent, delivered>>, Different',
         \A q \in Packets : Less(q)
  PROVE  Placement' /\ Carries
<1>1. PICK p : p \notin Packets
  <2>1. MaxPkts + 1 \notin Packets
    BY ConstantsAreNumbers DEF Packets
  <2> QED BY <2>1
<1> QED BY <1>1, OneMoves

(* The places of the packet that heads a queue. *)
LEMMA OnlyInBuffer ==
  ASSUME Placement, NEW p \in Packets, p \in ToSet(udp_buffer)
  PROVE  /\ p \notin ToSet(udp_rcv) /\ p \notin ToSet(pending_queue) /\ ~BodyIn(wire, p)
         /\ Held(p) /\ delivered[p] = 0 /\ p <= sent
<1>1. OnePlace(p)
  BY DEF Placement
<1> QED BY <1>1 DEF OnePlace, Held, InWire, BodyIn, Body

LEMMA OnlyArrived ==
  ASSUME Placement, NEW p \in Packets, p \in ToSet(udp_rcv)
  PROVE  /\ p \notin ToSet(udp_buffer) /\ p \notin ToSet(pending_queue) /\ ~BodyIn(wire, p)
         /\ Held(p) /\ delivered[p] = 0 /\ p <= sent
<1>1. OnePlace(p)
  BY DEF Placement
<1> QED BY <1>1 DEF OnePlace, Held, InWire, BodyIn, Body

LEMMA OnlyPending ==
  ASSUME Placement, NEW p \in Packets, p \in ToSet(pending_queue)
  PROVE  /\ p \notin ToSet(udp_rcv) /\ p \notin ToSet(udp_buffer) /\ ~BodyIn(wire, p)
         /\ Held(p) /\ delivered[p] = 0 /\ p <= sent
<1>1. OnePlace(p)
  BY DEF Placement
<1> QED BY <1>1 DEF OnePlace, Held, InWire, BodyIn, Body

(* A packet that is in at most one place after the step. *)
LEMMA InOnePlace ==
  ASSUME NEW p \in Packets, delivered'[p] = 0, p <= sent',
         ~(p \in ToSet(udp_rcv')),
         \/ ~(p \in ToSet(udp_buffer')) /\ ~(p \in ToSet(pending_queue'))
         \/ ~(p \in ToSet(udp_buffer')) /\ ~BodyIn(wire', p)
         \/ ~(p \in ToSet(pending_queue')) /\ ~BodyIn(wire', p)
  PROVE  OnePlace(p)'
BY DEF OnePlace, Held, InWire, BodyIn, Body

LEMMA FlushOneCarries ==
  ASSUME DataTypeOK, Placement, FlushOne, UNCHANGED host
  PROVE  Placement' /\ Carries
<1>0. PICK p : p = Head(udp_buffer)
  OBVIOUS
<1>1. /\ p \in Packets /\ p \in ToSet(udp_buffer) /\ p \notin ToSet(Tail(udp_buffer))
      /\ IsInjective(Tail(udp_buffer))
      /\ ToSet(udp_buffer) = ToSet(Tail(udp_buffer)) \cup {p}
  BY <1>0, HeadLeaves DEF DataTypeOK, DeviceTypeOK, FlushOne, Placement
<1>2. SendsWhole(tcp_conn, p) /\ udp_buffer' = Tail(udp_buffer)
  BY <1>0 DEF FlushOne
<1>3. UNCHANGED <<sent, delivered, udp_rcv, pending_queue, taken>>
  BY DEF FlushOne, host
<1>4. /\ p \notin ToSet(udp_rcv) /\ p \notin ToSet(pending_queue) /\ ~BodyIn(wire, p)
      /\ Held(p) /\ delivered[p] = 0 /\ p <= sent
  BY <1>1, OnlyInBuffer
<1>5. /\ \A q : BodyIn(wire', q) => BodyIn(wire, q) \/ q = p
      /\ Once(wire) => Once(wire')
  <2>1. TunnelTypeOK
    BY DEF DataTypeOK
  <2> QED BY <1>1, <1>2, <1>4, <2>1, WholeFrameSent
<1>6. Different'
  BY <1>1, <1>2, <1>3, <1>5, PlacementIs DEF Different
<1>7. \A q \in Packets : q = p \/ Less(q)
  BY <1>1, <1>2, <1>3, <1>5 DEF Less
<1>8. OnePlace(p)'
  <2>1. /\ delivered'[p] = 0 /\ p <= sent' /\ p \notin ToSet(udp_rcv')
        /\ p \notin ToSet(udp_buffer') /\ p \notin ToSet(pending_queue')
    BY <1>1, <1>2, <1>3, <1>4
  <2> QED BY <1>1, <2>1, InOnePlace
<1>9. UNCHANGED <<sent, delivered>> /\ (p \in Packets => Held(p) /\ OnePlace(p)')
  BY <1>3, <1>4, <1>8
<1> QED BY <1>6, <1>7, <1>9, OneMoves

LEMMA RetryOneCarries ==
  ASSUME DataTypeOK, Placement, RetryOne, UNCHANGED host
  PROVE  Placement' /\ Carries
<1>0. PICK p : p = Head(pending_queue)
  OBVIOUS
<1>1. /\ p \in Packets /\ p \in ToSet(pending_queue) /\ p \notin ToSet(Tail(pending_queue))
      /\ IsInjective(Tail(pending_queue))
      /\ ToSet(pending_queue) = ToSet(Tail(pending_queue)) \cup {p}
  BY <1>0, HeadLeaves DEF DataTypeOK, DeviceTypeOK, RetryOne, Placement
<1>2. SendsWhole(tcp_conn, p) /\ pending_queue' = Tail(pending_queue)
  BY <1>0 DEF RetryOne
<1>3. UNCHANGED <<sent, delivered, udp_rcv, udp_buffer, taken>>
  BY DEF RetryOne, host
<1>4. /\ p \notin ToSet(udp_rcv) /\ p \notin ToSet(udp_buffer) /\ ~BodyIn(wire, p)
      /\ Held(p) /\ delivered[p] = 0 /\ p <= sent
  BY <1>1, OnlyPending
<1>5. /\ \A q : BodyIn(wire', q) => BodyIn(wire, q) \/ q = p
      /\ Once(wire) => Once(wire')
  <2>1. TunnelTypeOK
    BY DEF DataTypeOK
  <2> QED BY <1>1, <1>2, <1>4, <2>1, WholeFrameSent
<1>6. Different'
  BY <1>1, <1>2, <1>3, <1>5, PlacementIs DEF Different
<1>7. \A q \in Packets : q = p \/ Less(q)
  BY <1>1, <1>2, <1>3, <1>5 DEF Less
<1>8. OnePlace(p)'
  <2>1. /\ delivered'[p] = 0 /\ p <= sent' /\ p \notin ToSet(udp_rcv')
        /\ p \notin ToSet(udp_buffer') /\ p \notin ToSet(pending_queue')
    BY <1>1, <1>2, <1>3, <1>4
  <2> QED BY <1>1, <2>1, InOnePlace
<1>9. UNCHANGED <<sent, delivered>> /\ (p \in Packets => Held(p) /\ OnePlace(p)')
  BY <1>3, <1>4, <1>8
<1> QED BY <1>6, <1>7, <1>9, OneMoves

LEMMA ReadsCarry ==
  ASSUME DataTypeOK, Placement, ReadConnected \/ ReadUnconnected, UNCHANGED host
  PROVE  Placement' /\ Carries
<1> USE DEF DataTypeOK, TunnelTypeOK, DeviceTypeOK
<1>0. PICK p : p = Head(udp_rcv)
  OBVIOUS
<1>1. /\ p \in Packets /\ p \in ToSet(udp_rcv) /\ p \notin ToSet(udp_rcv')
      /\ IsInjective(udp_rcv')
      /\ ToSet(udp_rcv) = ToSet(udp_rcv') \cup {p}
  <2>1. udp_rcv # <<>> /\ udp_rcv' = Tail(udp_rcv) /\ IsInjective(udp_rcv)
    BY DEF ReadConnected, ReadUnconnected, Placement
  <2> QED BY <1>0, <2>1, HeadLeaves
<1>2. /\ \A q \in taken' : q \in taken \/ q = p
      /\ UNCHANGED <<sent, delivered>>
  BY <1>0 DEF ReadConnected, ReadUnconnected, host
<1>3. /\ p \notin ToSet(udp_buffer) /\ p \notin ToSet(pending_queue) /\ ~BodyIn(wire, p)
      /\ Held(p) /\ delivered[p] = 0 /\ p <= sent
  BY <1>1, OnlyArrived
<1>4. Different
  BY PlacementIs
<1>5. SUFFICES /\ Different'
               /\ \A q \in Packets : q = p \/ Less(q)
               /\ \/ ~(p \in ToSet(udp_buffer')) /\ ~(p \in ToSet(pending_queue'))
                  \/ ~(p \in ToSet(udp_buffer')) /\ ~BodyIn(wire', p)
                  \/ ~(p \in ToSet(pending_queue')) /\ ~BodyIn(wire', p)
  <2>1. delivered'[p] = 0 /\ p <= sent'
    BY <1>2, <1>3
  <2>2. OnePlace(p)'
    BY <1>1, <1>5, <2>1, InOnePlace
  <2>3. UNCHANGED <<sent, delivered>> /\ (p \in Packets => Held(p) /\ OnePlace(p)')
    BY <1>2, <1>3, <2>2
  <2> QED BY <1>5, <2>3, OneMoves
<1>6. CASE SendsWhole(tcp_conn, p) /\ UNCHANGED <<udp_buffer, pending_queue>>
  <2>1. /\ \A q : BodyIn(wire', q) => BodyIn(wire, q) \/ q = p
        /\ Once(wire')
    <3>1. TunnelTypeOK /\ SendsWhole(tcp_conn, p) /\ Once(wire)
      BY <1>4, <1>6 DEF Different
    <3> QED BY <1>1, <1>3, <3>1, WholeFrameSent
  <2> QED BY <1>1, <1>2, <1>3, <1>4, <1>6, <2>1 DEF Different, Less
<1>7. CASE SendBlocks(tcp_conn, p) /\ Defer(p) /\ UNCHANGED udp_buffer
  <2>1. /\ \A q : BodyIn(wire', q) <=> BodyIn(wire, q)
        /\ Once(wire')
    <3>1. TunnelTypeOK /\ SendBlocks(tcp_conn, p) /\ Once(wire)
      BY <1>4, <1>7 DEF Different
    <3> QED BY <1>1, <3>1, SendStops
  <2>2. ToSet(pending_queue') \subseteq ToSet(pending_queue) \cup {p} /\ IsInjective(pending_queue')
    <3>1. IsInjective(pending_queue)
      BY <1>4 DEF Different
    <3> QED BY <1>1, <1>3, <1>7, <3>1, Trimmed DEF Defer
  <2> QED BY <1>1, <1>2, <1>3, <1>4, <1>7, <2>1, <2>2 DEF Different, Less
<1>8. CASE Park(p) /\ UNCHANGED wire /\ (pending_queue' = pending_queue \/ pending_queue' = <<>>)
  <2>1. ToSet(udp_buffer') \subseteq ToSet(udp_buffer) \cup {p} /\ IsInjective(udp_buffer')
    <3>1. IsInjective(udp_buffer)
      BY <1>4 DEF Different
    <3> QED BY <1>1, <1>3, <1>8, <3>1, Trimmed DEF Park
  <2>2. ToSet(pending_queue') \subseteq ToSet(pending_queue) /\ IsInjective(pending_queue')
    BY <1>4, <1>8, EmptyQueue DEF Different
  <2> QED BY <1>1, <1>2, <1>3, <1>4, <1>8, <2>1, <2>2 DEF Different, Less
<1>9. CASE ReadUnconnected
  BY <1>0, <1>8, <1>9 DEF ReadUnconnected, tunnel, bytes
<1>10. CASE ReadConnected
  BY <1>0, <1>6, <1>7, <1>8, <1>10 DEF ReadConnected, SendFails, bytes
<1> QED BY <1>9, <1>10

LEMMA QuietDeviceCarries ==
  ASSUME DataTypeOK, Placement, UNCHANGED host,
         \/ Select \/ NoConnection \/ Accept \/ FlushEnds \/ UdpEmpty \/ RetryEnds \/ HealthCheck
  PROVE  Placement' /\ Carries
<1> USE DEF DataTypeOK, TunnelTypeOK, DeviceTypeOK
<1>1. Different
  BY PlacementIs
<1>2. UNCHANGED <<sent, delivered, udp_rcv>>
  BY DEF Select, NoConnection, Accept, FlushEnds, UdpEmpty, RetryEnds, HealthCheck, host
<1>3. \A q \in taken' : q \in taken
  BY DEF Select, NoConnection, Accept, FlushEnds, UdpEmpty, RetryEnds, HealthCheck
<1>4. /\ udp_buffer' = udp_buffer \/ udp_buffer' = <<>>
      /\ pending_queue' = pending_queue \/ pending_queue' = <<>>
  BY DEF Select, NoConnection, Accept, FlushEnds, UdpEmpty, RetryEnds, HealthCheck
<1>5. /\ ToSet(udp_buffer') \subseteq ToSet(udp_buffer) /\ IsInjective(udp_buffer')
      /\ ToSet(pending_queue') \subseteq ToSet(pending_queue) /\ IsInjective(pending_queue')
  BY <1>1, <1>4, EmptyQueue DEF Different
<1>6. (\A q : BodyIn(wire', q) => BodyIn(wire, q)) /\ Once(wire')
  <2>1. TunnelTypeOK /\ Once(wire)
    BY <1>1 DEF Different
  <2>2. CASE UNCHANGED wire
    BY <2>1, <2>2
  <2>3. CASE \E p \in Packets : SendBlocks(tcp_conn, p) \/ SendFails(tcp_conn)
    <3>1. PICK p \in Packets : SendBlocks(tcp_conn, p) \/ SendFails(tcp_conn)
      BY <2>3
    <3> QED BY <2>1, <3>1, SendStops
  <2>4. CASE FlushEnds
    <3>1. udp_buffer # <<>> => Head(udp_buffer) \in Packets
      BY HeadLeaves
    <3> QED BY <2>2, <2>3, <2>4, <3>1 DEF FlushEnds, bytes
  <2>5. CASE RetryEnds
    <3>1. pending_queue # <<>> => Head(pending_queue) \in Packets
      BY HeadLeaves
    <3> QED BY <2>2, <2>3, <2>5, <3>1 DEF RetryEnds, bytes
  <2> QED BY <2>2, <2>4, <2>5 DEF Select, NoConnection, Accept, UdpEmpty, HealthCheck, tunnel, bytes
<1>7. Different' /\ \A q \in Packets : Less(q)
  BY <1>1, <1>2, <1>3, <1>5, <1>6 DEF Different, Less
<1>8. UNCHANGED <<sent, delivered>>
  BY <1>2
<1> QED BY <1>7, <1>8, NoneMoves

LEMMA TunnelCarries ==
  ASSUME DataTypeOK, Placement, UNCHANGED <<device, delivered>>,
         \/ ReadHeader \/ StreamEnds \/ Connect \/ ReadTimesOut \/ Break
  PROVE  Placement' /\ Carries
<1> USE DEF DataTypeOK, TunnelTypeOK
<1>1. Different
  BY PlacementIs
<1>2. (\A q : BodyIn(wire', q) => BodyIn(wire, q)) /\ Once(wire')
  <2>1. Once(wire)
    BY <1>1 DEF Different
  <2>2. CASE UNCHANGED wire
    BY <2>1, <2>2
  <2>3. CASE ReadHeader
    BY <2>1, <2>3, UnitLeaves DEF ReadHeader, ReadUnit
  <2>4. CASE Connect
    <3>1. wire' = <<>>
      BY <2>4 DEF Connect
    <3> QED BY <3>1, EmptyQueue DEF BodyIn, Once
  <2>5. CASE Break
    <3>1. PICK k \in 0 .. Len(wire) : wire' = SubSeq(wire, 1, k)
      BY <2>5 DEF Break
    <3> QED BY <2>1, <3>1, PrefixLeft
  <2> QED BY <2>2, <2>3, <2>4, <2>5 DEF StreamEnds, ReadTimesOut, tunnel, bytes
<1>3. UNCHANGED <<sent, delivered, udp_rcv, udp_buffer, pending_queue, taken>>
  BY DEF device
<1>4. Different' /\ \A q \in Packets : Less(q)
  BY <1>1, <1>2, <1>3 DEF Different, Less
<1> QED BY <1>3, <1>4, NoneMoves

(* What a read of a body does, and when it is one of a packet. *)
IsFrame(p) == hdr[1] = [pkt |-> p, part |-> "len"] /\ Head(wire) = Body(p)

LEMMA HeaderAndBody ==
  ASSUME DataTypeOK, hdr # <<>>, wire # <<>>, NEW p \in Packets
  PROVE  hdr \o <<Head(wire)>> = Frame(p) <=> IsFrame(p)
<1> DEFINE u == Head(wire)
           s == hdr \o <<u>>
<1>1. hdr \in Seq(Units) /\ Len(hdr) = 1 /\ u \in Units
  <2>1. hdr \in Seq(Units) /\ Len(hdr) <= 1 /\ Len(hdr) \in Nat /\ Len(hdr) # 0
    BY LenProperties, EmptySeq DEF DataTypeOK, HostTypeOK
  <2>2. u \in Units
    BY UnitLeaves DEF DataTypeOK, TunnelTypeOK
  <2>3. Len(hdr) = 1
    <3>1. \A n \in Nat : n <= 1 /\ n # 0 => n = 1
      OBVIOUS
    <3> QED BY <2>1, <3>1
  <2> HIDE DEF u
  <2> QED BY <2>1, <2>2, <2>3
<1> HIDE DEF u
<1>2. s \in Seq(Units) /\ Len(s) = 2 /\ s[1] = hdr[1] /\ s[2] = u
  <2>1. <<u>> \in Seq(Units) /\ Len(<<u>>) = 1 /\ <<u>>[1] = u
    BY <1>1
  <2>2. /\ s \in Seq(Units) /\ Len(s) = Len(hdr) + Len(<<u>>)
        /\ \A i \in 1 .. Len(hdr) + Len(<<u>>) :
             s[i] = IF i <= Len(hdr) THEN hdr[i] ELSE <<u>>[i - Len(hdr)]
    BY <1>1, <2>1, ConcatProperties, Zenon
  <2>3. 1 \in 1 .. 2 /\ 2 \in 1 .. 2 /\ 1 <= 1 /\ ~(2 <= 1) /\ 2 - 1 = 1 /\ 1 + 1 = 2
    OBVIOUS
  <2> QED BY <1>1, <2>1, <2>2, <2>3
<1> HIDE DEF s
<1>3. /\ Frame(p) \in Seq(Units) /\ Len(Frame(p)) = 2
      /\ Frame(p)[1] = [pkt |-> p, part |-> "len"] /\ Frame(p)[2] = Body(p)
  BY FrameUnits
<1>4. s = Frame(p) <=> s[1] = Frame(p)[1] /\ s[2] = Frame(p)[2]
  <2>1. \A i \in 1 .. 2 : i = 1 \/ i = 2
    OBVIOUS
  <2> QED BY <1>2, <1>3, <2>1, SeqEqual
<1> QED BY <1>2, <1>3, <1>4 DEF s, u, IsFrame

(* A packet is delivered, and leaves the stream. *)
Delivers(p) ==
  /\ p \in Packets /\ Held(p) /\ ~Held(p)'
  /\ delivered[p] = 0 /\ delivered' = [delivered EXCEPT ![p] = @ + 1]
  /\ UNCHANGED sent
  /\ \A q \in Packets : q # p => (Held(q)' <=> Held(q))

LEMMA ReadBodyCarries ==
  ASSUME DataTypeOK, Placement, ReadBody, UNCHANGED device
  PROVE  Placement' /\ (Carries \/ \E p \in Packets : Delivers(p))
<1> USE DEF DataTypeOK, TunnelTypeOK
<1>1. Different
  BY PlacementIs
<1>2. wire \in Seq(Units) /\ wire # <<>> /\ wire' = Tail(wire) /\ hdr # <<>>
  BY DEF ReadBody, ReadUnit
<1>3. /\ \A q : BodyIn(wire', q) => BodyIn(wire, q)
      /\ \A q : BodyIn(wire, q) => BodyIn(wire', q) \/ Head(wire) = Body(q)
      /\ Once(wire')
      /\ \A q : Head(wire) = Body(q) => ~BodyIn(wire', q)
      /\ Head(wire) \in ToSet(wire)
  <2>1. Once(wire)
    BY <1>1 DEF Different
  <2>2. Head(wire) \in ToSet(wire)
    BY <1>2, HeadLeaves
  <2> QED BY <1>2, <2>1, <2>2, UnitLeaves
<1>4. UNCHANGED <<sent, udp_rcv, udp_buffer, pending_queue, taken>>
  BY DEF device
<1>5. Different' /\ \A q \in Packets : Less(q)
  BY <1>1, <1>3, <1>4 DEF Different, Less
<1>6. CASE UNCHANGED delivered
  BY <1>4, <1>5, <1>6, NoneMoves
<1>7. ASSUME NEW p \in Packets, hdr \o <<Head(wire)>> = Frame(p) PROVE Delivers(p) /\ Placement'
  <2>1. Head(wire) = Body(p)
    BY <1>2, <1>7, HeaderAndBody DEF IsFrame
  <2>2. delivered' = [delivered EXCEPT ![p] = @ + 1]
    <3>1. Head(wire).pkt = p
      BY <2>1 DEF Body
    <3> QED BY <1>7, <3>1 DEF ReadBody
  <2>3. OnePlace(p) /\ BodyIn(wire, p) /\ ~BodyIn(wire', p)
    BY <1>3, <2>1 DEF Placement, BodyIn
  <2>4. /\ p \notin ToSet(udp_rcv) /\ p \notin ToSet(udp_buffer) /\ p \notin ToSet(pending_queue)
        /\ Held(p) /\ delivered[p] = 0 /\ p <= sent
    BY <2>3 DEF OnePlace, Held, InWire, BodyIn, Body
  <2>5. ~Held(p)'
    BY <1>4, <2>3, <2>4 DEF Held, InWire, BodyIn, Body
  <2>6. \A q : q # p => (BodyIn(wire', q) <=> BodyIn(wire, q))
    BY <1>3, <2>1 DEF Body
  <2>7. ASSUME NEW q \in Packets, q # p
        PROVE  (Held(q)' <=> Held(q)) /\ OnePlace(q)'
    <3>1. BodyIn(wire', q) <=> BodyIn(wire, q)
      BY <2>6, <2>7
    <3>2. OnePlace(q) /\ delivered'[q] = delivered[q]
      BY <2>2, <2>7 DEF Placement, HostTypeOK
    <3> QED BY <1>4, <3>1, <3>2 DEF OnePlace, Held, InWire, BodyIn, Body
  <2>8. OnePlace(p)'
    BY <1>4, <2>3, <2>4, <2>5 DEF OnePlace, Held, InWire, BodyIn, Body
  <2> QED BY <1>4, <1>5, <2>2, <2>4, <2>5, <2>7, <2>8, PlacementIs DEF Delivers
<1> QED BY <1>6, <1>7 DEF ReadBody

(* A packet is taken in, or overruns the kernel's queue. *)
Emits(p) ==
  /\ p \in Packets /\ ~Held(p) /\ delivered[p] = 0 /\ UNCHANGED delivered
  /\ ~(p <= sent) /\ p <= sent'
  /\ \A q \in Packets : q # p => (Held(q)' <=> Held(q)) /\ (q <= sent' <=> q <= sent)

LEMMA EmitCarries ==
  ASSUME DataTypeOK, Placement, SenderEmits, UNCHANGED host
  PROVE  Placement' /\ \E p \in Packets : Emits(p)
<1> USE DEF DataTypeOK, TunnelTypeOK, DeviceTypeOK
<1>1. PICK p : p = sent + 1
  OBVIOUS
<1>2. /\ p \in Packets /\ sent' = p /\ ~(p <= sent) /\ p <= sent'
      /\ \A q \in Packets : q # p => (q <= sent' <=> q <= sent)
  BY <1>1, ConstantsAreNumbers DEF SenderEmits, Packets
<1>3. OnePlace(p) /\ delivered[p] \in Nat /\ Different
  BY <1>2, PlacementIs DEF HostTypeOK
<1>4. /\ p \notin ToSet(udp_rcv) /\ p \notin ToSet(udp_buffer) /\ p \notin ToSet(pending_queue)
      /\ ~BodyIn(wire, p) /\ ~Held(p) /\ p \notin taken
      /\ delivered[p] = 0
  BY <1>2, <1>3 DEF OnePlace, Held, InWire, BodyIn, Body
<1>5. UNCHANGED <<wire, udp_buffer, pending_queue, taken, delivered>>
  BY DEF SenderEmits, host, tunnel, bytes
<1>6. ToSet(udp_rcv') \in {ToSet(udp_rcv), ToSet(udp_rcv) \cup {p}} /\ IsInjective(udp_rcv')
  <2>1. IsInjective(udp_rcv)
    BY <1>3 DEF Different
  <2>2. udp_rcv' = udp_rcv \/ udp_rcv' = Append(udp_rcv, p)
    BY <1>1 DEF SenderEmits
  <2>3. ToSet(Append(udp_rcv, p)) = ToSet(udp_rcv) \cup {p} /\ IsInjective(Append(udp_rcv, p))
    BY <1>2, <1>4, <2>1, OneJoins
  <2> QED BY <2>1, <2>2, <2>3
<1>7. ASSUME NEW q \in Packets, q # p PROVE (Held(q)' <=> Held(q)) /\ OnePlace(q)'
  <2>1. OnePlace(q) /\ (q <= sent' <=> q <= sent)
    BY <1>2, <1>7 DEF Placement
  <2>2. q \in ToSet(udp_rcv') <=> q \in ToSet(udp_rcv)
    BY <1>6, <1>7
  <2> QED BY <1>5, <2>1, <2>2 DEF OnePlace, Held, InWire, BodyIn, Body
<1>8. OnePlace(p)'
  BY <1>2, <1>4, <1>5 DEF OnePlace, Held, InWire, BodyIn, Body
<1>9. Different'
  BY <1>3, <1>5, <1>6 DEF Different
<1> QED BY <1>2, <1>4, <1>5, <1>7, <1>8, <1>9, PlacementIs DEF Emits

(* Every step takes in a packet, delivers one or does neither. *)
LEMMA StepKinds ==
  ASSUME DataTypeOK, Placement, [Next]_vars
  PROVE  Placement' /\ (Carries \/ \E p \in Packets : Emits(p) \/ Delivers(p))
<1>1. CASE UNCHANGED vars
  BY <1>1 DEF vars, device, host, tunnel, bytes, Placement, OnePlace, Held, InWire, BodiesOnce,
              Carries
<1>2. CASE DeviceStep
  BY <1>2, FlushOneCarries, RetryOneCarries, ReadsCarry, QuietDeviceCarries
     DEF DeviceStep, data_channel
<1>3. CASE HostReads \/ HostClosesOrConnects
  BY <1>3, ReadBodyCarries, TunnelCarries
     DEF HostReads, HostClosesOrConnects, ReadHeader, StreamEnds, Connect, ReadTimesOut
<1>4. CASE Break /\ UNCHANGED <<device, host>>
  BY <1>4, TunnelCarries DEF host
<1> QED BY <1>1, <1>2, <1>3, <1>4, EmitCarries DEF Next

LEMMA AtMostOnceKept ==
  ASSUME DataTypeOK, Placement, AtMostOnce, [Next]_vars
  PROVE  AtMostOnce'
<1>1. CASE Carries
  BY <1>1 DEF Carries, AtMostOnce
<1>2. ASSUME NEW p \in Packets, Emits(p) PROVE AtMostOnce'
  BY <1>2 DEF Emits, AtMostOnce
<1>3. ASSUME NEW p \in Packets, Delivers(p) PROVE AtMostOnce'
  BY <1>3 DEF Delivers, AtMostOnce, DataTypeOK, HostTypeOK
<1> QED BY <1>1, <1>2, <1>3, StepKinds

-----------------------------------------------------------------------------
(* Whole frames on the stream. *)

LEMMA ParityOfNext ==
  ASSUME NEW n \in Nat
  PROVE  /\ n % 2 = 0 <=> (n + 1) % 2 = 1
         /\ n % 2 = 1 <=> (n + 1) % 2 = 0
         /\ n % 2 \in {0, 1} /\ (n + 2) % 2 = n % 2
OBVIOUS

LEMMA PrefixIsWhole ==
  ASSUME NEW s \in Seq(Units), NEW t \in Seq(Units), Whole(s),
         Len(t) <= Len(s), \A i \in 1 .. Len(t) : t[i] = s[i]
  PROVE  Whole(t)
<1>1. /\ DOMAIN s = 1 .. Len(s) /\ DOMAIN t = 1 .. Len(t)
      /\ Len(s) \in Nat /\ Len(t) \in Nat
  BY LenProperties
<1> SUFFICES ASSUME NEW i \in DOMAIN t
             PROVE  IF i % 2 = 1 THEN t[i].part = "len"
                    ELSE t[i] = [pkt |-> t[i - 1].pkt, part |-> "body"]
  BY DEF Whole
<1>2. i \in DOMAIN s /\ t[i] = s[i] /\ i \in Nat /\ i >= 1
  BY <1>1
<1>3. CASE i % 2 = 1
  BY <1>2, <1>3 DEF Whole
<1>4. CASE i % 2 # 1
  <2>1. i - 1 \in 1 .. Len(t)
    BY <1>1, <1>2, <1>4
  <2> QED BY <1>2, <1>4, <2>1 DEF Whole
<1> QED BY <1>3, <1>4

LEMMA RestIsWhole ==
  ASSUME NEW s \in Seq(Units), NEW t \in Seq(Units), Whole(s),
         Len(t) + 2 = Len(s), \A i \in 1 .. Len(t) : t[i] = s[i + 2]
  PROVE  Whole(t)
<1>1. /\ DOMAIN s = 1 .. Len(s) /\ DOMAIN t = 1 .. Len(t)
      /\ Len(s) \in Nat /\ Len(t) \in Nat
  BY LenProperties
<1> SUFFICES ASSUME NEW i \in DOMAIN t
             PROVE  IF i % 2 = 1 THEN t[i].part = "len"
                    ELSE t[i] = [pkt |-> t[i - 1].pkt, part |-> "body"]
  BY DEF Whole
<1>2. i + 2 \in DOMAIN s /\ t[i] = s[i + 2] /\ i \in Nat /\ i >= 1 /\ (i + 2) % 2 = i % 2
  BY <1>1
<1>3. CASE i % 2 = 1
  BY <1>2, <1>3 DEF Whole
<1>4. CASE i % 2 # 1
  <2>1. i - 1 \in 1 .. Len(t) /\ (i - 1) + 2 = (i + 2) - 1
    BY <1>1, <1>2, <1>4
  <2> QED BY <1>2, <1>4, <2>1 DEF Whole
<1> QED BY <1>3, <1>4

LEMMA FrameKeepsWhole ==
  ASSUME NEW s \in Seq(Units), NEW t \in Seq(Units), Whole(s), Len(s) % 2 = 0,
         NEW p \in Packets,
         Len(t) = Len(s) + 2, \A i \in 1 .. Len(s) : t[i] = s[i],
         t[Len(s) + 1] = [pkt |-> p, part |-> "len"], t[Len(s) + 2] = Body(p)
  PROVE  Whole(t)
<1>1. /\ DOMAIN s = 1 .. Len(s) /\ DOMAIN t = 1 .. Len(s) + 2 /\ Len(s) \in Nat
  BY LenProperties
<1> SUFFICES ASSUME NEW i \in DOMAIN t
             PROVE  IF i % 2 = 1 THEN t[i].part = "len"
                    ELSE t[i] = [pkt |-> t[i - 1].pkt, part |-> "body"]
  BY DEF Whole
<1>2. CASE i \in DOMAIN s
  <2>1. t[i] = s[i] /\ i \in Nat /\ i >= 1
    BY <1>1, <1>2
  <2>2. CASE i % 2 = 1
    BY <1>2, <2>1, <2>2 DEF Whole
  <2>3. CASE i % 2 # 1
    <3>1. i - 1 \in 1 .. Len(s)
      BY <1>1, <1>2, <2>1, <2>3
    <3> QED BY <1>2, <2>1, <2>3, <3>1 DEF Whole
  <2> QED BY <2>2, <2>3
<1>3. CASE i = Len(s) + 1
  <2>1. i % 2 = 1
    BY <1>1, <1>3
  <2> QED BY <1>3, <2>1
<1>4. CASE i = Len(s) + 2
  <2>1. i % 2 = 0 /\ i - 1 = Len(s) + 1
    BY <1>1, <1>4
  <2> QED BY <1>4, <2>1 DEF Body
<1> QED BY <1>1, <1>2, <1>3, <1>4

LEMMA StreamIs ==
  ASSUME NEW h \in Seq(Units), NEW w \in Seq(Units)
  PROVE  /\ h \o w \in Seq(Units) /\ Len(h \o w) = Len(h) + Len(w)
         /\ Len(h) \in Nat /\ Len(w) \in Nat
         /\ \A i \in 1 .. Len(h) : (h \o w)[i] = h[i]
         /\ \A i \in 1 .. Len(w) : (h \o w)[i + Len(h)] = w[i]
<1>1. /\ h \o w \in Seq(Units) /\ Len(h \o w) = Len(h) + Len(w)
      /\ \A i \in 1 .. Len(h) + Len(w) :
           (h \o w)[i] = IF i <= Len(h) THEN h[i] ELSE w[i - Len(h)]
  BY ConcatProperties, Zenon
<1>2. Len(h) \in Nat /\ Len(w) \in Nat
  BY LenProperties
<1> DEFINE L == Len(h)
           M == Len(w)
<1>3. /\ \A i \in 1 .. L : i \in 1 .. L + M /\ i <= L
      /\ \A i \in 1 .. M : i + L \in 1 .. L + M /\ ~(i + L <= L) /\ (i + L) - L = i
  BY <1>2
<1> QED BY <1>1, <1>2, <1>3

(* What the host finds at the front of whole frames. *)
LEMMA FrontOfFrames ==
  ASSUME NEW h \in Seq(Units), NEW w \in Seq(Units), Len(h) <= 1, Whole(h \o w), w # <<>>
  PROVE  IF h = <<>> THEN Head(w).part = "len"
         ELSE h[1].part = "len" /\ Head(w) = [pkt |-> h[1].pkt, part |-> "body"]
<1>1. /\ h \o w \in Seq(Units) /\ Len(h \o w) = Len(h) + Len(w)
      /\ Len(h) \in Nat /\ Len(w) \in Nat
      /\ \A i \in 1 .. Len(h) : (h \o w)[i] = h[i]
      /\ \A i \in 1 .. Len(w) : (h \o w)[i + Len(h)] = w[i]
  BY StreamIs
<1>2. DOMAIN (h \o w) = 1 .. Len(h) + Len(w) /\ Head(w) = w[1] /\ Len(w) >= 1
  <2>1. Head(w) = w[1] /\ 1 \in DOMAIN w /\ DOMAIN w = 1 .. Len(w)
    BY HeadLeaves, LenProperties
  <2>2. DOMAIN (h \o w) = 1 .. Len(h) + Len(w)
    BY <1>1, LenProperties
  <2> QED BY <1>1, <2>1, <2>2
<1>3. CASE h = <<>>
  <2>1. Len(h) = 0 /\ 1 % 2 = 1 /\ 1 + 0 = 1
    BY <1>3, EmptyQueue
  <2>2. (h \o w)[1] = w[1] /\ 1 \in DOMAIN (h \o w)
    BY <1>1, <1>2, <2>1
  <2> QED BY <1>2, <1>3, <2>1, <2>2 DEF Whole
<1>4. CASE h # <<>>
  <2>1. Len(h) = 1 /\ 1 % 2 = 1 /\ 2 % 2 # 1 /\ 1 + 1 = 2 /\ 2 - 1 = 1
    <3>1. Len(h) # 0
      BY <1>4, EmptySeq
    <3>2. \A n \in Nat : n <= 1 /\ n # 0 => n = 1
      OBVIOUS
    <3>3. Len(h) = 1
      BY <1>1, <3>1, <3>2
    <3> QED BY <3>3
  <2>2. (h \o w)[1] = h[1] /\ (h \o w)[2] = w[1] /\ 1 \in DOMAIN (h \o w) /\ 2 \in DOMAIN (h \o w)
    BY <1>1, <1>2, <2>1
  <2> QED BY <1>2, <1>4, <2>1, <2>2 DEF Whole
<1> QED BY <1>3, <1>4

LEMMA FramedIs ==
  ASSUME DataTypeOK
  PROVE  /\ hdr \in Seq(Units) /\ wire \in Seq(Units) /\ Len(hdr) <= 1 /\ torn \in BOOLEAN
         /\ Len(hdr) \in Nat /\ Len(wire) \in Nat
         /\ hdr # <<>> => Len(hdr) = 1
<1>1. /\ hdr \in Seq(Units) /\ wire \in Seq(Units) /\ Len(hdr) <= 1 /\ torn \in BOOLEAN
      /\ Len(hdr) \in Nat /\ Len(wire) \in Nat
  BY LenProperties DEF DataTypeOK, TunnelTypeOK, HostTypeOK
<1>2. ASSUME hdr # <<>> PROVE Len(hdr) = 1
  <2>1. Len(hdr) # 0
    BY <1>1, <1>2, EmptySeq
  <2>2. \A n \in Nat : n <= 1 /\ n # 0 => n = 1
    OBVIOUS
  <2> QED BY <1>1, <2>1, <2>2
<1> QED BY <1>1, <1>2

(* The device puts whole frames on a stream of whole frames. *)
LEMMA DeviceKeepsFramed ==
  ASSUME DataTypeOK, Framed, UNCHANGED <<open, hdr, conns>>,
         \/ UNCHANGED bytes
         \/ \E c \in Nat, p \in Packets : \/ SendsWhole(c, p)
                                          \/ SendBlocks(c, p) \/ SendFails(c)
  PROVE  Framed'
<1>1. CASE UNCHANGED bytes
  BY <1>1 DEF Framed, bytes
<1>2. ASSUME NEW c, NEW p \in Packets, SendBlocks(c, p) \/ SendFails(c) PROVE Framed'
  <2>1. (torn => torn') /\ (~torn' => wire' = wire) /\ torn \in BOOLEAN
    <3>1. TunnelTypeOK
      BY DEF DataTypeOK
    <3>2. (torn => torn') /\ (~torn' => wire' = wire)
      BY <1>2, <3>1, SendStops
    <3> QED BY <3>2, FramedIs
  <2>2. CASE torn'
    BY <2>2 DEF Framed
  <2>3. CASE ~torn'
    BY <2>1, <2>3 DEF Framed
  <2> QED BY <2>2, <2>3
<1>3. ASSUME NEW c, NEW p \in Packets, SendsWhole(c, p) PROVE Framed'
  <2>1. torn' = torn /\ wire' = IF Live(c) THEN wire \o Frame(p) ELSE wire
    <3>1. TunnelTypeOK
      BY DEF DataTypeOK
    <3> QED BY <1>3, <3>1, WholeFrameSent
  <2>2. CASE ~Live(c) \/ torn
    BY <2>1, <2>2 DEF Framed
  <2>3. CASE Live(c) /\ ~torn
    <3>1. wire' = wire \o Frame(p) /\ Whole(hdr \o wire) /\ (Len(hdr) + Len(wire)) % 2 = 0
      BY <2>1, <2>3 DEF Framed, Live
    <3>2. /\ wire' \in Seq(Units) /\ Len(wire') = Len(wire) + 2
          /\ \A i \in 1 .. Len(wire) : wire'[i] = wire[i]
          /\ wire'[Len(wire) + 1] = [pkt |-> p, part |-> "len"]
          /\ wire'[Len(wire) + 2] = Body(p)
      BY <3>1, FramedIs, FrameJoins
    <3> DEFINE s == hdr \o wire
               t == hdr \o wire'
    <3>3. /\ s \in Seq(Units) /\ Len(s) = Len(hdr) + Len(wire)
          /\ \A i \in 1 .. Len(hdr) : s[i] = hdr[i]
          /\ \A i \in 1 .. Len(wire) : s[i + Len(hdr)] = wire[i]
      BY FramedIs, StreamIs
    <3>4. /\ t \in Seq(Units) /\ Len(t) = Len(hdr) + Len(wire')
          /\ \A i \in 1 .. Len(hdr) : t[i] = hdr[i]
          /\ \A i \in 1 .. Len(wire') : t[i + Len(hdr)] = wire'[i]
      BY <3>2, FramedIs, StreamIs
    <3>5. Whole(s) /\ Len(s) % 2 = 0
      BY <3>1, <3>3
    <3> HIDE DEF s, t
    <3>6. Len(hdr) \in Nat /\ Len(wire) \in Nat
      BY FramedIs
    <3>7. Len(t) = Len(s) + 2
      BY <3>2, <3>3, <3>4, <3>6
    <3>8. \A i \in 1 .. Len(s) : t[i] = s[i]
      <4> SUFFICES ASSUME NEW i \in 1 .. Len(s) PROVE t[i] = s[i]
        OBVIOUS
      <4>1. CASE i \in 1 .. Len(hdr)
        BY <3>3, <3>4, <4>1
      <4>2. CASE i \notin 1 .. Len(hdr)
        <5>1. PICK j \in 1 .. Len(wire) : i = j + Len(hdr)
          <6>1. i - Len(hdr) \in 1 .. Len(wire) /\ i = (i - Len(hdr)) + Len(hdr)
            BY <3>3, <3>6, <4>2
          <6> QED BY <6>1
        <5>2. j \in 1 .. Len(wire')
          BY <3>2, <3>6, <5>1
        <5> QED BY <3>2, <3>3, <3>4, <5>1, <5>2
      <4> QED BY <4>1, <4>2
    <3>9. t[Len(s) + 1] = [pkt |-> p, part |-> "len"] /\ t[Len(s) + 2] = Body(p)
      <4>1. /\ Len(wire) + 1 \in 1 .. Len(wire') /\ Len(wire) + 2 \in 1 .. Len(wire')
            /\ Len(s) + 1 = (Len(wire) + 1) + Len(hdr)
            /\ Len(s) + 2 = (Len(wire) + 2) + Len(hdr)
        BY <3>2, <3>3, <3>6
      <4> QED BY <3>2, <3>4, <4>1
    <3>10. Whole(t)
      BY <3>3, <3>4, <3>5, <3>7, <3>8, <3>9, FrameKeepsWhole
    <3>11. (Len(hdr) + Len(wire')) % 2 = 0
      BY <3>1, <3>2, <3>6
    <3>12. hdr' = hdr /\ open' = open
      OBVIOUS
    <3> QED BY <3>10, <3>11, <3>12 DEF Framed, t
  <2> QED BY <2>2, <2>3
<1> QED BY <1>1, <1>2, <1>3

(* The host takes units off the front, a break off the end. *)
LEMMA HostKeepsFramed ==
  ASSUME DataTypeOK, Framed,
         ReadHeader \/ ReadBody \/ StreamEnds \/ Connect \/ ReadTimesOut
  PROVE  Framed'
<1>1. CASE StreamEnds \/ ReadTimesOut
  BY <1>1 DEF StreamEnds, ReadTimesOut, tunnel, bytes, Framed
<1>2. CASE Connect
  <2>1. hdr' = <<>> /\ wire' = <<>>
    BY <1>2 DEF Connect
  <2>2. <<>> \o <<>> = <<>> /\ Len(<<>>) + Len(<<>>) = 0 /\ Whole(<<>>) /\ 0 % 2 = 0
    <3>1. <<>> \o <<>> = <<>> /\ Len(<<>>) = 0 /\ DOMAIN <<>> = {}
      OBVIOUS
    <3> QED BY <3>1 DEF Whole
  <2> QED BY <2>1, <2>2 DEF Framed
<1> DEFINE s == hdr \o wire
           t == hdr' \o wire'
<1>3. CASE (ReadHeader \/ ReadBody) /\ torn
  BY <1>3 DEF ReadHeader, ReadBody, ReadUnit, Framed
<1>4. CASE (ReadHeader \/ ReadBody) /\ ~torn
  <2>1. wire # <<>> /\ wire' = Tail(wire) /\ torn' = torn /\ open' = open
    BY <1>4 DEF ReadHeader, ReadBody, ReadUnit
  <2>2. /\ Head(wire) \in Units /\ Head(wire) = wire[1] /\ wire' \in Seq(Units)
        /\ Len(wire') = Len(wire) - 1
        /\ \A i \in 1 .. Len(wire') : wire'[i] = wire[i + 1]
        /\ Len(wire) \in Nat /\ Len(wire) >= 1
    <3>1. wire \in Seq(Units) /\ Len(wire) \in Nat
      BY FramedIs
    <3>2. 1 \in DOMAIN wire /\ DOMAIN wire = 1 .. Len(wire)
      BY <2>1, <3>1, HeadLeaves, LenProperties
    <3>3. /\ Head(wire) \in Units /\ Head(wire) = wire[1] /\ wire' \in Seq(Units)
          /\ Len(wire') = Len(wire) - 1
          /\ \A i \in DOMAIN wire' : wire'[i] = wire[i + 1]
      BY <2>1, <3>1, HeadLeaves
    <3>4. DOMAIN wire' = 1 .. Len(wire')
      BY <3>3, LenProperties
    <3> QED BY <3>1, <3>2, <3>3, <3>4
  <2>3. /\ s \in Seq(Units) /\ Len(s) = Len(hdr) + Len(wire)
        /\ \A i \in 1 .. Len(hdr) : s[i] = hdr[i]
        /\ \A i \in 1 .. Len(wire) : s[i + Len(hdr)] = wire[i]
        /\ Whole(s)
    BY <1>4, FramedIs, StreamIs DEF Framed
  <2>4. IF hdr = <<>> THEN Head(wire).part = "len"
        ELSE hdr[1].part = "len" /\ Head(wire) = [pkt |-> hdr[1].pkt, part |-> "body"]
    BY <2>1, <2>3, FramedIs, FrontOfFrames
  <2> HIDE DEF s
  <2>5. CASE hdr = <<>>
    <3>1. hdr' = <<Head(wire)>> /\ hdr' \in Seq(Units) /\ Len(hdr') = 1 /\ hdr'[1] = wire[1]
      <4>1. hdr' = <<Head(wire)>>
        BY <1>4, <2>4, <2>5 DEF ReadHeader, ReadBody
      <4> QED BY <2>2, <4>1
    <3>2. /\ t \in Seq(Units) /\ Len(t) = Len(hdr') + Len(wire')
          /\ \A i \in 1 .. Len(hdr') : t[i] = hdr'[i]
          /\ \A i \in 1 .. Len(wire') : t[i + Len(hdr')] = wire'[i]
      BY <2>2, <3>1, StreamIs
    <3> HIDE DEF t
    <3>3. Len(hdr) = 0 /\ Len(t) = Len(s) /\ Len(t) = Len(wire) /\ Len(hdr) + Len(wire) = Len(hdr') + Len(wire')
      <4>1. Len(hdr) = 0
        BY <2>5, EmptyQueue
      <4> QED BY <2>2, <2>3, <3>1, <3>2, <4>1
    <3>4. \A i \in 1 .. Len(t) : t[i] = s[i]
      <4> SUFFICES ASSUME NEW i \in 1 .. Len(wire) PROVE t[i] = s[i]
        BY <3>3
      <4>1. s[i] = wire[i]
        <5>1. i + Len(hdr) = i
          BY <2>2, <3>3
        <5> QED BY <2>3, <5>1
      <4>2. CASE i = 1
        BY <3>1, <3>2, <4>1, <4>2
      <4>3. CASE i # 1
        <5>1. PICK j \in 1 .. Len(wire') : i = j + 1
          <6>1. i - 1 \in 1 .. Len(wire') /\ i = (i - 1) + 1
            BY <2>2, <4>3
          <6> QED BY <6>1
        <5> QED BY <2>2, <3>1, <3>2, <4>1, <5>1
      <4> QED BY <4>2, <4>3
    <3>5. Whole(t)
      BY <2>2, <2>3, <3>2, <3>3, <3>4, PrefixIsWhole
    <3> QED BY <2>1, <3>3, <3>5 DEF Framed, t
  <2>6. CASE hdr # <<>>
    <3>1. hdr' = <<>> /\ Len(hdr) = 1
      BY <1>4, <2>6, FramedIs DEF ReadHeader, ReadBody
    <3>2. t = wire' /\ Len(hdr') = 0
      <4>1. <<>> \o wire' = wire' /\ Len(<<>>) = 0
        BY <2>2, EmptyQueue
      <4> QED BY <3>1, <4>1
    <3> HIDE DEF t
    <3>3. Len(t) + 2 = Len(s) /\ (Len(hdr') + Len(wire')) + 2 = Len(hdr) + Len(wire)
      BY <2>2, <2>3, <3>1, <3>2
    <3>4. \A i \in 1 .. Len(t) : t[i] = s[i + 2]
      <4> SUFFICES ASSUME NEW i \in 1 .. Len(wire') PROVE wire'[i] = s[i + 2]
        BY <3>2
      <4>1. wire'[i] = wire[i + 1] /\ i + 1 \in 1 .. Len(wire) /\ (i + 1) + Len(hdr) = i + 2
        BY <2>2, <3>1
      <4> QED BY <2>3, <4>1
    <3>5. Whole(t)
      BY <2>2, <2>3, <3>2, <3>3, <3>4, RestIsWhole
    <3>6. (Len(hdr) + Len(wire)) % 2 = 0 => (Len(hdr') + Len(wire')) % 2 = 0
      BY <2>2, <3>1, <3>2, <3>3
    <3> QED BY <2>1, <3>5, <3>6 DEF Framed, t
  <2> QED BY <2>5, <2>6
<1> QED BY <1>1, <1>2, <1>3, <1>4

LEMMA BreakKeepsFramed ==
  ASSUME DataTypeOK, Framed, Break, UNCHANGED host
  PROVE  Framed'
<1>1. PICK k \in 0 .. Len(wire) : wire' = SubSeq(wire, 1, k)
  BY DEF Break
<1>2. ~open' /\ torn' = torn /\ hdr' = hdr
  BY DEF Break, host
<1>3. /\ wire' \in Seq(Units) /\ Len(wire') = k
      /\ \A i \in 1 .. k : wire'[i] = wire[i]
  BY <1>1, FramedIs, PrefixLeft
<1> DEFINE s == hdr \o wire
           t == hdr \o wire'
<1>4. /\ s \in Seq(Units) /\ Len(s) = Len(hdr) + Len(wire)
      /\ \A i \in 1 .. Len(hdr) : s[i] = hdr[i]
      /\ \A i \in 1 .. Len(wire) : s[i + Len(hdr)] = wire[i]
  BY FramedIs, StreamIs
<1>5. /\ t \in Seq(Units) /\ Len(t) = Len(hdr) + Len(wire')
      /\ \A i \in 1 .. Len(hdr) : t[i] = hdr[i]
      /\ \A i \in 1 .. Len(wire') : t[i + Len(hdr)] = wire'[i]
  BY <1>3, FramedIs, StreamIs
<1> HIDE DEF s, t
<1>6. Len(hdr) \in Nat /\ Len(wire) \in Nat
  BY FramedIs
<1>7. Len(t) <= Len(s)
  BY <1>3, <1>4, <1>5, <1>6
<1>8. \A i \in 1 .. Len(t) : t[i] = s[i]
  <2> SUFFICES ASSUME NEW i \in 1 .. Len(t) PROVE t[i] = s[i]
    OBVIOUS
  <2>1. CASE i \in 1 .. Len(hdr)
    BY <1>4, <1>5, <2>1
  <2>2. CASE i \notin 1 .. Len(hdr)
    <3>1. PICK j \in 1 .. k : i = j + Len(hdr)
      <4>1. i - Len(hdr) \in 1 .. k /\ i = (i - Len(hdr)) + Len(hdr)
        BY <1>3, <1>5, <1>6, <2>2
      <4> QED BY <4>1
    <3>2. j \in 1 .. Len(wire) /\ j \in 1 .. Len(wire')
      BY <1>3, <1>6, <3>1
    <3> QED BY <1>3, <1>4, <1>5, <3>1, <3>2
  <2> QED BY <2>1, <2>2
<1>9. Whole(s) => Whole(t)
  BY <1>4, <1>5, <1>7, <1>8, PrefixIsWhole
<1> QED BY <1>2, <1>9 DEF Framed, s, t

LEMMA FramedKept ==
  ASSUME DataTypeOK, Framed, [Next]_vars
  PROVE  Framed'
<1>1. CASE UNCHANGED <<open, hdr, conns>> /\ UNCHANGED bytes
  BY <1>1, DeviceKeepsFramed
<1>2. CASE DeviceStep
  <2>1. UNCHANGED <<open, hdr, conns>>
    BY <1>2 DEF DeviceStep, data_channel, host, tunnel, Select, NoConnection, Accept, FlushOne,
               FlushEnds, UdpEmpty, ReadConnected, ReadUnconnected, RetryOne, RetryEnds, HealthCheck
  <2>2. tcp_conn \in Nat
    BY ConstantsAreNumbers DEF DataTypeOK, DeviceTypeOK, Conns, None
  <2>3. /\ udp_buffer # <<>> => Head(udp_buffer) \in Packets
        /\ udp_rcv # <<>> => Head(udp_rcv) \in Packets
        /\ pending_queue # <<>> => Head(pending_queue) \in Packets
    BY HeadLeaves DEF DataTypeOK, DeviceTypeOK
  <2>4. CASE Select \/ NoConnection \/ Accept \/ UdpEmpty \/ ReadUnconnected \/ HealthCheck
    BY <1>1, <2>1, <2>4
       DEF Select, NoConnection, Accept, UdpEmpty, ReadUnconnected, HealthCheck, tunnel
  <2>5. CASE FlushOne
    BY <2>1, <2>2, <2>3, <2>5, DeviceKeepsFramed DEF FlushOne
  <2>6. CASE FlushEnds
    BY <2>1, <2>2, <2>3, <2>6, DeviceKeepsFramed DEF FlushEnds
  <2>7. CASE ReadConnected
    BY <2>1, <2>2, <2>3, <2>7, DeviceKeepsFramed DEF ReadConnected
  <2>8. CASE RetryOne
    BY <2>1, <2>2, <2>3, <2>8, DeviceKeepsFramed DEF RetryOne
  <2>9. CASE RetryEnds
    BY <2>1, <2>2, <2>3, <2>9, DeviceKeepsFramed DEF RetryEnds
  <2> QED BY <1>2, <2>4, <2>5, <2>6, <2>7, <2>8, <2>9 DEF DeviceStep, data_channel
<1>3. CASE HostReads \/ HostClosesOrConnects
  BY <1>3, HostKeepsFramed DEF HostReads, HostClosesOrConnects
<1>4. CASE Break /\ UNCHANGED <<device, host>>
  BY <1>4, BreakKeepsFramed
<1>5. CASE SenderEmits /\ UNCHANGED host
  BY <1>1, <1>5 DEF SenderEmits, host, tunnel
<1>6. CASE UNCHANGED vars
  BY <1>1, <1>6 DEF vars, tunnel, host
<1> QED BY <1>2, <1>3, <1>4, <1>5, <1>6 DEF Next

(* Over whole frames the host reads the sender's packets and nothing else. *)
LEMMA HeaderOfFrames ==
  ASSUME DataTypeOK, Framed, ~torn, hdr = <<>>, wire # <<>>
  PROVE  Head(wire).part = "len"
<1>1. Whole(hdr \o wire)
  BY DEF Framed
<1> QED BY <1>1, FramedIs, FrontOfFrames

LEMMA BodyOfFrames ==
  ASSUME DataTypeOK, Framed, ~torn, hdr # <<>>, wire # <<>>
  PROVE  \E p \in Packets : hdr \o <<Head(wire)>> = Frame(p) /\ Head(wire) = Body(p)
<1>1. Whole(hdr \o wire)
  BY DEF Framed
<1>2. hdr[1].part = "len" /\ Head(wire) = [pkt |-> hdr[1].pkt, part |-> "body"]
  BY <1>1, FramedIs, FrontOfFrames
<1>3. hdr[1] \in Units
  <2>1. hdr \in Seq(Units) /\ 1 \in 1 .. Len(hdr)
    BY FramedIs
  <2> QED BY <2>1, ElementOfSeq
<1>4. PICK p \in Packets : hdr[1] = [pkt |-> p, part |-> "len"]
  BY <1>2, <1>3 DEF Units
<1>5. IsFrame(p) /\ Head(wire) = Body(p)
  BY <1>2, <1>4 DEF IsFrame, Body
<1> QED BY <1>5, HeaderAndBody

LEMMA TornStays ==
  ASSUME DataTypeOK, DeviceStep
  PROVE  torn => torn'
<1>1. TunnelTypeOK
  BY DEF DataTypeOK
<1>2. ASSUME NEW c, NEW p \in Packets, SendsWhole(c, p) \/ SendBlocks(c, p) \/ SendFails(c)
      PROVE  torn => torn'
  BY <1>1, <1>2, SendStops DEF SendsWhole
<1>3. /\ udp_buffer # <<>> => Head(udp_buffer) \in Packets
      /\ udp_rcv # <<>> => Head(udp_rcv) \in Packets
      /\ pending_queue # <<>> => Head(pending_queue) \in Packets
  BY HeadLeaves DEF DataTypeOK, DeviceTypeOK
<1>4. CASE UNCHANGED bytes
  BY <1>4 DEF bytes
<1>5. CASE FlushOne \/ FlushEnds
  BY <1>2, <1>3, <1>4, <1>5 DEF FlushOne, FlushEnds
<1>6. CASE ReadConnected
  BY <1>2, <1>3, <1>6 DEF ReadConnected
<1>7. CASE RetryOne \/ RetryEnds
  BY <1>2, <1>3, <1>4, <1>7 DEF RetryOne, RetryEnds
<1> QED BY <1>4, <1>5, <1>6, <1>7 DEF DeviceStep, data_channel, Select, NoConnection, Accept,
           UdpEmpty, ReadUnconnected, HealthCheck, tunnel

LEMMA GenuineKept ==
  ASSUME DataTypeOK, Framed, GenuineUnlessTorn, [Next]_vars
  PROVE  GenuineUnlessTorn'
<1>1. CASE UNCHANGED <<torn, garbage>>
  BY <1>1 DEF GenuineUnlessTorn
<1>2. CASE DeviceStep
  <2>1. garbage' = garbage
    BY <1>2 DEF DeviceStep, host
  <2> QED BY <1>2, <2>1, TornStays, Zenon DEF GenuineUnlessTorn
<1>3. CASE ReadBody
  <2>1. torn' = torn /\ hdr # <<>> /\ wire # <<>>
    BY <1>3 DEF ReadBody, ReadUnit
  <2>2. CASE torn
    BY <2>1, <2>2 DEF GenuineUnlessTorn
  <2>3. CASE ~torn
    <3>1. \E p \in Packets : hdr \o <<Head(wire)>> = Frame(p)
      BY <2>1, <2>3, BodyOfFrames
    <3>2. garbage' = garbage
      BY <1>3, <3>1 DEF ReadBody
    <3> QED BY <2>1, <3>2 DEF GenuineUnlessTorn
  <2> QED BY <2>2, <2>3
<1>4. CASE Connect
  BY <1>4 DEF Connect, GenuineUnlessTorn
<1>5. CASE HostReads \/ HostClosesOrConnects
  BY <1>1, <1>3, <1>4, <1>5 DEF HostReads, HostClosesOrConnects, ReadHeader, ReadUnit, StreamEnds,
     ReadTimesOut, tunnel, bytes
<1> QED BY <1>1, <1>2, <1>5 DEF Next, SenderEmits, Break, tunnel, bytes, host, vars

-----------------------------------------------------------------------------
(* What a steady connection owes. *)

Accounted(p) ==
  p \in ToSet(pending_queue) \/ BodyIn(wire, p) \/ delivered[p] > 0 \/ fate[p] = "trimmed"

LEMMA SteadyIs ==
  /\ SteadyTunnelLosesNothing <=>
       (Live(tcp_conn) /\ ~torn => \A p \in taken : Accounted(p))
  /\ SteadyTunnelLosesNothing' <=>
       (Live(tcp_conn)' /\ ~torn' => \A p \in taken' : Accounted(p)')
BY DEF SteadyTunnelLosesNothing, Accounted, InWire, BodyIn, Body

LEMMA NoneIsDead ==
  ASSUME ConnsKnown, UNCHANGED <<conns, open>>, tcp_conn' = None
  PROVE  ~Live(tcp_conn)'
BY DEF ConnsKnown, Live, None

LEMMA DeviceKeepsSteady ==
  ASSUME DataTypeOK, ConnsKnown, Placement, SteadyTunnelLosesNothing, DeviceStep
  PROVE  SteadyTunnelLosesNothing'
<1> USE DEF DataTypeOK, DeviceTypeOK
<1>1. UNCHANGED <<open, conns, delivered>>
  BY DEF DeviceStep, data_channel, host, tunnel, Select, NoConnection, Accept, FlushOne,
         FlushEnds, UdpEmpty, ReadConnected, ReadUnconnected, RetryOne, RetryEnds, HealthCheck
<1>2. CASE taken' = {}
  BY <1>2, SteadyIs
<1>3. CASE /\ UNCHANGED <<wire, torn, taken, fate>>
           /\ tcp_conn' = None \/ UNCHANGED <<tcp_conn, pending_queue>>
  <2>1. CASE tcp_conn' = None
    BY <1>1, <2>1, NoneIsDead, SteadyIs
  <2>2. CASE UNCHANGED <<tcp_conn, pending_queue>>
    BY <1>1, <1>3, <2>2 DEF SteadyTunnelLosesNothing, Live, InWire
  <2> QED BY <1>3, <2>1, <2>2
<1>4. CASE Select \/ NoConnection \/ UdpEmpty \/ HealthCheck
  BY <1>3, <1>4 DEF Select, NoConnection, UdpEmpty, HealthCheck, tunnel, bytes
<1>5. CASE Accept \/ FlushOne \/ FlushEnds
  BY <1>2, <1>5 DEF Accept, FlushOne, FlushEnds, ConnsKnown
<1>6. CASE ReadUnconnected
  BY <1>1, <1>6, NoneIsDead, SteadyIs DEF ReadUnconnected
<1>7. SUFFICES ASSUME Live(tcp_conn)', ~torn', ReadConnected \/ RetryOne \/ RetryEnds,
                      NEW q \in taken'
               PROVE  Accounted(q)'
  BY <1>4, <1>5, <1>6, SteadyIs DEF DeviceStep, data_channel
<1>8. tcp_conn' = tcp_conn /\ Live(tcp_conn)
  <2>1. tcp_conn' # None
    BY <1>1, <1>7, NoneIsDead
  <2>2. tcp_conn' = tcp_conn
    BY <1>7, <2>1 DEF ReadConnected, RetryOne, RetryEnds
  <2> QED BY <1>1, <1>7, <2>2 DEF Live
<1>9. ~torn /\ \A p \in taken : Accounted(p)
  <2>1. ~torn
    BY <1>7, TornStays
  <2> QED BY <1>8, <2>1, SteadyIs
<1>10. CASE RetryEnds
  <2>1. UNCHANGED <<pending_queue, fate, taken>>
    BY <1>10 DEF RetryEnds
  <2>2. wire' = wire
    <3>1. CASE UNCHANGED bytes
      BY <3>1 DEF bytes
    <3>2. CASE /\ pending_queue # <<>>
               /\ SendBlocks(tcp_conn, Head(pending_queue)) \/ SendFails(tcp_conn)
      <4>1. Head(pending_queue) \in Packets
        BY <3>2, HeadLeaves
      <4> QED BY <1>7, <3>2, <4>1, SendStops
    <3> QED BY <1>10, <3>1, <3>2 DEF RetryEnds
  <2> QED BY <1>1, <1>7, <1>9, <2>1, <2>2 DEF Accounted
<1>11. CASE RetryOne
  <2>0. PICK p : p = Head(pending_queue)
    OBVIOUS
  <2>1. /\ p \in Packets /\ pending_queue' = Tail(pending_queue)
        /\ ToSet(pending_queue) = ToSet(Tail(pending_queue)) \cup {p}
    BY <1>11, <2>0, HeadLeaves DEF RetryOne
  <2>2. taken' = taken /\ fate' = [fate EXCEPT ![p] = "handed"]
    BY <1>11, <2>0 DEF RetryOne
  <2>3. \A r : BodyIn(wire', r) <=> BodyIn(wire, r) \/ r = p
    <3>1. SendsWhole(tcp_conn, p)
      BY <1>11, <2>0 DEF RetryOne
    <3> QED BY <1>8, <2>1, <3>1, WholeFrameSent
  <2>4. CASE q = p
    BY <2>3, <2>4 DEF Accounted
  <2>5. CASE q # p
    <3>1. Accounted(q) /\ fate'[q] = fate[q]
      BY <1>7, <1>9, <2>2, <2>5
    <3> QED BY <1>1, <2>1, <2>3, <2>5, <3>1 DEF Accounted
  <2> QED BY <2>4, <2>5
<1>12. CASE ReadConnected
  <2>0. PICK p : p = Head(udp_rcv)
    OBVIOUS
  <2>1. p \in Packets /\ taken' = taken \cup {p}
    BY <1>12, <2>0, HeadLeaves DEF ReadConnected
  <2>2. CASE SendsWhole(tcp_conn, p) /\ UNCHANGED pending_queue
             /\ fate' = [fate EXCEPT ![p] = "handed"]
    <3>1. \A r : BodyIn(wire', r) <=> BodyIn(wire, r) \/ r = p
      BY <1>8, <2>1, <2>2, WholeFrameSent
    <3>2. CASE q = p
      BY <3>1, <3>2 DEF Accounted
    <3>3. CASE q # p
      <4>1. Accounted(q) /\ fate'[q] = fate[q]
        BY <1>7, <1>9, <2>1, <2>2, <3>3
      <4> QED BY <1>1, <2>2, <3>1, <4>1 DEF Accounted
    <3> QED BY <3>2, <3>3
  <2>3. CASE SendBlocks(tcp_conn, p) /\ Defer(p)
    <3>1. wire' = wire
      <4>1. TunnelTypeOK
        OBVIOUS
      <4> QED BY <1>7, <2>1, <2>3, <4>1, SendStops
    <3>2. p \in ToSet(pending_queue')
      BY <2>1, <2>3, Trimmed DEF Defer
    <3>3. CASE q = p
      BY <3>2, <3>3 DEF Accounted
    <3>4. CASE q # p
      <4>1. Accounted(q) /\ q \in Packets
        BY <1>7, <1>9, <2>1, <3>4
      <4>2. CASE q \in ToSet(pending_queue) /\ q \notin ToSet(pending_queue')
        BY <2>3, <3>4, <4>1, <4>2 DEF Defer, FateAfter, Accounted
      <4>3. CASE q \notin ToSet(pending_queue)
        <5>1. fate'[q] = fate[q]
          BY <2>3, <3>4, <4>1, <4>3 DEF Defer, FateAfter
        <5> QED BY <1>1, <3>1, <4>1, <4>3, <5>1 DEF Accounted
      <4> QED BY <4>2, <4>3 DEF Accounted
    <3> QED BY <3>3, <3>4
  <2>4. CASE tcp_conn' = None
    BY <1>1, <1>7, <2>4, NoneIsDead
  <2> QED BY <1>12, <2>0, <2>2, <2>3, <2>4 DEF ReadConnected
<1> QED BY <1>7, <1>10, <1>11, <1>12

LEMMA SteadyKept ==
  ASSUME DataTypeOK, ConnsKnown, Placement, Framed, SteadyTunnelLosesNothing, [Next]_vars
  PROVE  SteadyTunnelLosesNothing'
<1>1. CASE ~open'
  BY <1>1, SteadyIs DEF Live
<1>2. CASE UNCHANGED <<tunnel, device, delivered>>
  BY <1>2 DEF tunnel, bytes, device, SteadyTunnelLosesNothing, Live, InWire
<1>3. CASE Connect /\ UNCHANGED device
  <2>1. tcp_conn' <= conns /\ conns' = conns + 1 /\ conns \in Nat /\ tcp_conn' \in Nat
    BY <1>3, ConstantsAreNumbers
       DEF Connect, ConnsKnown, device, DataTypeOK, TunnelTypeOK, DeviceTypeOK, Conns, None
  <2>2. ~Live(tcp_conn)'
    BY <2>1 DEF Live
  <2> QED BY <2>2, SteadyIs
<1>4. CASE (ReadHeader \/ ReadBody) /\ UNCHANGED device
  <2>1. /\ UNCHANGED <<open, conns, torn, tcp_conn, pending_queue, taken, fate>>
        /\ wire # <<>> /\ wire' = Tail(wire)
    BY <1>4 DEF ReadHeader, ReadBody, ReadUnit, device
  <2>2. \A r : BodyIn(wire, r) => BodyIn(wire', r) \/ Head(wire) = Body(r)
    BY <2>1, FramedIs, UnitLeaves
  <2> SUFFICES ASSUME Live(tcp_conn)', ~torn', NEW q \in taken' PROVE Accounted(q)'
    BY SteadyIs
  <2>3. ~torn /\ Accounted(q) /\ q \in Packets
    BY <2>1, SteadyIs DEF Live, DataTypeOK, DeviceTypeOK
  <2>4. CASE ReadHeader
    <3>1. Head(wire).part = "len"
      BY <2>1, <2>3, <2>4, HeaderOfFrames DEF ReadHeader
    <3>2. Head(wire) # Body(q)
      BY <3>1 DEF Body
    <3>3. delivered' = delivered
      BY <2>4 DEF ReadHeader
    <3> QED BY <2>1, <2>2, <2>3, <3>2, <3>3 DEF Accounted
  <2>5. CASE ReadBody
    <3>1. PICK p \in Packets : hdr \o <<Head(wire)>> = Frame(p) /\ Head(wire) = Body(p)
      BY <2>1, <2>3, <2>5, BodyOfFrames DEF ReadBody
    <3>2. delivered' = [delivered EXCEPT ![p] = @ + 1]
      <4>1. Head(wire).pkt = p
        BY <3>1 DEF Body
      <4> QED BY <2>5, <3>1, <4>1 DEF ReadBody
    <3>3. delivered \in [Packets -> Nat]
      BY DEF DataTypeOK, HostTypeOK
    <3>4. CASE q = p
      BY <3>2, <3>3, <3>4 DEF Accounted
    <3>5. CASE q # p
      <4>1. delivered'[q] = delivered[q] /\ Head(wire) # Body(q)
        BY <2>3, <3>1, <3>2, <3>3, <3>5 DEF Body
      <4> QED BY <2>1, <2>2, <2>3, <4>1 DEF Accounted
    <3> QED BY <3>4, <3>5
  <2> QED BY <1>4, <2>4, <2>5
<1>5. CASE SenderEmits /\ UNCHANGED host
  <2>1. UNCHANGED <<open, conns, wire, torn, tcp_conn, pending_queue, taken, delivered>>
    BY <1>5 DEF SenderEmits, tunnel, bytes, host
  <2>2. \A q \in taken : fate'[q] = fate[q]
    <3> SUFFICES ASSUME NEW q \in taken PROVE fate'[q] = fate[q]
      OBVIOUS
    <3>1. q \in Packets /\ q <= sent /\ sent \in Nat
      BY ConstantsAreNumbers DEF Placement, OnePlace, DataTypeOK, DeviceTypeOK
    <3>2. q # sent + 1
      BY <3>1 DEF Packets
    <3> QED BY <1>5, <3>1, <3>2 DEF SenderEmits, DataTypeOK, DeviceTypeOK
  <2> QED BY <2>1, <2>2, SteadyIs DEF Accounted, Live
<1>6. CASE Break \/ ReadTimesOut
  BY <1>1, <1>6 DEF Break, ReadTimesOut
<1>7. CASE StreamEnds /\ UNCHANGED device
  BY <1>2, <1>7 DEF StreamEnds
<1>8. CASE UNCHANGED vars
  BY <1>2, <1>8 DEF vars, host
<1> QED BY <1>3, <1>4, <1>5, <1>6, <1>7, <1>8, DeviceKeepsSteady
     DEF Next, HostReads, HostClosesOrConnects

-----------------------------------------------------------------------------
(* The inductive invariant. *)

LEMMA InitData ==
  ASSUME Init
  PROVE  DataInv
<1> USE ConstantsAreNumbers
<1> USE DEF Init, TunnelInit, DeviceInit, HostInit
<1>1. \A S : <<>> \in Seq(S) /\ Len(<<>>) = 0 /\ ToSet(<<>>) = {} /\ IsInjective(<<>>)
  BY EmptyQueue
<1>2. TunnelTypeOK
  <2>1. backlog \in Seq(Conns) /\ wire \in Seq(Units) /\ Len(wire) <= TcpCap
    BY <1>1
  <2>2. conns \in 0 .. MaxConns
    <3>1. conns = 0 /\ 0 \in 0 .. MaxConns
      OBVIOUS
    <3> QED BY <3>1
  <2>3. open \in BOOLEAN /\ torn \in BOOLEAN
    OBVIOUS
  <2> QED BY <2>1, <2>2, <2>3 DEF TunnelTypeOK
<1>3. DeviceTypeOK
  <2>1. /\ udp_rcv \in Seq(Packets) /\ Len(udp_rcv) <= UdpCap
        /\ udp_buffer \in Seq(Packets) /\ Len(udp_buffer) <= MAX_BUFFERED_PKTS
        /\ pending_queue \in Seq(Packets) /\ Len(pending_queue) <= MAX_BUFFERED_PKTS
    BY <1>1
  <2>2. fate \in [Packets -> Fates] /\ taken \subseteq Packets
    BY DEF Fates
  <2>3. /\ sent \in 0 .. MaxPkts /\ tcp_conn \in Conns \cup {None}
        /\ conn_ready \in Conns \cup {None} /\ server_ready \in BOOLEAN
        /\ phase \in {"select", "accept", "flush", "udp", "retry", "health"}
    <3>1. 0 \in 0 .. MaxPkts /\ sent = 0 /\ tcp_conn = None /\ conn_ready = None
      OBVIOUS
    <3>2. server_ready = FALSE /\ phase = "select"
      OBVIOUS
    <3> QED BY <3>1, <3>2, Zenon
  <2> HIDE DEF Init, DeviceInit
  <2> QED BY <2>1, <2>2, <2>3 DEF DeviceTypeOK
<1>4. HostTypeOK
  <2>1. hdr \in Seq(Units) /\ Len(hdr) <= 1
    BY <1>1
  <2>2. linked \in BOOLEAN /\ delivered \in [Packets -> Nat] /\ garbage \in BOOLEAN
    OBVIOUS
  <2> QED BY <2>1, <2>2 DEF HostTypeOK
<1>5. ConnsKnown
  BY <1>1 DEF ConnsKnown, None
<1>6. Placement
  <2>1. ~BodyIn(wire, 0) /\ \A p : ~BodyIn(wire, p)
    BY <1>1 DEF BodyIn
  <2>2. Once(wire)
    BY EmptyQueue DEF Once
  <2>3. Different
    BY <1>1, <2>2 DEF Different
  <2>4. ASSUME NEW p \in Packets PROVE OnePlace(p)
    BY <1>1, <2>1 DEF OnePlace, Held, InWire, BodyIn, Body
  <2> QED BY <2>3, <2>4, PlacementIs
<1>7. AtMostOnce /\ GenuineUnlessTorn /\ SteadyTunnelLosesNothing
  BY DEF AtMostOnce, GenuineUnlessTorn, SteadyTunnelLosesNothing
<1>8. Framed
  <2>1. <<>> \o <<>> = <<>> /\ Len(<<>>) = 0 /\ DOMAIN <<>> = {}
    OBVIOUS
  <2> QED BY <2>1 DEF Framed, Whole
<1> QED BY <1>2, <1>3, <1>4, <1>5, <1>6, <1>7, <1>8 DEF DataInv, DataTypeOK

LEMMA NextData ==
  ASSUME DataInv, [Next]_vars
  PROVE  DataInv'
<1>1. /\ DataTypeOK /\ ConnsKnown /\ Placement /\ AtMostOnce
      /\ Framed /\ GenuineUnlessTorn /\ SteadyTunnelLosesNothing
  BY DEF DataInv
<1>2. /\ DataTypeOK' /\ ConnsKnown' /\ Placement' /\ AtMostOnce'
      /\ Framed' /\ GenuineUnlessTorn' /\ SteadyTunnelLosesNothing'
  BY <1>1, TypesKept, ConnsKnownKept, StepKinds, AtMostOnceKept, FramedKept, GenuineKept,
     SteadyKept
<1> QED BY <1>2 DEF DataInv

(* DataInv holds throughout: every packet is in one place, and while no    *)
(* frame is torn the host has whole frames before it.                      *)
THEOREM DataSafety == Spec => []DataInv
<1>1. Init => DataInv
  BY InitData
<1>2. DataInv /\ [Next]_vars => DataInv'
  BY NextData
<1> QED BY <1>1, <1>2, PTL DEF Spec

(* The variables keep their types, and the queues of the device bridge     *)
(* their bound (MAX_BUFFERED_PKTS).                                        *)
THEOREM DataIsTyped == Spec => []DataTypeOK
<1>1. DataInv => DataTypeOK
  BY DEF DataInv
<1> QED BY <1>1, DataSafety, PTL

(* The receiver gets no packet twice, whatever the bridges retry and flush *)
(* and however often the tunnel breaks.                                    *)
THEOREM NoDuplicates == Spec => []AtMostOnce
<1>1. DataInv => AtMostOnce
  BY DEF DataInv
<1> QED BY <1>1, DataSafety, PTL

(* The host bridge sends on something that is no packet only after a send  *)
(* of the device bridge stopped inside a frame.                            *)
THEOREM HeadersInStep == Spec => []GenuineUnlessTorn
<1>1. DataInv => GenuineUnlessTorn
  BY DEF DataInv
<1> QED BY <1>1, DataSafety, PTL

(* What the device bridge read over a connection that is neither broken    *)
(* nor torn is waiting, under way, delivered or trimmed from a full queue. *)
THEOREM NothingLost == Spec => []SteadyTunnelLosesNothing
<1>1. DataInv => SteadyTunnelLosesNothing
  BY DEF DataInv
<1> QED BY <1>1, DataSafety, PTL

-----------------------------------------------------------------------------
(* The two bridges implement the relay. *)

LEMMA InitRelays ==
  ASSUME Init
  PROVE  Relay!RelayInit
<1>1. \A p \in Packets : ~Held(p) /\ delivered[p] = 0 /\ ~(p <= sent)
  <2>1. ToSet(<<>>) = {}
    BY EmptyQueue
  <2> QED BY <2>1, ConstantsAreNumbers
          DEF Init, TunnelInit, DeviceInit, HostInit, Held, InWire, Packets
<1> QED BY <1>1 DEF Relay!RelayInit, RelayState

LEMMA StepRelays ==
  ASSUME DataInv, [Next]_vars
  PROVE  [Relay!RelayNext]_RelayState
<1> DEFINE StateOf(p) == IF delivered[p] > 0 THEN "delivered"
                         ELSE IF Held(p) THEN "held"
                         ELSE IF p <= sent THEN "lost"
                         ELSE "outside"
           st == RelayState
<1>0. st = [p \in Packets |-> StateOf(p)] /\ st' = [p \in Packets |-> StateOf(p)']
  BY DEF RelayState
<1> HIDE DEF st
<1>1. /\ DataTypeOK /\ Placement /\ DataTypeOK' /\ Placement'
      /\ delivered \in [Packets -> Nat] /\ sent \in Nat
  BY NextData, ConstantsAreNumbers DEF DataInv, DataTypeOK, HostTypeOK, DeviceTypeOK
<1>2. ASSUME NEW p \in Packets
      PROVE  /\ Held(p) => delivered[p] = 0 /\ p <= sent
             /\ delivered[p] > 0 => p <= sent
  <2>1. OnePlace(p)
    BY <1>1 DEF Placement
  <2> QED BY <2>1 DEF OnePlace
<1>3. CASE Carries
  <2> DEFINE gone == {p \in Packets : StateOf(p) = "held" /\ StateOf(p)' = "lost"}
  <2>1. ASSUME NEW p \in Packets
        PROVE  StateOf(p)' = IF p \in gone THEN "lost" ELSE StateOf(p)
    <3>1. (Held(p)' => Held(p)) /\ delivered'[p] = delivered[p] /\ sent' = sent
      BY <1>3 DEF Carries
    <3> QED BY <1>2, <3>1
  <2>2. st' = [p \in Packets |-> IF p \in gone THEN "lost" ELSE st[p]]
    BY <1>0, <2>1
  <2>3. gone \in SUBSET {p \in Packets : st[p] = "held"}
    BY <1>0
  <2>4. CASE gone = {}
    BY <1>0, <2>2, <2>4 DEF st
  <2>5. CASE gone # {}
    <3> HIDE DEF gone
    <3> QED BY <2>2, <2>3, <2>5 DEF Relay!RelayNext, Relay!LoseSome, st
  <2> QED BY <2>4, <2>5
<1>4. ASSUME NEW p \in Packets, Emits(p)
      PROVE  Relay!Move(p, "outside", "held") \/ Relay!Move(p, "outside", "lost")
  <2>1. /\ StateOf(p) = "outside" /\ StateOf(p)' \in {"held", "lost"}
        /\ \A q \in Packets : q # p => StateOf(q)' = StateOf(q)
    BY <1>1, <1>2, <1>4 DEF Emits
  <2>2. st' = [st EXCEPT ![p] = StateOf(p)']
    BY <1>0, <2>1
  <2> QED BY <1>0, <2>1, <2>2 DEF Relay!Move, st
<1>5. ASSUME NEW p \in Packets, Delivers(p)
      PROVE  Relay!Move(p, "held", "delivered")
  <2>1. delivered'[p] = 1 /\ \A q \in Packets : q # p => delivered'[q] = delivered[q]
    BY <1>1, <1>5 DEF Delivers
  <2>2. /\ StateOf(p) = "held" /\ StateOf(p)' = "delivered"
        /\ \A q \in Packets : q # p => StateOf(q)' = StateOf(q)
    BY <1>1, <1>2, <1>5, <2>1 DEF Delivers
  <2>3. st' = [st EXCEPT ![p] = "delivered"]
    BY <1>0, <2>2
  <2> QED BY <1>0, <2>2, <2>3 DEF Relay!Move, st
<1> QED BY <1>1, <1>3, <1>4, <1>5, StepKinds DEF Relay!RelayNext, st

(* Each packet is taken in once and then delivered or lost for good: the   *)
(* bridges and the tunnel between them are a PacketRelay.                  *)
THEOREM RelayImplemented == Spec => ImplementsRelay
<1>1. Init => Relay!RelayInit
  BY InitRelays
<1>2. DataInv /\ [Next]_vars => [Relay!RelayNext]_RelayState
  BY StepRelays
<1> QED BY <1>1, <1>2, DataSafety, PTL DEF Spec, ImplementsRelay, Relay!RelaySpec
=============================================================================
