---------------------------- MODULE StreamProof ----------------------------
(***************************************************************************)
(* Proofs about Stream. The bytes on their way are a run of the bytes of    *)
(* all messages in order: it begins where the reader is and, as long as the *)
(* connection is up, ends where the sender is. Since no induction over the  *)
(* run is possible, its distances are part of the invariant: Gap says how   *)
(* far two of its bytes are apart.                                          *)
(***************************************************************************)
EXTENDS Stream, TLAPS, SequenceTheorems

Tot(b, i) == Header + Len(b[i])

\* A byte of a message, and the byte that follows it.
IsByte(b, x) == x \in Byte /\ x[2] <= Tot(b, x[1])
After(b, x) == IF x[2] < Tot(b, x[1]) THEN <<x[1], x[2] + 1>> ELSE <<x[1] + 1, 1>>

\* y comes d places after x, in the same message or behind all the rest of x's.
Gap(b, x, y, d) ==
    \/ x[1] = y[1] /\ y[2] = x[2] + d
    \/ x[1] < y[1] /\ d >= Tot(b, x[1]) - x[2] + y[2]

Chain(b, w) ==
    /\ w \in Seq(Byte)
    /\ \A k \in 1 .. Len(w) : IsByte(b, w[k])
    /\ \A k \in 1 .. Len(w) - 1 : w[k + 1] = After(b, w[k])
    /\ \A k, l \in 1 .. Len(w) : k <= l => Gap(b, w[k], w[l], l - k)

\* The bytes n places into message i, from behind the p-th.
Piece(i, p, n) == [k \in 1 .. n |-> <<i, p + k>>]

ReaderAt == <<Len(received) + 1, Len(buf) + 1>>
WriterAt == <<wmsg, wptr + 1>>

WriterInv == IF wmsg \in Msgs THEN wptr < Tot(body, wmsg) ELSE wptr = 0

ReaderInv ==
    /\ ReceivedAsSent
    /\ part = "packet" => Len(buf) < Header /\ need = 0
    /\ part = "body" =>
        /\ Len(received) + 1 \in Msgs
        /\ Header <= Len(buf) /\ Len(buf) < Tot(body, Len(received) + 1)
        /\ need = Len(body[Len(received) + 1])
    /\ rpc = "select" => Len(buf) = IF part = "packet" THEN 0 ELSE Header

WireInv ==
    /\ Chain(body, wire)
    /\ wire # <<>> => wire[1] = ReaderAt
    /\ up => WriterAt = IF wire = <<>> THEN ReaderAt ELSE After(body, wire[Len(wire)])

IInv == TypeOK /\ WriterInv /\ ReaderInv /\ WireInv

-----------------------------------------------------------------------------
(***************************************************************************)
(* Runs of bytes.                                                           *)
(***************************************************************************)

\* A message has a length, and it is no shorter than its packet.
LEMMA TotNat ==
    ASSUME NEW b \in [Msgs -> Bodies], NEW i \in Msgs
    PROVE  Len(b[i]) \in Nat /\ Tot(b, i) \in Nat /\ Tot(b, i) >= Header /\ Header >= 1
BY HeaderAssumption, BodiesAssumption DEF Tot

\* Part of a run is a run: what ::recv leaves, and what a cut leaves.
LEMMA ChainSub ==
    ASSUME NEW b \in [Msgs -> Bodies], NEW w, Chain(b, w),
           NEW m \in 1 .. Len(w) + 1, NEW n \in 0 .. Len(w), m <= n + 1
    PROVE  /\ Chain(b, SubSeq(w, m, n))
           /\ Len(SubSeq(w, m, n)) = n - m + 1
           /\ \A k \in 1 .. n - m + 1 : SubSeq(w, m, n)[k] = w[m + k - 1]
PROOF
<1> DEFINE v == SubSeq(w, m, n)
<1>1. w \in Seq(Byte) /\ Len(w) \in Nat
  BY DEF Chain
<1>2. /\ v \in Seq(Byte)
      /\ Len(v) = n - m + 1
      /\ \A k \in 1 .. n - m + 1 : v[k] = w[m + k - 1]
  BY <1>1
<1>3. \A k \in 1 .. Len(v) : IsByte(b, v[k])
  <2>1. TAKE k \in 1 .. Len(v)
  <2>2. m + k - 1 \in 1 .. Len(w) /\ v[k] = w[m + k - 1]
    BY <1>1, <1>2
  <2> QED
    BY <2>2 DEF Chain
<1>4. \A k \in 1 .. Len(v) - 1 : v[k + 1] = After(b, v[k])
  <2>1. TAKE k \in 1 .. Len(v) - 1
  <2> DEFINE l == m + k - 1
  <2>2. l \in 1 .. Len(w) - 1 /\ v[k] = w[l] /\ v[k + 1] = w[l + 1]
    <3>1. v[k] = w[m + k - 1] /\ v[k + 1] = w[m + (k + 1) - 1]
      BY <1>2
    <3>2. m + (k + 1) - 1 = l + 1
      OBVIOUS
    <3> QED
      BY <1>1, <1>2, <3>1, <3>2
  <2>3. w[l + 1] = After(b, w[l])
    BY <2>2 DEF Chain
  <2> QED
    BY <2>2, <2>3
<1>5. \A k, l \in 1 .. Len(v) : k <= l => Gap(b, v[k], v[l], l - k)
  <2>1. TAKE k, l \in 1 .. Len(v)
  <2>2. HAVE k <= l
  <2> DEFINE kk == m + k - 1
             ll == m + l - 1
  <2>3. /\ kk \in 1 .. Len(w) /\ ll \in 1 .. Len(w) /\ kk <= ll /\ ll - kk = l - k
        /\ v[k] = w[kk] /\ v[l] = w[ll]
    BY <1>1, <1>2, <2>2
  <2> HIDE DEF kk, ll
  <2>4. Gap(b, w[kk], w[ll], ll - kk)
    BY <2>3 DEF Chain
  <2> QED
    BY <2>3, <2>4
<1> QED
  BY <1>2, <1>3, <1>4, <1>5 DEF Chain

\* The first n bytes of a run that begins in message i are n bytes of i, as long as i
\* has so many left.
LEMMA ChainRun ==
    ASSUME body \in [Msgs -> Bodies], Chain(body, wire), NEW i \in Msgs, NEW a \in Nat, NEW n \in 1 .. Len(wire),
           wire[1] = <<i, a + 1>>, a + n <= Tot(body, i)
    PROVE  \A k \in 1 .. n : wire[k] = <<i, a + k>>
PROOF
<1>1. TAKE k \in 1 .. n
<1>2. Len(wire) \in Nat /\ k \in 1 .. Len(wire) /\ 1 \in 1 .. Len(wire)
  <2>1. wire \in Seq(Byte)
    BY DEF Chain
  <2> QED
    BY <2>1
<1>3. Gap(body, wire[1], wire[k], k - 1)
  <2>1. \A j, l \in 1 .. Len(wire) : j <= l => Gap(body, wire[j], wire[l], l - j)
    BY DEF Chain
  <2>2. 1 <= k
    OBVIOUS
  <2> QED
    BY <1>2, <2>1, <2>2
<1>4. PICK j \in Msgs, c \in Nat \ {0} : wire[k] = <<j, c>>
  <2>1. IsByte(body, wire[k])
    BY <1>2 DEF Chain
  <2> QED
    BY <2>1 DEF IsByte, Byte
<1>5. ~(k - 1 >= Tot(body, i) - (a + 1) + c)
  BY <1>2, <1>4, TotNat
<1>6. i = j /\ c = (a + 1) + (k - 1)
  BY <1>3, <1>4, <1>5 DEF Gap
<1> QED
  BY <1>4, <1>6

\* A piece of a message.
LEMMA PieceChain ==
    ASSUME NEW b \in [Msgs -> Bodies], NEW i \in Msgs, NEW p \in Nat, NEW n \in Nat \ {0},
           p + n <= Tot(b, i)
    PROVE  /\ Chain(b, Piece(i, p, n))
           /\ Len(Piece(i, p, n)) = n
           /\ Piece(i, p, n)[1] = <<i, p + 1>> /\ Piece(i, p, n)[n] = <<i, p + n>>
PROOF
<1> DEFINE v == Piece(i, p, n)
<1>1. v \in Seq(Byte) /\ Len(v) = n
  BY DEF Piece, Byte
<1>2. \A k \in 1 .. n : v[k] = <<i, p + k>>
  BY DEF Piece
<1>3. \A k \in 1 .. n : IsByte(b, v[k])
  <2>1. TAKE k \in 1 .. n
  <2>2. v[k] = <<i, p + k>> /\ p + k \in Nat \ {0} /\ p + k <= Tot(b, i)
    BY <1>2, TotNat
  <2> QED
    BY <2>2 DEF IsByte, Byte
<1>4. \A k \in 1 .. n - 1 : v[k + 1] = After(b, v[k])
  <2>1. TAKE k \in 1 .. n - 1
  <2>2. v[k] = <<i, p + k>> /\ v[k + 1] = <<i, p + (k + 1)>>
    BY <1>2
  <2>3. p + k < Tot(b, i)
    BY TotNat
  <2> QED
    BY <2>2, <2>3 DEF After
<1>5. \A k, l \in 1 .. n : k <= l => Gap(b, v[k], v[l], l - k)
  BY <1>2 DEF Gap
<1> QED
  BY <1>1, <1>2, <1>3, <1>4, <1>5 DEF Chain

\* A run goes on with a piece that begins with the byte after its last: what ::send adds.
LEMMA ChainAppend ==
    ASSUME body \in [Msgs -> Bodies], Chain(body, wire), wire # <<>>,
           NEW i \in Msgs, NEW p \in Nat, NEW n \in Nat \ {0}, p + n <= Tot(body, i),
           After(body, wire[Len(wire)]) = <<i, p + 1>>
    PROVE  /\ Chain(body, wire \o Piece(i, p, n))
           /\ Len(wire \o Piece(i, p, n)) = Len(wire) + n
           /\ (wire \o Piece(i, p, n))[1] = wire[1]
           /\ (wire \o Piece(i, p, n))[Len(wire) + n] = <<i, p + n>>
PROOF
<1> DEFINE v == Piece(i, p, n)
           m == Len(wire)
           u == wire \o v
<1>1. wire \in Seq(Byte) /\ m \in Nat \ {0}
  BY DEF Chain
<1>2. Chain(body, v) /\ Len(v) = n /\ v \in Seq(Byte)
  <2>1. Chain(body, v) /\ Len(v) = n
    BY PieceChain
  <2> QED
    BY <2>1 DEF Chain
<1>3. \A k \in 1 .. n : v[k] = <<i, p + k>>
  BY DEF Piece
<1> HIDE DEF v
<1>4. /\ u \in Seq(Byte) /\ Len(u) = m + n
      /\ \A k \in 1 .. m : u[k] = wire[k]
      /\ \A k \in 1 .. n : u[m + k] = v[k]
  <2>1. /\ u \in Seq(Byte) /\ Len(u) = Len(wire) + Len(v)
        /\ \A k \in 1 .. Len(wire) + Len(v) : u[k] = IF k <= Len(wire) THEN wire[k] ELSE v[k - Len(wire)]
    BY <1>1, <1>2, ConcatProperties
  <2> QED
    BY <1>1, <1>2, <2>1
<1>5. m = Len(wire)
  OBVIOUS
<1> HIDE DEF m, u
<1>6. \A k \in m + 1 .. m + n : k - m \in 1 .. n /\ u[k] = <<i, p + (k - m)>>
  <2>1. TAKE k \in m + 1 .. m + n
  <2>2. k - m \in 1 .. n /\ m + (k - m) = k
    BY <1>1
  <2>3. u[m + (k - m)] = <<i, p + (k - m)>>
    BY <1>4, <1>3, <2>2
  <2> QED
    BY <2>2, <2>3
<1>7. PICK j \in Msgs, c \in Nat \ {0} : wire[m] = <<j, c>> /\ c <= Tot(body, j)
  <2>1. IsByte(body, wire[m])
    BY <1>1, <1>5 DEF Chain
  <2> QED
    BY <2>1 DEF IsByte, Byte
<1>8. Tot(body, i) \in Nat /\ Tot(body, j) \in Nat
  BY TotNat
<1>9. (j = i /\ c = p) \/ (i = j + 1 /\ p = 0 /\ c = Tot(body, j))
  <2>1. CASE c < Tot(body, j)
    BY <1>7, <1>5, <2>1 DEF After
  <2>2. CASE ~(c < Tot(body, j))
    BY <1>7, <1>8, <1>5, <2>2 DEF After
  <2> QED
    BY <2>1, <2>2
<1>10. \A k \in 1 .. m + n : IsByte(body, u[k])
  <2>1. TAKE k \in 1 .. m + n
  <2>2. CASE k \in 1 .. m
    BY <1>4, <1>5, <2>2 DEF Chain
  <2>3. CASE k \in m + 1 .. m + n
    <3>1. k - m \in 1 .. n /\ u[k] = v[k - m]
      BY <1>1, <1>3, <1>6, <2>3
    <3> QED
      BY <1>2, <3>1 DEF Chain
  <2> QED
    BY <1>1, <2>2, <2>3
<1>11. \A k \in 1 .. m + n - 1 : u[k + 1] = After(body, u[k])
  <2>1. TAKE k \in 1 .. m + n - 1
  <2>2. CASE k \in 1 .. m - 1
    <3>1. k \in 1 .. m /\ k + 1 \in 1 .. m /\ u[k] = wire[k] /\ u[k + 1] = wire[k + 1]
      BY <1>1, <1>4, <2>2
    <3> QED
      BY <1>5, <2>2, <3>1 DEF Chain
  <2>3. CASE k = m
    <3>1. u[k] = wire[m] /\ u[k + 1] = <<i, p + 1>>
      BY <1>1, <1>4, <1>6, <2>3
    <3> QED
      BY <1>5, <3>1
  <2>4. CASE k \in m + 1 .. m + n - 1
    <3>1. u[k] = <<i, p + (k - m)>> /\ u[k + 1] = <<i, p + (k - m) + 1>>
      <4>1. k + 1 \in m + 1 .. m + n /\ p + ((k + 1) - m) = p + (k - m) + 1
        BY <1>1, <2>4
      <4>2. k \in m + 1 .. m + n
        BY <1>1, <2>4
      <4> QED
        BY <1>6, <4>1, <4>2
    <3>2. p + (k - m) < Tot(body, i)
      BY <1>1, <1>8, <2>4
    <3> QED
      BY <3>1, <3>2 DEF After
  <2> QED
    BY <1>1, <2>2, <2>3, <2>4
<1>12. \A k \in 1 .. m, l \in 1 .. n : Gap(body, wire[k], <<i, p + l>>, (m - k) + l)
  <2>1. TAKE k \in 1 .. m, l \in 1 .. n
  <2>2. Gap(body, wire[k], wire[m], m - k)
    <3>1. \A q, r \in 1 .. m : q <= r => Gap(body, wire[q], wire[r], r - q)
      BY <1>5 DEF Chain
    <3> QED
      BY <1>1, <3>1
  <2>3. PICK h \in Msgs, a \in Nat \ {0} : wire[k] = <<h, a>> /\ a <= Tot(body, h)
    <3>1. IsByte(body, wire[k])
      BY <1>1, <1>5 DEF Chain
    <3> QED
      BY <3>1 DEF IsByte, Byte
  <2>4. Tot(body, h) \in Nat
    BY TotNat
  <2>5. (h = j /\ c = a + (m - k)) \/ (h < j /\ m - k >= Tot(body, h) - a + c)
    BY <1>7, <2>2, <2>3 DEF Gap
  <2>6. (h = i /\ p + l = a + ((m - k) + l)) \/ (h < i /\ (m - k) + l >= Tot(body, h) - a + (p + l))
    <3>1. h \in Int /\ j \in Int /\ i \in Int
      BY MessagesAssumption DEF Msgs
    <3>2. CASE j = i /\ c = p
      BY <1>1, <2>4, <2>5, <3>1, <3>2
    <3>3. CASE i = j + 1 /\ p = 0 /\ c = Tot(body, j)
      <4>1. CASE h = j /\ c = a + (m - k)
        BY <1>1, <1>8, <2>4, <3>1, <3>3, <4>1
      <4>2. CASE h < j /\ m - k >= Tot(body, h) - a + c
        BY <1>1, <1>8, <2>4, <3>1, <3>3, <4>2
      <4> QED
        BY <2>5, <4>1, <4>2
    <3> QED
      BY <1>9, <3>2, <3>3
  <2> QED
    BY <2>3, <2>6 DEF Gap
<1>13. \A k, l \in 1 .. m + n : k <= l => Gap(body, u[k], u[l], l - k)
  <2>1. TAKE k, l \in 1 .. m + n
  <2>2. HAVE k <= l
  <2>3. CASE l \in 1 .. m
    <3>1. k \in 1 .. m /\ u[k] = wire[k] /\ u[l] = wire[l]
      BY <1>1, <1>4, <2>2, <2>3
    <3> QED
      BY <1>5, <2>2, <2>3, <3>1 DEF Chain
  <2>4. CASE k \in 1 .. m /\ l \in m + 1 .. m + n
    <3>1. u[k] = wire[k] /\ u[l] = <<i, p + (l - m)>> /\ l - m \in 1 .. n
      BY <1>1, <1>4, <1>6, <2>4
    <3>2. Gap(body, wire[k], <<i, p + (l - m)>>, (m - k) + (l - m))
      BY <1>12, <2>4, <3>1
    <3>3. (m - k) + (l - m) = l - k
      BY <1>1
    <3> QED
      BY <3>1, <3>2, <3>3
  <2>5. CASE k \in m + 1 .. m + n
    <3>1. u[k] = <<i, p + (k - m)>> /\ u[l] = <<i, p + (l - m)>>
      BY <1>1, <1>6, <2>2, <2>5
    <3>2. p + (l - m) = p + (k - m) + (l - k)
      BY <1>1
    <3> QED
      BY <3>1, <3>2 DEF Gap
  <2> QED
    BY <1>1, <2>3, <2>4, <2>5
<1>14. Chain(body, u)
  <2>1. \A k \in 1 .. Len(u) : IsByte(body, u[k])
    BY <1>4, <1>10
  <2>2. \A k \in 1 .. Len(u) - 1 : u[k + 1] = After(body, u[k])
    BY <1>1, <1>4, <1>11
  <2>3. \A k, l \in 1 .. Len(u) : k <= l => Gap(body, u[k], u[l], l - k)
    BY <1>4, <1>13
  <2> QED
    BY <1>4, <2>1, <2>2, <2>3 DEF Chain
<1>15. u[1] = wire[1] /\ u[m + n] = <<i, p + n>>
  BY <1>1, <1>4, <1>6
<1> QED
  BY <1>4, <1>5, <1>14, <1>15 DEF u, v

-----------------------------------------------------------------------------
(***************************************************************************)
(* The reader takes bytes.                                                  *)
(***************************************************************************)

\* What a receive returns are the next bytes of the message that is received.
LEMMA Taken ==
    ASSUME IInv, NEW n \in Nat \ {0}, n <= Len(wire), n <= ReadRemain
    PROVE  /\ Len(received) + 1 \in Msgs
           /\ With(n) \in Seq(Byte) /\ Len(With(n)) = Len(buf) + n
           /\ Len(buf) + n <= Tot(body, Len(received) + 1)
           /\ \A k \in 1 .. Len(buf) + n : With(n)[k] = <<Len(received) + 1, k>>
           /\ wire[n] = <<Len(received) + 1, Len(buf) + n>>
PROOF
<1> DEFINE r == Len(received) + 1
           a == Len(buf)
           v == SubSeq(wire, 1, n)
<1>1. /\ body \in [Msgs -> Bodies] /\ Chain(body, wire) /\ wire \in Seq(Byte) /\ Len(wire) \in Nat
      /\ buf \in Seq(Byte) /\ a \in Nat
  BY DEF IInv, TypeOK, WireInv
<1>2. wire[1] = <<r, a + 1>> /\ r \in Msgs
  <2>1. wire # <<>> /\ 1 \in 1 .. Len(wire)
    BY <1>1
  <2>2. wire[1] = <<r, a + 1>>
    BY <2>1 DEF IInv, WireInv, ReaderAt
  <2>3. IsByte(body, wire[1])
    BY <1>1, <2>1 DEF Chain
  <2> QED
    BY <2>2, <2>3 DEF IsByte, Byte
<1>3. Tot(body, r) \in Nat /\ Tot(body, r) >= Header /\ Header \in Nat
  BY <1>1, <1>2, TotNat, HeaderAssumption
<1>4. a + n <= Tot(body, r)
  <2>1. CASE part = "packet"
    BY <1>1, <1>3, <2>1 DEF ReadRemain
  <2>2. CASE part = "body"
    <3>1. need = Len(body[r])
      BY <2>2 DEF IInv, ReaderInv
    <3>2. n <= Tot(body, r) - a
      BY <2>2, <3>1 DEF ReadRemain, Tot
    <3> QED
      BY <1>1, <1>3, <3>2
  <2> QED
    BY <2>1, <2>2 DEF IInv, TypeOK
<1>5. \A k \in 1 .. n : wire[k] = <<r, a + k>>
  <2>1. n \in 1 .. Len(wire) /\ a \in Nat
    BY <1>1
  <2>2. body \in [Msgs -> Bodies] /\ Chain(body, wire)
    BY <1>1
  <2> HIDE DEF r, a
  <2>3. \A i \in Msgs, c \in Nat : wire[1] = <<i, c + 1>> /\ c + n <= Tot(body, i)
            => \A k \in 1 .. n : wire[k] = <<i, c + k>>
    BY <2>1, <2>2, ChainRun
  <2> QED
    BY <1>2, <1>4, <2>1, <2>3
<1>6. v \in Seq(Byte) /\ Len(v) = n /\ \A k \in 1 .. n : v[k] = wire[k]
  BY <1>1
<1>7. \A k \in 1 .. a : buf[k] = <<r, k>>
  BY DEF IInv, ReaderInv, ReceivedAsSent
<1>8. With(n) = buf \o v
  BY DEF With
<1> HIDE DEF v
<1>9. /\ With(n) \in Seq(Byte) /\ Len(With(n)) = a + n
      /\ \A k \in 1 .. a : With(n)[k] = buf[k]
      /\ \A k \in a + 1 .. a + n : With(n)[k] = v[k - a]
  <2>1. /\ buf \o v \in Seq(Byte) /\ Len(buf \o v) = Len(buf) + Len(v)
        /\ \A k \in 1 .. Len(buf) + Len(v) :
              (buf \o v)[k] = IF k <= Len(buf) THEN buf[k] ELSE v[k - Len(buf)]
    BY <1>1, <1>6, ConcatProperties
  <2> QED
    BY <1>1, <1>6, <1>8, <2>1
<1>10. ASSUME NEW k \in 1 .. a + n PROVE With(n)[k] = <<r, k>>
  <2>1. CASE k \in 1 .. a
    BY <1>7, <1>9, <2>1
  <2>2. CASE k \in a + 1 .. a + n
    <3>1. k - a \in 1 .. n /\ a + (k - a) = k
      BY <1>1, <2>2
    <3> QED
      BY <1>5, <1>6, <1>9, <2>2, <3>1
  <2> QED
    BY <1>1, <2>1, <2>2
<1> QED
  BY <1>2, <1>4, <1>5, <1>9, <1>10

\* The wire keeps its place behind a reader that has taken n bytes.
LEMMA WireTaken ==
    ASSUME IInv, NEW n \in Nat \ {0}, n <= ReadRemain, Recv(n),
           UNCHANGED <<body, wmsg, wptr, up>>,
           ReaderAt' = After(body, <<Len(received) + 1, Len(buf) + n>>)
    PROVE  WireInv' /\ wire' \in Seq(Byte)
PROOF
<1>1. /\ body \in [Msgs -> Bodies] /\ Chain(body, wire) /\ wire \in Seq(Byte) /\ Len(wire) \in Nat
      /\ n <= Len(wire) /\ wire' = SubSeq(wire, n + 1, Len(wire))
  BY DEF IInv, TypeOK, WireInv, Recv
<1>2. wire[n] = <<Len(received) + 1, Len(buf) + n>>
  BY <1>1, Taken
<1>3. /\ Chain(body, wire') /\ Len(wire') = Len(wire) - n
      /\ \A k \in 1 .. Len(wire) - n : wire'[k] = wire[n + k]
  <2>1. n + 1 \in 1 .. Len(wire) + 1 /\ Len(wire) \in 0 .. Len(wire) /\ n + 1 <= Len(wire) + 1
    BY <1>1
  <2>2. /\ Chain(body, wire') /\ Len(wire') = Len(wire) - (n + 1) + 1
        /\ \A k \in 1 .. Len(wire) - (n + 1) + 1 : wire'[k] = wire[(n + 1) + k - 1]
    BY <1>1, <2>1, ChainSub
  <2> QED
    BY <1>1, <2>2
<1>4. wire' \in Seq(Byte)
  BY <1>3 DEF Chain
<1>5. wire' # <<>> => wire'[1] = ReaderAt'
  <2> SUFFICES ASSUME wire' # <<>> PROVE wire'[1] = After(body, wire[n])
    BY <1>2
  <2>1. Len(wire') # 0
    BY <1>4
  <2>2. n \in 1 .. Len(wire) - 1 /\ wire'[1] = wire[n + 1]
    BY <1>1, <1>3, <2>1
  <2> QED
    BY <1>1, <2>2 DEF Chain
<1>6. up => WriterAt = IF wire' = <<>> THEN ReaderAt' ELSE After(body, wire'[Len(wire')])
  <2> SUFFICES ASSUME up PROVE WriterAt = IF wire' = <<>> THEN ReaderAt' ELSE After(body, wire'[Len(wire')])
    OBVIOUS
  <2>1. wire # <<>> /\ WriterAt = After(body, wire[Len(wire)])
    <3>1. wire # <<>>
      BY <1>1
    <3> QED
      BY <3>1 DEF IInv, WireInv
  <2>2. CASE wire' = <<>>
    <3>1. Len(wire') = 0
      BY <2>2
    <3>2. n = Len(wire)
      BY <1>1, <1>3, <3>1
    <3> QED
      BY <1>2, <2>1, <2>2, <3>2
  <2>3. CASE wire' # <<>>
    <3>1. Len(wire') # 0
      BY <1>4, <2>3
    <3>2. Len(wire) - n \in 1 .. Len(wire) - n /\ n + (Len(wire) - n) = Len(wire)
      BY <1>1, <1>3, <1>4, <3>1
    <3>3. wire'[Len(wire')] = wire[Len(wire)]
      BY <1>3, <3>2
    <3> QED
      BY <2>1, <2>3, <3>3
  <2> QED
    BY <2>2, <2>3
<1> QED
  BY <1>3, <1>4, <1>5, <1>6 DEF WireInv, WriterAt

-----------------------------------------------------------------------------
(***************************************************************************)
(* The invariant.                                                           *)
(***************************************************************************)

\* Every step that leaves what the reader has unchanged keeps what is said of it.
LEMMA ReaderKept ==
    ASSUME IInv, UNCHANGED <<body, part, buf, need, received>>, rpc' # "select" \/ rpc' = rpc
    PROVE  ReaderInv' /\ ReaderAt' = ReaderAt
BY DEF IInv, ReaderInv, ReceivedAsSent, ReaderAt, Message, Total, Tot

\* A message is complete with the bytes just received.
LEMMA CompleteKeeps ==
    ASSUME IInv, NEW n \in Nat \ {0}, n <= ReadRemain, Recv(n), Complete(With(n)),
           Len(buf) + n = Tot(body, Len(received) + 1),
           UNCHANGED <<body, senderVars, up, timeouts>>
    PROVE  IInv'
PROOF
<1> DEFINE r == Len(received) + 1
<1>1. /\ body \in [Msgs -> Bodies] /\ received \in Seq(Seq(Byte)) /\ Len(received) \in Nat
      /\ Messages \in Nat /\ Header \in Nat \ {0} /\ n <= Len(wire)
  BY MessagesAssumption, HeaderAssumption DEF IInv, TypeOK, Recv
<1>2. /\ r \in Msgs /\ With(n) \in Seq(Byte) /\ Len(With(n)) = Tot(body, r)
      /\ \A k \in 1 .. Tot(body, r) : With(n)[k] = <<r, k>>
  BY <1>1, Taken
<1>3. With(n) = Message(r)
  <2>1. Tot(body, r) \in Nat
    BY <1>1, <1>2, TotNat
  <2>2. /\ Message(r) \in Seq(Byte) /\ Len(Message(r)) = Tot(body, r)
        /\ \A k \in 1 .. Tot(body, r) : Message(r)[k] = <<r, k>>
    <3>1. Message(r) = [k \in 1 .. Tot(body, r) |-> <<r, k>>]
      BY DEF Message, Total, Tot
    <3>2. \A k \in 1 .. Tot(body, r) : <<r, k>> \in Byte
      BY <1>2, <2>1 DEF Byte
    <3> HIDE DEF r
    <3> QED
      BY <2>1, <3>1, <3>2
  <2> QED
    BY <1>2, <2>2, SeqEqual
<1>4. /\ received' \in Seq(Seq(Byte)) /\ Len(received') = r
      /\ \A i \in 1 .. Len(received) : received'[i] = received[i]
      /\ received'[r] = With(n)
      /\ rpc' = "select" /\ part' = "packet" /\ buf' = <<>> /\ need' = 0
  BY <1>1, <1>2 DEF Complete
<1>5. ReceivedAsSent'
  <2>1. Len(received') <= Messages
    BY <1>1, <1>2, <1>4 DEF Msgs
  <2>2. ASSUME NEW i \in 1 .. Len(received') PROVE received'[i] = Message(i)'
    <3>1. Message(i)' = Message(i)
      BY DEF Message, Total
    <3>2. CASE i \in 1 .. Len(received)
      BY <1>4, <3>1, <3>2 DEF IInv, ReaderInv, ReceivedAsSent
    <3>3. CASE i = r
      BY <1>3, <1>4, <3>1, <3>3
    <3> QED
      BY <1>1, <1>4, <2>2, <3>2, <3>3
  <2>3. Len(buf') = 0
    BY <1>4
  <2> QED
    BY <2>1, <2>2, <2>3 DEF ReceivedAsSent
<1>6. ReaderInv'
  <2>1. Len(buf') = 0 /\ 0 < Header
    BY <1>1, <1>4
  <2> QED
    BY <1>4, <1>5, <2>1 DEF ReaderInv
<1>7. WireInv' /\ wire' \in Seq(Byte)
  <2>1. ReaderAt' = <<r + 1, 1>>
    BY <1>4 DEF ReaderAt
  <2>2. After(body, <<r, Len(buf) + n>>) = <<r + 1, 1>>
    BY <1>1, <1>2, TotNat DEF After
  <2> QED
    BY <2>1, <2>2, WireTaken DEF senderVars
<1>8. TypeOK'
  BY <1>4, <1>7 DEF IInv, TypeOK, senderVars
<1>9. WriterInv'
  BY DEF IInv, WriterInv, senderVars, Tot
<1> QED
  BY <1>6, <1>7, <1>8, <1>9 DEF IInv

\* A receive goes on: read has part of the packet or of the body, or the packet is there
\* and a body is announced.
LEMMA PartialKeeps ==
    ASSUME IInv, NEW n \in Nat \ {0}, n <= ReadRemain, Recv(n), buf' = With(n),
           Len(buf) + n < Tot(body, Len(received) + 1),
           UNCHANGED <<body, senderVars, up, received, timeouts>>,
           part' \in {"packet", "body"}, rpc' \in {"select", "recv"},
           part' = "packet" => Len(buf) + n < Header /\ need' = 0,
           part' = "body" => Len(buf) + n >= Header /\ need' = Len(body[Len(received) + 1]),
           rpc' = "select" => part' = "body" /\ Len(buf) + n = Header
    PROVE  IInv'
PROOF
<1> DEFINE r == Len(received) + 1
<1>1. /\ body \in [Msgs -> Bodies] /\ Len(received) \in Nat /\ Len(buf) \in Nat /\ n <= Len(wire)
  BY DEF IInv, TypeOK, Recv
<1>2. /\ r \in Msgs /\ buf' \in Seq(Byte) /\ Len(buf') = Len(buf) + n
      /\ \A k \in 1 .. Len(buf) + n : buf'[k] = <<r, k>>
  BY <1>1, Taken
<1>3. ReceivedAsSent'
  <2>1. \A i \in 1 .. Len(received) : Message(i)' = Message(i)
    BY DEF Message, Total
  <2> QED
    BY <1>2, <2>1 DEF IInv, ReaderInv, ReceivedAsSent
<1>4. ReaderInv'
  BY <1>2, <1>3 DEF ReaderInv, Tot
<1>5. WireInv' /\ wire' \in Seq(Byte)
  <2>1. ReaderAt' = <<r, Len(buf) + n + 1>>
    BY <1>2 DEF ReaderAt
  <2>2. After(body, <<r, Len(buf) + n>>) = <<r, Len(buf) + n + 1>>
    BY DEF After
  <2> QED
    BY <2>1, <2>2, WireTaken DEF senderVars
<1>6. need' \in Nat
  <2>1. Len(body[r]) \in Nat
    BY <1>1, <1>2, TotNat
  <2> QED
    BY <2>1
<1>7. TypeOK'
  BY <1>2, <1>5, <1>6 DEF IInv, TypeOK, senderVars
<1>8. WriterInv'
  BY DEF IInv, WriterInv, senderVars, Tot
<1> QED
  BY <1>4, <1>5, <1>7, <1>8 DEF IInv

\* The sender's bytes go on where the run ends.
LEMMA SendKeeps ==
    ASSUME IInv, NEW n \in 1 .. Capacity, Send(n)
    PROVE  IInv'
PROOF
<1>1. /\ body \in [Msgs -> Bodies] /\ body' = body /\ wmsg \in Msgs /\ wptr \in Nat
      /\ n \in Nat \ {0} /\ wptr + n <= Tot(body, wmsg)
      /\ wptr' \in Nat /\ wmsg' \in 1 .. Messages + 1 /\ WriterInv'
      /\ <<wmsg', wptr' + 1>> = After(body, <<wmsg, wptr + n>>)
  <2>1. body \in [Msgs -> Bodies] /\ body' = body /\ wmsg \in Msgs /\ wptr \in Nat /\ n \in Nat \ {0}
    BY CapacityAssumption DEF IInv, TypeOK, Send, Msgs
  <2>2. /\ Total(wmsg) = Tot(body, wmsg) /\ Tot(body, wmsg) \in Nat
        /\ Tot(body, wmsg) >= Header /\ Header \in Nat \ {0}
    BY <2>1, TotNat, HeaderAssumption DEF Total, Tot
  <2>3. wptr + n <= Tot(body, wmsg)
    BY <2>1, <2>2 DEF Send, WriteRemain, ItemEnd
  <2>4. CASE wptr + n = Tot(body, wmsg)
    <3>1. wmsg' = wmsg + 1 /\ wptr' = 0
      BY <2>2, <2>4 DEF Send
    <3>2. wmsg' \in 1 .. Messages + 1
      BY <2>1, <3>1, MessagesAssumption DEF Msgs
    <3>3. WriterInv'
      <4>1. wmsg' \in Msgs => Tot(body, wmsg') \in Nat /\ 0 < Tot(body, wmsg')
        BY <2>1, TotNat, HeaderAssumption
      <4> QED
        BY <2>1, <3>1, <4>1 DEF WriterInv, Tot
    <3>4. After(body, <<wmsg, wptr + n>>) = <<wmsg + 1, 1>>
      BY <2>2, <2>4 DEF After
    <3> QED
      BY <2>1, <2>2, <2>3, <3>1, <3>2, <3>3, <3>4
  <2>5. CASE wptr + n # Tot(body, wmsg)
    <3>1. wmsg' = wmsg /\ wptr' = wptr + n
      BY <2>2, <2>5 DEF Send
    <3>2. wptr + n < Tot(body, wmsg)
      BY <2>1, <2>2, <2>3, <2>5
    <3>3. WriterInv'
      BY <2>1, <3>1, <3>2 DEF WriterInv, Tot
    <3>4. After(body, <<wmsg, wptr + n>>) = <<wmsg, wptr + n + 1>>
      BY <3>2 DEF After
    <3> QED
      BY <2>1, <2>2, <2>3, <3>1, <3>3, <3>4, MessagesAssumption DEF Msgs
  <2> QED
    BY <2>4, <2>5
<1>2. WireInv' /\ wire' \in Seq(Byte)
  <2>1. ReaderAt' = ReaderAt
    BY DEF Send, readerVars, ReaderAt
  <2>2. Chain(body, wire) /\ wire \in Seq(Byte) /\ up' = up
    BY DEF IInv, WireInv, TypeOK, Send
  <2>3. CASE ~up
    <3>1. wire' = wire
      BY <2>3 DEF Send
    <3> QED
      BY <1>1, <2>1, <2>2, <2>3, <3>1 DEF IInv, WireInv
  <2>4. CASE up /\ wire = <<>>
    <3>1. wire' = Piece(wmsg, wptr, n)
      <4>1. wire' = wire \o Piece(wmsg, wptr, n)
        BY <2>4 DEF Send, Piece
      <4>2. Piece(wmsg, wptr, n) \in Seq(Byte)
        BY <1>1, PieceChain DEF Chain
      <4> QED
        BY <2>4, <4>1, <4>2, ConcatEmptySeq
    <3>2. /\ Chain(body, wire') /\ Len(wire') = n
          /\ wire'[1] = <<wmsg, wptr + 1>> /\ wire'[n] = <<wmsg, wptr + n>>
      BY <1>1, <3>1, PieceChain
    <3>3. wire' # <<>> /\ wire' \in Seq(Byte)
      BY <1>1, <3>2 DEF Chain
    <3>4. ReaderAt = <<wmsg, wptr + 1>>
      BY <2>4 DEF IInv, WireInv, WriterAt
    <3>5. WriterAt' = After(body, wire'[Len(wire')])
      BY <1>1, <3>2 DEF WriterAt
    <3> QED
      BY <1>1, <2>1, <3>2, <3>3, <3>4, <3>5 DEF WireInv
  <2>5. CASE up /\ wire # <<>>
    <3>1. wire' = wire \o Piece(wmsg, wptr, n)
      BY <2>5 DEF Send, Piece
    <3>2. After(body, wire[Len(wire)]) = <<wmsg, wptr + 1>>
      BY <2>5 DEF IInv, WireInv, WriterAt
    <3>3. /\ Chain(body, wire') /\ Len(wire') = Len(wire) + n
          /\ wire'[1] = wire[1] /\ wire'[Len(wire) + n] = <<wmsg, wptr + n>>
      <4>1. \A i \in Msgs, p \in Nat, m \in Nat \ {0} :
                p + m <= Tot(body, i) /\ After(body, wire[Len(wire)]) = <<i, p + 1>>
                => /\ Chain(body, wire \o Piece(i, p, m))
                   /\ Len(wire \o Piece(i, p, m)) = Len(wire) + m
                   /\ (wire \o Piece(i, p, m))[1] = wire[1]
                   /\ (wire \o Piece(i, p, m))[Len(wire) + m] = <<i, p + m>>
        <5>1. body \in [Msgs -> Bodies] /\ Chain(body, wire) /\ wire # <<>>
          BY <1>1, <2>2, <2>5
        <5> QED
          BY <5>1, ChainAppend
      <4> QED
        BY <1>1, <3>1, <3>2, <4>1
    <3>4. wire' # <<>> /\ wire' \in Seq(Byte)
      <4>1. Len(wire') # 0
        BY <1>1, <2>2, <3>3
      <4> QED
        BY <3>3, <4>1 DEF Chain
    <3>5. wire[1] = ReaderAt
      BY <2>5 DEF IInv, WireInv
    <3>6. WriterAt' = After(body, wire'[Len(wire')])
      BY <1>1, <3>3 DEF WriterAt
    <3> QED
      BY <1>1, <2>1, <3>3, <3>4, <3>5, <3>6 DEF WireInv
  <2> QED
    BY <2>3, <2>4, <2>5
<1>3. TypeOK'
  BY <1>1, <1>2 DEF IInv, TypeOK, Send, readerVars
<1>4. ReaderInv'
  BY ReaderKept DEF Send, readerVars
<1> QED
  BY <1>1, <1>2, <1>3, <1>4 DEF IInv

\* A packet announces what its sender put into it.
LEMMA AnnouncedRight ==
    ASSUME NEW i \in Msgs, NEW bytes, bytes = [k \in 1 .. Header |-> <<i, k>>]
    PROVE  Announced(bytes) = {Len(body[i])}
PROOF
<1>1. ASSUME NEW j \in Msgs, bytes = [k \in 1 .. Header |-> <<j, k>>] PROVE j = i
  <2>1. 1 \in 1 .. Header
    BY HeaderAssumption
  <2>2. bytes[1] = <<i, 1>> /\ bytes[1] = <<j, 1>>
    BY <1>1, <2>1
  <2> QED
    BY <2>2
<1>2. {j \in Msgs : bytes = [k \in 1 .. Header |-> <<j, k>>]} = {i}
  BY <1>1
<1> QED
  BY <1>2 DEF Announced

LEMMA RecvSomeKeeps ==
    ASSUME IInv, NEW n \in 1 .. Capacity, RecvSome(n)
    PROVE  IInv'
PROOF
<1>1. n \in Nat \ {0} /\ n <= ReadRemain /\ n < ReadRemain /\ n <= Len(wire) /\ Recv(n)
  <2>1. ReadRemain \in Int
    BY HeaderAssumption DEF ReadRemain, IInv, TypeOK
  <2> QED
    BY <2>1, CapacityAssumption DEF RecvSome, Recv
<1>2. rpc' = "recv" /\ part' = part /\ need' = need
  BY DEF RecvSome, Recv
<1>3. /\ Len(received) + 1 \in Msgs /\ body \in [Msgs -> Bodies] /\ Len(buf) \in Nat
      /\ Tot(body, Len(received) + 1) \in Nat /\ Header <= Tot(body, Len(received) + 1)
      /\ Header \in Nat \ {0}
  <2>1. Len(received) + 1 \in Msgs
    BY <1>1, Taken
  <2>2. body \in [Msgs -> Bodies] /\ Len(buf) \in Nat
    BY DEF IInv, TypeOK
  <2> QED
    BY <2>1, <2>2, TotNat, HeaderAssumption
<1>4. CASE part = "packet"
  <2>1. Len(buf) + n < Header /\ need = 0
    BY <1>1, <1>3, <1>4 DEF ReadRemain, IInv, ReaderInv
  <2> QED
    BY <1>1, <1>2, <1>3, <1>4, <2>1, PartialKeeps DEF RecvSome, IInv, TypeOK
<1>5. CASE part = "body"
  <2>1. need = Len(body[Len(received) + 1]) /\ Header <= Len(buf)
    BY <1>5 DEF IInv, ReaderInv
  <2>2. Len(buf) + n < Tot(body, Len(received) + 1) /\ Len(buf) + n >= Header
    <3>1. ReadRemain = Tot(body, Len(received) + 1) - Len(buf)
      BY <1>5, <2>1 DEF ReadRemain, Tot
    <3> QED
      BY <1>1, <1>3, <2>1, <3>1
  <2> QED
    BY <1>1, <1>2, <1>3, <1>5, <2>1, <2>2, PartialKeeps DEF RecvSome, IInv, TypeOK
<1> QED
  BY <1>4, <1>5 DEF IInv, TypeOK

LEMMA RecvPacketKeeps ==
    ASSUME IInv, RecvPacket
    PROVE  IInv'
PROOF
<1> DEFINE n == ReadRemain
           r == Len(received) + 1
<1>1. n = Header - Len(buf) /\ n \in Nat \ {0} /\ Len(buf) + n = Header /\ Recv(n) /\ n <= Len(wire)
  BY HeaderAssumption DEF RecvPacket, ReadRemain, IInv, TypeOK, ReaderInv, Recv
<1>2. /\ r \in Msgs /\ With(n) \in Seq(Byte) /\ Len(With(n)) = Header
      /\ \A k \in 1 .. Header : With(n)[k] = <<r, k>>
  <2> HIDE DEF n, r
  <2>1. n <= ReadRemain
    BY <1>1 DEF n
  <2> QED
    BY <1>1, <2>1, Taken DEF r
<1>3. body \in [Msgs -> Bodies] /\ Len(body[r]) \in Nat /\ Tot(body, r) = Header + Len(body[r])
  BY <1>2, TotNat DEF IInv, TypeOK, Tot
<1>4. Announced(With(n)) = {Len(body[r])}
  <2>1. With(n) = [k \in 1 .. Header |-> <<r, k>>]
    <3> DEFINE packet == [k \in 1 .. Header |-> <<r, k>>]
    <3>1. packet \in Seq(Byte) /\ Len(packet) = Header /\ \A k \in 1 .. Header : packet[k] = <<r, k>>
      BY <1>2, HeaderAssumption DEF Byte
    <3> HIDE DEF packet, r, n
    <3>2. With(n) = packet
      BY <1>2, <3>1, SeqEqual
    <3> QED
      BY <3>2 DEF packet
  <2> QED
    BY <1>2, <2>1, AnnouncedRight
<1>5. CASE Len(body[r]) = 0
  <2>1. Complete(With(n)) /\ UNCHANGED <<body, senderVars, up, timeouts>>
    BY <1>4, <1>5 DEF RecvPacket
  <2>2. Len(buf) + n = Tot(body, r) /\ n <= ReadRemain
    BY <1>1, <1>3, <1>5
  <2> QED
    BY <1>1, <2>1, <2>2, CompleteKeeps
<1>6. CASE Len(body[r]) # 0
  <2>1. /\ rpc' = "select" /\ part' = "body" /\ buf' = With(n) /\ need' = Len(body[r])
        /\ UNCHANGED <<body, senderVars, up, received, timeouts>>
    BY <1>4, <1>6 DEF RecvPacket
  <2>2. Len(buf) + n < Tot(body, r) /\ n <= ReadRemain /\ Len(buf) + n >= Header
    BY <1>1, <1>3, <1>6, HeaderAssumption
  <2> QED
    BY <1>1, <2>1, <2>2, PartialKeeps
<1> QED
  BY <1>5, <1>6

LEMMA RecvBodyKeeps ==
    ASSUME IInv, RecvBody
    PROVE  IInv'
PROOF
<1> DEFINE n == ReadRemain
           r == Len(received) + 1
<1>1. /\ r \in Msgs /\ need = Len(body[r]) /\ Len(buf) < Tot(body, r) /\ Len(buf) \in Nat
      /\ n = Tot(body, r) - Len(buf) /\ body \in [Msgs -> Bodies]
  BY DEF RecvBody, IInv, TypeOK, ReaderInv, ReadRemain, Tot
<1>2. n \in Nat \ {0} /\ n <= ReadRemain /\ Len(buf) + n = Tot(body, r)
  BY <1>1, TotNat
<1>3. Recv(n) /\ Complete(With(n)) /\ UNCHANGED <<body, senderVars, up, timeouts>>
  BY DEF RecvBody
<1> QED
  BY <1>2, <1>3, CompleteKeeps

LEMMA CutKeeps ==
    ASSUME IInv, Cut
    PROVE  IInv'
PROOF
<1>1. PICK n \in 0 .. Len(wire) : wire' = SubSeq(wire, 1, n)
  BY DEF Cut
<1>2. up' = FALSE /\ UNCHANGED <<body, senderVars, readerVars>>
  BY DEF Cut
<1>3. body \in [Msgs -> Bodies] /\ Chain(body, wire) /\ wire \in Seq(Byte) /\ Len(wire) \in Nat
  BY DEF IInv, TypeOK, WireInv
<1>4. Chain(body, wire') /\ Len(wire') = n /\ \A k \in 1 .. n : wire'[k] = wire[k]
  <2>1. 1 \in 1 .. Len(wire) + 1 /\ 1 <= n + 1 /\ n \in Nat
    BY <1>1, <1>3
  <2>2. /\ Chain(body, wire') /\ Len(wire') = n - 1 + 1
        /\ \A k \in 1 .. n - 1 + 1 : wire'[k] = wire[1 + k - 1]
    <3>1. /\ Chain(body, SubSeq(wire, 1, n)) /\ Len(SubSeq(wire, 1, n)) = n - 1 + 1
          /\ \A k \in 1 .. n - 1 + 1 : SubSeq(wire, 1, n)[k] = wire[1 + k - 1]
      BY <1>3, <2>1, ChainSub
    <3> QED
      BY <1>1, <3>1
  <2> QED
    BY <2>1, <2>2
<1>5. wire' \in Seq(Byte)
  BY <1>4 DEF Chain
<1>6. wire' # <<>> => wire'[1] = ReaderAt'
  <2> SUFFICES ASSUME wire' # <<>> PROVE wire'[1] = ReaderAt'
    OBVIOUS
  <2>1. Len(wire') # 0
    BY <1>5
  <2>2. wire # <<>> /\ wire'[1] = wire[1]
    BY <1>1, <1>3, <1>4, <2>1
  <2> QED
    BY <1>2, <2>2 DEF IInv, WireInv, ReaderAt, readerVars
<1>7. WireInv'
  BY <1>2, <1>4, <1>6 DEF WireInv
<1>8. TypeOK' /\ WriterInv'
  BY <1>2, <1>5 DEF IInv, TypeOK, WriterInv, Tot, senderVars, readerVars
<1>9. ReaderInv'
  BY <1>2, ReaderKept DEF readerVars
<1> QED
  BY <1>7, <1>8, <1>9 DEF IInv

\* The steps that move no byte.
LEMMA WireKept ==
    ASSUME IInv, UNCHANGED <<body, wmsg, wptr, wire, up, part, buf, need, received>>,
           rpc' \in {"select", "recv", "failed"}, rpc' # "select" \/ rpc' = rpc,
           wpc' \in {"writing", "failed"}, timeouts' \in 0 .. MaxTimeouts
    PROVE  IInv'
PROOF
<1>1. ReaderInv' /\ ReaderAt' = ReaderAt
  BY ReaderKept
<1>2. WireInv'
  BY <1>1 DEF IInv, WireInv, WriterAt
<1>3. TypeOK' /\ WriterInv'
  BY DEF IInv, TypeOK, WriterInv, Tot
<1> QED
  BY <1>1, <1>2, <1>3 DEF IInv

LEMMA InitInv == StreamInit => IInv
PROOF
<1> SUFFICES ASSUME StreamInit PROVE IInv
  OBVIOUS
<1>1. TypeOK
  BY MessagesAssumption, MaxTimeoutsAssumption DEF StreamInit, TypeOK
<1>2. WriterInv
  <2>1. 1 \in Msgs => Tot(body, 1) \in Nat /\ Tot(body, 1) >= 1
    BY <1>1, TotNat, HeaderAssumption DEF TypeOK
  <2> QED
    BY <2>1 DEF StreamInit, WriterInv
<1>3. ReaderInv
  BY HeaderAssumption, MessagesAssumption DEF StreamInit, ReaderInv, ReceivedAsSent
<1>4. WireInv
  <2>1. Chain(body, <<>>)
    BY DEF Chain
  <2> QED
    BY <2>1 DEF StreamInit, WireInv, ReaderAt, WriterAt
<1> QED
  BY <1>1, <1>2, <1>3, <1>4 DEF IInv

LEMMA NextInv == IInv /\ [StreamNext]_streamVars => IInv'
PROOF
<1> SUFFICES ASSUME IInv, [StreamNext]_streamVars PROVE IInv'
  OBVIOUS
<1>1. TypeOK
  BY DEF IInv
<1>2. ASSUME NEW n \in 1 .. Capacity, Send(n) PROVE IInv'
  BY <1>2, SendKeeps
<1>3. CASE SendFails
  BY <1>1, <1>3, WireKept DEF SendFails, readerVars, TypeOK
<1>4. CASE WaitRead
  BY <1>1, <1>4, WireKept DEF WaitRead, senderVars, TypeOK
<1>5. CASE TimedOut
  <2>1. timeouts' \in 0 .. MaxTimeouts
    BY <1>1, <1>5, MaxTimeoutsAssumption DEF TimedOut, TypeOK
  <2> QED
    BY <1>1, <1>5, <2>1, WireKept DEF TimedOut, senderVars, TypeOK
<1>6. CASE RecvPacket
  BY <1>6, RecvPacketKeeps
<1>7. CASE RecvBody
  BY <1>7, RecvBodyKeeps
<1>8. CASE RecvFails
  BY <1>1, <1>8, WireKept DEF RecvFails, senderVars, TypeOK
<1>9. ASSUME NEW n \in 1 .. Capacity, RecvSome(n) PROVE IInv'
  BY <1>9, RecvSomeKeeps
<1>10. CASE Cut
  BY <1>10, CutKeeps
<1>11. CASE UNCHANGED streamVars
  BY <1>1, <1>11, WireKept DEF streamVars, senderVars, readerVars, TypeOK
<1> QED
  BY <1>2, <1>3, <1>4, <1>5, <1>6, <1>7, <1>8, <1>9, <1>10, <1>11 DEF StreamNext, Sender, Reader

\* The bytes on their way are those between the reader and the sender.
THEOREM StreamInvariant == StreamSpec => []IInv
BY InitInv, NextInv, PTL DEF StreamSpec

\* Every variable of a stream keeps its type.
THEOREM StreamTypes == StreamSpec => []TypeOK
PROOF
<1>1. IInv => TypeOK
  BY DEF IInv
<1> QED
  BY <1>1, StreamInvariant, PTL

\* Whatever the sizes of messages and pieces, the capacity of the kernel, the time-outs
\* and the place of a cut: what was received is what was sent, byte for byte.
THEOREM BytesAsSent == StreamSpec => []ReceivedAsSent
PROOF
<1>1. IInv => ReceivedAsSent
  BY DEF IInv, ReaderInv
<1> QED
  BY <1>1, StreamInvariant, PTL

\* A receive, the first one or one repeated after a time-out, starts with the first byte
\* of what it asks for.
THEOREM ReceiveStartsAtItem == StreamSpec => []StartsAtItem
PROOF
<1>1. IInv => StartsAtItem
  BY DEF IInv, ReaderInv, WireInv, StartsAtItem, ReaderAt
<1> QED
  BY <1>1, StreamInvariant, PTL

\* A sender gives up only after a cut.
LEMMA StillWriting ==
    ASSUME [StreamNext]_streamVars, up => wpc = "writing"
    PROVE  up' => wpc' = "writing"
BY DEF StreamNext, Sender, Reader, Send, SendFails, WaitRead, TimedOut, RecvPacket, RecvBody, RecvFails,
       RecvSome, Cut, streamVars, senderVars

\* While the connection is up, a reader in the middle of a message waits only for bytes
\* that the sender is still to send, at the very place where the reader is.
THEOREM NoEndlessRead == StreamSpec => []SenderOwes
PROOF
<1>1. StreamInit => (up => wpc = "writing")
  BY DEF StreamInit
<1>2. (up => wpc = "writing") /\ [StreamNext]_streamVars => (up => wpc = "writing")'
  BY StillWriting
<1>3. IInv /\ (up => wpc = "writing") => SenderOwes
  <2> SUFFICES ASSUME IInv, up, wpc = "writing", wire = <<>>, buf # <<>> PROVE SenderOwes
    BY DEF SenderOwes
  <2>1. wmsg = Len(received) + 1 /\ wptr + 1 = Len(buf) + 1
    BY DEF IInv, WireInv, WriterAt, ReaderAt
  <2>2. wptr \in Nat /\ Len(buf) \in Nat \ {0} /\ body \in [Msgs -> Bodies] /\ wmsg \in 1 .. Messages + 1
    BY DEF IInv, TypeOK
  <2>3. wptr = Len(buf) /\ wptr # 0
    BY <2>1, <2>2
  <2>4. wmsg \in Msgs /\ wptr < Tot(body, wmsg)
    BY <2>3 DEF IInv, WriterInv
  <2> QED
    BY <2>1, <2>3, <2>4, MessagesAssumption DEF SenderOwes, Tot, Total, Msgs
<1> QED
  BY <1>1, <1>2, <1>3, StreamInvariant, PTL DEF StreamSpec

-----------------------------------------------------------------------------
(***************************************************************************)
(* The stream implements the channel of whole items.                        *)
(***************************************************************************)

\* EndsItem and ItemsIn with the bodies as a parameter.
Ends(b, x) == x[2] \in {Header, Tot(b, x[1])}
ItemsOf(b, w) == {Number(w[k]) : k \in {l \in 1 .. Len(w) : Ends(b, w[l])}}

\* Where the item ends that place p of message i is before or in, and its number.
EndOf(b, i, p) == IF p < Header THEN Header ELSE Tot(b, i)
ItemAt(i, p) == IF p < Header THEN 2 * i - 1 ELSE 2 * i

LEMMA ItemsSame == /\ \A w : ItemsIn(w) = ItemsOf(body, w)
                   /\ ItemsIn(wire)' = ItemsOf(body', wire')
                   /\ ItemsIn(buf)' = ItemsOf(body', buf')
BY DEF ItemsIn, ItemsOf, EndsItem, Ends, Total, Tot

LEMMA ItemsConcat ==
    ASSUME NEW b, NEW s \in Seq(Byte), NEW t \in Seq(Byte)
    PROVE  ItemsOf(b, s \o t) = ItemsOf(b, s) \cup ItemsOf(b, t)
PROOF
<1> DEFINE u == s \o t
<1>1. /\ Len(s) \in Nat /\ Len(t) \in Nat /\ Len(u) = Len(s) + Len(t)
      /\ \A k \in 1 .. Len(s) : u[k] = s[k]
      /\ \A k \in 1 .. Len(t) : u[Len(s) + k] = t[k]
  BY ConcatProperties
<1> HIDE DEF u
<1>2. ASSUME NEW k \in 1 .. Len(u), Ends(b, u[k])
      PROVE  Number(u[k]) \in ItemsOf(b, s) \cup ItemsOf(b, t)
  <2>1. CASE k <= Len(s)
    BY <1>1, <1>2, <2>1 DEF ItemsOf
  <2>2. CASE k > Len(s)
    <3> DEFINE l == k - Len(s)
    <3>1. l \in 1 .. Len(t) /\ Len(s) + l = k
      BY <1>1, <2>2
    <3> HIDE DEF l
    <3>2. u[k] = t[l]
      BY <1>1, <3>1
    <3> QED
      BY <1>2, <3>1, <3>2 DEF ItemsOf
  <2> QED
    BY <1>1, <2>1, <2>2
<1>3. ASSUME NEW k \in 1 .. Len(s), Ends(b, s[k]) PROVE Number(s[k]) \in ItemsOf(b, u)
  <2>1. k \in 1 .. Len(u) /\ u[k] = s[k]
    BY <1>1
  <2> QED
    BY <1>3, <2>1 DEF ItemsOf
<1>4. ASSUME NEW k \in 1 .. Len(t), Ends(b, t[k]) PROVE Number(t[k]) \in ItemsOf(b, u)
  <2>1. Len(s) + k \in 1 .. Len(u) /\ u[Len(s) + k] = t[k]
    BY <1>1
  <2> QED
    BY <1>4, <2>1 DEF ItemsOf
<1>5. ItemsOf(b, u) \subseteq ItemsOf(b, s) \cup ItemsOf(b, t)
  BY <1>2 DEF ItemsOf
<1>6. ItemsOf(b, s) \subseteq ItemsOf(b, u) /\ ItemsOf(b, t) \subseteq ItemsOf(b, u)
  BY <1>3, <1>4 DEF ItemsOf
<1> QED
  BY <1>5, <1>6 DEF u

\* A piece that does not go beyond the end of its item has no item or one.
LEMMA ItemsPiece ==
    ASSUME NEW b \in [Msgs -> Bodies], NEW i \in Msgs, NEW p \in Nat, NEW n \in Nat \ {0},
           p < Tot(b, i), p + n <= EndOf(b, i, p)
    PROVE  /\ Piece(i, p, n) \in Seq(Byte)
           /\ ItemsOf(b, Piece(i, p, n)) = IF p + n = EndOf(b, i, p) THEN {ItemAt(i, p)} ELSE {}
PROOF
<1> DEFINE v == Piece(i, p, n)
<1>1. /\ Tot(b, i) \in Nat /\ Tot(b, i) >= Header /\ Header \in Nat \ {0} /\ i \in Nat
  BY TotNat, HeaderAssumption DEF Msgs
<1>2. v \in Seq(Byte) /\ Len(v) = n
  BY DEF Piece, Byte
<1>3. \A k \in 1 .. n : v[k] = <<i, p + k>>
  BY DEF Piece
<1>4. \A k \in 1 .. n : Ends(b, v[k]) <=> p + k = EndOf(b, i, p)
  BY <1>1, <1>3 DEF Ends, EndOf
<1>5. p + n = EndOf(b, i, p) => Number(v[n]) = ItemAt(i, p)
  BY <1>1, <1>3 DEF Number, EndOf, ItemAt
<1> HIDE DEF v
<1>6. CASE p + n = EndOf(b, i, p)
  <2>1. {l \in 1 .. Len(v) : Ends(b, v[l])} = {n}
    BY <1>2, <1>4, <1>6
  <2> QED
    BY <1>2, <1>5, <1>6, <2>1 DEF ItemsOf, v
<1>7. CASE p + n # EndOf(b, i, p)
  <2>1. {l \in 1 .. Len(v) : Ends(b, v[l])} = {}
    BY <1>1, <1>2, <1>4, <1>7 DEF EndOf
  <2> QED
    BY <1>2, <1>7, <2>1 DEF ItemsOf, v
<1> QED
  BY <1>6, <1>7

\* The items of a run come in the order of their numbers.
LEMMA ItemsOrdered ==
    ASSUME NEW b \in [Msgs -> Bodies], NEW w, Chain(b, w),
           NEW j \in 1 .. Len(w), NEW l \in 1 .. Len(w), j < l, Ends(b, w[j]), Ends(b, w[l])
    PROVE  Number(w[j]) < Number(w[l])
PROOF
<1>1. Gap(b, w[j], w[l], l - j) /\ IsByte(b, w[j]) /\ IsByte(b, w[l]) /\ Len(w) \in Nat
  BY DEF Chain
<1>2. PICK i \in Msgs, p \in Nat \ {0} : w[j] = <<i, p>>
  BY <1>1 DEF IsByte, Byte
<1>3. PICK h \in Msgs, q \in Nat \ {0} : w[l] = <<h, q>>
  BY <1>1 DEF IsByte, Byte
<1>4. i \in Nat /\ h \in Nat /\ Tot(b, i) \in Nat /\ Tot(b, i) >= Header /\ Header \in Nat
  BY TotNat, HeaderAssumption DEF Msgs
<1>5. i < h \/ (i = h /\ p < q)
  BY <1>1, <1>2, <1>3 DEF Gap
<1> QED
  BY <1>2, <1>3, <1>4, <1>5 DEF Number, Ends

LEMMA NumbersNat ==
    ASSUME NEW b \in [Msgs -> Bodies], NEW w, Chain(b, w)
    PROVE  ItemsOf(b, w) \subseteq Nat
PROOF
<1>1. \A k \in 1 .. Len(w) : Number(w[k]) \in Nat
  BY DEF Chain, IsByte, Byte, Number, Msgs
<1> QED
  BY <1>1 DEF ItemsOf

\* What a receive takes is the beginning of the queue.
LEMMA TakenItems ==
    ASSUME IInv, NEW n \in Nat \ {0}, n <= ReadRemain, Recv(n), body' = body,
           NEW r, r = Len(received) + 1, NEW p, p = Len(buf), NEW N, N = ItemAt(r, p)
    PROVE  /\ p + n <= EndOf(body, r, p)
           /\ p + n # EndOf(body, r, p) =>
                ItemsIn(wire)' = ItemsIn(wire) /\ ItemsIn(With(n)) = ItemsIn(buf)
           /\ p + n = EndOf(body, r, p) =>
                /\ N \in ItemsIn(wire) /\ ItemsIn(wire)' = ItemsIn(wire) \ {N}
                /\ \A m \in ItemsIn(wire) : N <= m
                /\ ItemsIn(With(n)) = ItemsIn(buf) \cup {N}
PROOF
<1> DEFINE head == SubSeq(wire, 1, n)
           rest == SubSeq(wire, n + 1, Len(wire))
<1>1. /\ n <= Len(wire) /\ wire' = rest
      /\ body \in [Msgs -> Bodies] /\ Chain(body, wire) /\ wire \in Seq(Byte) /\ Len(wire) \in Nat
      /\ buf \in Seq(Byte) /\ p \in Nat
  BY DEF Recv, IInv, TypeOK, WireInv
<1>2. /\ r \in Msgs /\ p + n <= Tot(body, r) /\ wire[n] = <<r, p + n>>
      /\ With(n) \in Seq(Byte) /\ Len(With(n)) = p + n
      /\ \A k \in 1 .. p + n : With(n)[k] = <<r, k>>
  <2> HIDE DEF head, rest
  <2> QED
    BY <1>1, Taken
<1>3. Tot(body, r) \in Nat /\ Tot(body, r) >= Header /\ Header \in Nat \ {0} /\ r \in Nat
  BY <1>1, <1>2, TotNat, HeaderAssumption DEF Msgs
<1>4. p + n <= EndOf(body, r, p) /\ p < Tot(body, r)
  BY <1>1, <1>2, <1>3 DEF ReadRemain, EndOf, IInv, ReaderInv, TypeOK
<1>5. /\ head \in Seq(Byte) /\ rest \in Seq(Byte) /\ Len(head) = n
      /\ With(n) = buf \o head
      /\ \A k \in 1 .. n : head[k] = wire[k]
      /\ \A k \in 1 .. Len(rest) : rest[k] = wire[n + k] /\ n + k \in 1 .. Len(wire)
  BY <1>1 DEF With
<1>6. wire = head \o rest
  <2> DEFINE u == head \o rest
  <2>1. Len(rest) = Len(wire) - n
    BY <1>1
  <2> HIDE DEF head, rest
  <2>2. u \in Seq(Byte) /\ Len(u) = Len(wire) /\ \A k \in 1 .. Len(wire) : u[k] = wire[k]
    <3>1. /\ u \in Seq(Byte) /\ Len(u) = Len(head) + Len(rest)
          /\ \A k \in 1 .. Len(head) + Len(rest) : u[k] = IF k <= Len(head) THEN head[k] ELSE rest[k - Len(head)]
      BY <1>5, ConcatProperties
    <3> HIDE DEF u
    <3>2. ASSUME NEW k \in 1 .. Len(wire) PROVE u[k] = wire[k]
      <4>1. CASE k <= n
        BY <1>1, <1>5, <2>1, <3>1, <4>1
      <4>2. CASE k > n
        <5> DEFINE l == k - n
        <5>1. l \in 1 .. Len(rest) /\ n + l = k
          BY <1>1, <2>1, <4>2
        <5>2. u[k] = rest[l]
          BY <1>1, <1>5, <2>1, <3>1, <4>2
        <5> HIDE DEF l
        <5> QED
          BY <1>5, <5>1, <5>2
      <4> QED
        BY <1>1, <4>1, <4>2
    <3> QED
      BY <1>1, <1>5, <2>1, <3>1, <3>2
  <2> HIDE DEF u
  <2>3. u = wire
    BY <1>1, <2>2, SeqEqual
  <2> QED
    BY <2>3 DEF u
<1> HIDE DEF head, rest
<1>7. head = Piece(r, p, n)
  <2>1. Piece(r, p, n) \in Seq(Byte) /\ Len(Piece(r, p, n)) = n
    <3>1. Chain(body, Piece(r, p, n)) /\ Len(Piece(r, p, n)) = n
      BY <1>1, <1>2, PieceChain
    <3> QED
      BY <3>1 DEF Chain
  <2>2. \A k \in 1 .. n : head[k] = <<r, p + k>>
    <3>1. TAKE k \in 1 .. n
    <3>2. With(n)[p + k] = head[k]
      BY <1>1, <1>5
    <3> QED
      BY <1>1, <1>2, <3>2
  <2>3. \A k \in 1 .. n : Piece(r, p, n)[k] = <<r, p + k>>
    BY DEF Piece
  <2> HIDE DEF ItemsOf, EndOf, ItemAt
  <2>4. Len(head) = Len(Piece(r, p, n)) /\ \A k \in 1 .. Len(head) : head[k] = Piece(r, p, n)[k]
    BY <1>5, <2>1, <2>2, <2>3
  <2> QED
    BY <1>5, <2>1, <2>4, SeqEqual
<1>8. /\ ItemsIn(wire) = ItemsOf(body, head) \cup ItemsOf(body, rest)
      /\ ItemsIn(With(n)) = ItemsIn(buf) \cup ItemsOf(body, head)
      /\ ItemsIn(wire)' = ItemsOf(body, rest)
  <2>1. ItemsOf(body, wire) = ItemsOf(body, head) \cup ItemsOf(body, rest)
    BY <1>5, <1>6, ItemsConcat
  <2>2. ItemsOf(body, With(n)) = ItemsOf(body, buf) \cup ItemsOf(body, head)
    BY <1>1, <1>5, ItemsConcat
  <2>3. ItemsIn(wire)' = ItemsOf(body, rest)
    BY <1>1, ItemsSame
  <2> QED
    BY <2>1, <2>2, <2>3, ItemsSame
<1>9. ItemsOf(body, head) = IF p + n = EndOf(body, r, p) THEN {N} ELSE {}
  BY <1>1, <1>2, <1>4, <1>7, ItemsPiece
<1>10. ASSUME p + n = EndOf(body, r, p), NEW m \in ItemsOf(body, rest) PROVE N < m
  <2>1. PICK k \in 1 .. Len(rest) : Ends(body, rest[k]) /\ m = Number(rest[k])
    BY DEF ItemsOf
  <2>2. n \in 1 .. Len(wire) /\ n + k \in 1 .. Len(wire) /\ n < n + k /\ rest[k] = wire[n + k]
    BY <1>1, <1>5
  <2>3. Ends(body, wire[n]) /\ Number(wire[n]) = N
    BY <1>1, <1>2, <1>3, <1>10 DEF Ends, Number, EndOf, ItemAt
  <2> QED
    BY <1>1, <2>1, <2>2, <2>3, ItemsOrdered
<1>11. ItemsOf(body, rest) \subseteq Nat /\ N \in Nat
  <2>1. ItemsIn(wire) \subseteq Nat
    BY <1>1, NumbersNat, ItemsSame
  <2> QED
    BY <1>3, <1>8, <2>1 DEF ItemAt
<1>12. CASE p + n = EndOf(body, r, p)
  <2>1. N \notin ItemsOf(body, rest) /\ \A m \in ItemsOf(body, rest) : N <= m
    BY <1>10, <1>11, <1>12
  <2> QED
    BY <1>4, <1>8, <1>9, <1>11, <1>12, <2>1
<1>13. CASE p + n # EndOf(body, r, p)
  BY <1>4, <1>8, <1>9, <1>13
<1> QED
  BY <1>12, <1>13

\* What is to be sent and what was received depend on nothing that a sender changes.
LEMMA ItemsFixed ==
    ASSUME body' = body
    PROVE  AllItems' = AllItems /\ \A i : LastItem(i)' = LastItem(i)
BY DEF AllItems, LastItem

LEMMA ReceivedFixed ==
    ASSUME body' = body, received' = received, buf' = buf
    PROVE  AllReceived' = AllReceived
BY DEF AllReceived, ItemsIn, EndsItem, Total

\* The item that is being written is the next one.
LEMMA NextItem ==
    ASSUME IInv, wmsg \in Msgs, NEW N, N = ItemAt(wmsg, wptr)
    PROVE  N \in AllItems /\ LastSent < N /\ \A m \in AllItems : LastSent < m => N <= m
PROOF
<1>1. /\ \A i \in Msgs : i \in Nat \ {0} /\ Len(body[i]) \in Nat /\ LastItem(i) \in {2 * i - 1, 2 * i}
      /\ wptr \in Nat /\ Header \in Nat \ {0} /\ wptr < Header + Len(body[wmsg])
  <2>1. body \in [Msgs -> Bodies]
    BY DEF IInv, TypeOK
  <2> QED
    BY <2>1, TotNat, HeaderAssumption DEF IInv, TypeOK, WriterInv, Tot, LastItem, Msgs
<1>2. CASE wptr < Header
  <2>1. N = 2 * wmsg - 1
    BY <1>2 DEF ItemAt
  <2>2. CASE wmsg = 1
    BY <1>1, <1>2, <2>1, <2>2 DEF AllItems, LastSent
  <2>3. CASE wmsg # 1
    <3>1. wmsg - 1 \in Msgs /\ LastSent = LastItem(wmsg - 1)
      BY <1>1, <1>2, <2>3, MessagesAssumption DEF LastSent, Msgs
    <3>2. LastItem(wmsg - 1) \in {2 * (wmsg - 1) - 1, 2 * (wmsg - 1)}
      BY <1>1, <3>1
    <3>3. LastSent < N
      BY <1>1, <2>1, <3>1, <3>2
    <3>4. ASSUME NEW i \in Msgs, NEW m \in {2 * i - 1, LastItem(i)}, LastSent < m PROVE N <= m
      <4>1. CASE i < wmsg - 1
        BY <1>1, <3>1, <3>2, <3>4, <4>1
      <4>2. CASE i = wmsg - 1
        BY <1>1, <3>1, <3>2, <3>4, <4>2
      <4>3. CASE i > wmsg - 1
        BY <1>1, <2>1, <4>3
      <4> QED
        BY <1>1, <4>1, <4>2, <4>3
    <3> QED
      BY <2>1, <3>3, <3>4 DEF AllItems
  <2> QED
    BY <2>2, <2>3
<1>3. CASE wptr >= Header
  <2>1. N = 2 * wmsg /\ LastSent = 2 * wmsg - 1 /\ LastItem(wmsg) = 2 * wmsg
    BY <1>1, <1>3 DEF ItemAt, LastSent, LastItem
  <2>2. ASSUME NEW i \in Msgs, NEW m \in {2 * i - 1, LastItem(i)}, LastSent < m PROVE N <= m
    BY <1>1, <2>1, <2>2
  <2> QED
    BY <1>1, <2>1, <2>2 DEF AllItems
<1> QED
  BY <1>1, <1>2, <1>3

\* A send whose last byte ends an item hands it over; any other changes nothing.
LEMMA SendPuts ==
    ASSUME IInv, NEW n \in 1 .. Capacity, Send(n)
    PROVE  [Whole!Next]_(Whole!vars)
PROOF
<1> DEFINE N == ItemAt(wmsg, wptr)
           E == EndOf(body, wmsg, wptr)
<1>1. /\ body \in [Msgs -> Bodies] /\ body' = body /\ wmsg \in Msgs /\ wptr \in Nat
      /\ n \in Nat \ {0} /\ wire \in Seq(Byte) /\ up' = up /\ received' = received /\ buf' = buf
  BY CapacityAssumption DEF IInv, TypeOK, Send, Msgs, readerVars
<1>2. /\ Total(wmsg) = Tot(body, wmsg) /\ Tot(body, wmsg) \in Nat /\ wptr < Tot(body, wmsg)
      /\ Tot(body, wmsg) >= Header /\ Header \in Nat \ {0} /\ wmsg \in Nat \ {0}
      /\ Tot(body, wmsg) = Header + Len(body[wmsg]) /\ Len(body[wmsg]) \in Nat
  BY <1>1, TotNat, HeaderAssumption DEF Total, Tot, Msgs, IInv, WriterInv
<1>3. wptr + n <= E
  BY <1>1, <1>2 DEF Send, WriteRemain, ItemEnd, EndOf
<1>4. ItemsIn(wire)' = IF up /\ wptr + n = E THEN ItemsIn(wire) \cup {N} ELSE ItemsIn(wire)
  <2>1. CASE up
    <3>1. wire' = wire \o Piece(wmsg, wptr, n)
      BY <2>1 DEF Send, Piece
    <3>2. /\ Piece(wmsg, wptr, n) \in Seq(Byte)
          /\ ItemsOf(body, Piece(wmsg, wptr, n)) = IF wptr + n = E THEN {N} ELSE {}
      BY <1>1, <1>2, <1>3, ItemsPiece
    <3>3. ItemsOf(body, wire') = ItemsOf(body, wire) \cup ItemsOf(body, Piece(wmsg, wptr, n))
      BY <1>1, <3>1, <3>2, ItemsConcat
    <3> QED
      BY <1>1, <2>1, <3>2, <3>3, ItemsSame
  <2>2. CASE ~up
    <3>1. wire' = wire
      BY <2>2 DEF Send
    <3> QED
      BY <1>1, <2>2, <3>1, ItemsSame
  <2> QED
    BY <2>1, <2>2
<1>5. AllItems' = AllItems /\ AllReceived' = AllReceived
  BY <1>1, ItemsFixed, ReceivedFixed
<1>6. LastSent' = IF wptr + n = E THEN N ELSE LastSent
  <2>1. CASE wptr + n = Tot(body, wmsg)
    <3>1. wmsg' = wmsg + 1 /\ wptr' = 0
      BY <1>2, <2>1 DEF Send
    <3>2. LastSent' = LastItem(wmsg)
      BY <1>1, <1>2, <3>1 DEF LastSent, LastItem
    <3>3. wptr + n = E
      BY <1>1, <1>2, <1>3, <2>1 DEF EndOf
    <3>4. LastItem(wmsg) = N
      BY <1>1, <1>2, <2>1, <3>3 DEF LastItem, EndOf, ItemAt
    <3> QED
      BY <3>2, <3>3, <3>4
  <2>2. CASE wptr + n # Tot(body, wmsg)
    <3>1. wmsg' = wmsg /\ wptr' = wptr + n
      BY <1>2, <2>2 DEF Send
    <3>2. wptr >= Header \/ wptr + n = Header => LastSent' = 2 * wmsg - 1
      BY <1>1, <1>2, <3>1 DEF LastSent
    <3>3. wptr + n < Header => LastSent' = LastSent
      BY <1>1, <1>2, <3>1 DEF LastSent, LastItem
    <3> QED
      BY <1>1, <1>2, <1>3, <2>2, <3>2, <3>3 DEF LastSent, EndOf, ItemAt
  <2> QED
    BY <2>1, <2>2
<1>7. N \in AllItems /\ LastSent < N /\ \A m \in AllItems : LastSent < m => N <= m
  BY <1>1, NextItem
<1> HIDE DEF N, E
<1>8. CASE wptr + n = E
  BY <1>1, <1>4, <1>5, <1>6, <1>7, <1>8 DEF Whole!Next, Whole!Put
<1>9. CASE wptr + n # E
  BY <1>1, <1>4, <1>5, <1>6, <1>9 DEF Whole!vars
<1> QED
  BY <1>8, <1>9

\* What was received, with the bodies as a parameter.
LEMMA ReceivedSame ==
    /\ AllReceived = ItemsOf(body, buf) \cup UNION {ItemsOf(body, received[i]) : i \in 1 .. Len(received)}
    /\ AllReceived' = ItemsOf(body', buf') \cup UNION {ItemsOf(body', received'[i]) : i \in 1 .. Len(received')}
BY DEF AllReceived, ItemsIn, ItemsOf, EndsItem, Ends, Total, Tot

\* A receive whose last byte ends an item takes it; any other changes nothing.
LEMMA RecvTakes ==
    ASSUME IInv, NEW n \in Nat \ {0}, n <= ReadRemain, Recv(n), UNCHANGED <<body, senderVars, up>>,
           \/ buf' = With(n) /\ received' = received
           \/ Complete(With(n))
    PROVE  [Whole!Next]_(Whole!vars)
PROOF
<1> DEFINE r == Len(received) + 1
           p == Len(buf)
           N == ItemAt(r, p)
           E == EndOf(body, r, p)
<1>1. body' = body /\ wmsg' = wmsg /\ wptr' = wptr /\ up' = up
  BY DEF senderVars
<1>2. /\ p + n <= E
      /\ p + n # E => ItemsIn(wire)' = ItemsIn(wire) /\ ItemsIn(With(n)) = ItemsIn(buf)
      /\ p + n = E => /\ N \in ItemsIn(wire) /\ ItemsIn(wire)' = ItemsIn(wire) \ {N}
                      /\ \A m \in ItemsIn(wire) : N <= m
                      /\ ItemsIn(With(n)) = ItemsIn(buf) \cup {N}
  BY <1>1, TakenItems
<1> HIDE DEF r, p, N, E
<1>3. AllItems' = AllItems /\ LastSent' = LastSent
  BY <1>1 DEF AllItems, LastItem, LastSent
<1>4. AllReceived' = AllReceived \cup ItemsIn(With(n))
  <2>1. /\ ItemsIn(With(n)) = ItemsOf(body, With(n)) /\ ItemsIn(buf) = ItemsOf(body, buf)
        /\ ItemsIn(buf) \subseteq ItemsIn(With(n))
    BY <1>2, ItemsSame
  <2>2. CASE buf' = With(n) /\ received' = received
    BY <1>1, <2>1, <2>2, ReceivedSame
  <2>3. CASE Complete(With(n))
    <3>1. received' = Append(received, With(n)) /\ buf' = <<>>
      BY <2>3 DEF Complete
    <3>2. received \in Seq(Seq(Byte)) /\ Len(received) \in Nat
      BY DEF IInv, TypeOK
    <3>3. /\ Len(received') = Len(received) + 1 /\ received'[Len(received) + 1] = With(n)
          /\ \A i \in 1 .. Len(received) : received'[i] = received[i]
      BY <3>1, <3>2
    <3>4. ItemsOf(body', buf') = {}
      BY <3>1 DEF ItemsOf
    <3>5. UNION {ItemsOf(body', received'[i]) : i \in 1 .. Len(received')}
            = ItemsOf(body, With(n)) \cup UNION {ItemsOf(body, received[i]) : i \in 1 .. Len(received)}
      <4>1. 1 .. Len(received') = 1 .. Len(received) \cup {Len(received) + 1}
        BY <3>2, <3>3
      <4> QED
        BY <1>1, <3>3, <4>1
    <3> QED
      BY <2>1, <3>4, <3>5, ReceivedSame
  <2> QED
    BY <2>2, <2>3
<1>5. CASE p + n = E
  BY <1>1, <1>2, <1>3, <1>4, <1>5 DEF Whole!Next, Whole!Take, AllReceived
<1>6. CASE p + n # E
  <2>1. AllReceived' = AllReceived
    BY <1>2, <1>4, <1>6 DEF AllReceived
  <2> QED
    BY <1>1, <1>2, <1>3, <1>6, <2>1 DEF Whole!vars
<1> QED
  BY <1>5, <1>6

\* What a cut leaves of the items on their way are the first of them.
LEMMA CutCuts ==
    ASSUME IInv, Cut
    PROVE  Whole!Cut
PROOF
<1>1. PICK n \in 0 .. Len(wire) : wire' = SubSeq(wire, 1, n)
  BY DEF Cut
<1>2. up /\ up' = FALSE /\ UNCHANGED <<body, wmsg, wptr, received, buf>>
  BY DEF Cut, senderVars, readerVars
<1>3. body \in [Msgs -> Bodies] /\ Chain(body, wire) /\ wire \in Seq(Byte) /\ Len(wire) \in Nat
  BY DEF IInv, TypeOK, WireInv
<1>4. Len(wire') = n /\ \A k \in 1 .. n : wire'[k] = wire[k]
  BY <1>1, <1>3
<1>5. ItemsIn(wire) = ItemsOf(body, wire) /\ ItemsIn(wire)' = ItemsOf(body, wire')
  BY <1>2, ItemsSame
<1>6. ItemsOf(body, wire') \subseteq ItemsOf(body, wire)
  BY <1>3, <1>4 DEF ItemsOf
<1>7. ASSUME NEW x \in ItemsOf(body, wire'), NEW m \in ItemsOf(body, wire), m < x
      PROVE  m \in ItemsOf(body, wire')
  <2>1. PICK l \in 1 .. n : Ends(body, wire[l]) /\ x = Number(wire[l])
    BY <1>4 DEF ItemsOf
  <2>2. PICK j \in 1 .. Len(wire) : Ends(body, wire[j]) /\ m = Number(wire[j])
    BY DEF ItemsOf
  <2>3. j <= n
    <3> SUFFICES ASSUME ~(j <= n) PROVE FALSE
      OBVIOUS
    <3>1. l \in 1 .. Len(wire) /\ l < j
      BY <1>1, <1>3, <2>1, <2>2
    <3>2. x < m
      BY <1>3, <2>1, <2>2, <3>1, ItemsOrdered
    <3>3. x \in Nat /\ m \in Nat
      BY <1>3, <1>6, NumbersNat
    <3> QED
      BY <1>7, <3>2, <3>3
  <2> QED
    <3>1. j \in 1 .. Len(wire') /\ wire'[j] = wire[j]
      BY <1>3, <1>4, <2>3
    <3> QED
      BY <2>2, <3>1 DEF ItemsOf
<1>8. AllItems' = AllItems /\ LastSent' = LastSent /\ AllReceived' = AllReceived
  BY <1>2, ReceivedFixed DEF AllItems, LastItem, LastSent
<1> QED
  BY <1>2, <1>5, <1>6, <1>7, <1>8 DEF Whole!Cut

\* The steps that move no byte.
LEMMA WholeKept ==
    ASSUME UNCHANGED <<body, wmsg, wptr, wire, up, received, buf>>
    PROVE  UNCHANGED Whole!vars
BY DEF Whole!vars, AllItems, LastItem, LastSent, AllReceived, ItemsIn, EndsItem, Total

LEMMA InitWhole == StreamInit => Whole!Init
PROOF
<1> SUFFICES ASSUME StreamInit PROVE Whole!Init
  OBVIOUS
<1>1. \A i \in Msgs : 2 * i - 1 \in Nat \ {0} /\ LastItem(i) \in Nat \ {0}
  BY DEF Msgs, LastItem
<1>2. LastSent = 0
  BY HeaderAssumption DEF StreamInit, LastSent
<1>3. ItemsIn(wire) = {} /\ AllReceived = {}
  BY DEF StreamInit, AllReceived, ItemsIn
<1> QED
  BY <1>1, <1>2, <1>3 DEF Whole!Init, AllItems, StreamInit

LEMMA NextWhole == IInv /\ [StreamNext]_streamVars => [Whole!Next]_(Whole!vars)
PROOF
<1> SUFFICES ASSUME IInv, [StreamNext]_streamVars PROVE [Whole!Next]_(Whole!vars)
  OBVIOUS
<1>1. ReadRemain \in Nat \ {0}
  <2>1. CASE part = "packet"
    BY <2>1, HeaderAssumption DEF IInv, TypeOK, ReaderInv, ReadRemain
  <2>2. CASE part = "body"
    <3>1. body \in [Msgs -> Bodies] /\ Len(received) + 1 \in Msgs
      BY <2>2 DEF IInv, TypeOK, ReaderInv
    <3>2. Len(buf) < Header + need /\ need \in Nat
      BY <2>2, <3>1 DEF IInv, TypeOK, ReaderInv, Tot
    <3> QED
      BY <2>2, <3>2, HeaderAssumption DEF IInv, TypeOK, ReadRemain
  <2> QED
    BY <2>1, <2>2 DEF IInv, TypeOK
<1>2. ASSUME NEW n \in 1 .. Capacity, Send(n) PROVE [Whole!Next]_(Whole!vars)
  BY <1>2, SendPuts
<1>3. CASE SendFails
  BY <1>3, WholeKept DEF SendFails, readerVars
<1>4. CASE WaitRead
  BY <1>4, WholeKept DEF WaitRead, senderVars
<1>5. CASE TimedOut
  BY <1>5, WholeKept DEF TimedOut, senderVars
<1>6. CASE RecvPacket
  <2>1. \/ buf' = With(ReadRemain) /\ received' = received
        \/ Complete(With(ReadRemain))
    BY <1>6 DEF RecvPacket
  <2> QED
    BY <1>1, <1>6, <2>1, RecvTakes DEF RecvPacket
<1>7. CASE RecvBody
  BY <1>1, <1>7, RecvTakes DEF RecvBody
<1>8. CASE RecvFails
  BY <1>8, WholeKept DEF RecvFails, senderVars
<1>9. ASSUME NEW n \in 1 .. Capacity, RecvSome(n) PROVE [Whole!Next]_(Whole!vars)
  <2>1. n \in Nat \ {0} /\ n <= ReadRemain
    BY <1>1, <1>9, CapacityAssumption DEF RecvSome
  <2> QED
    BY <1>9, <2>1, RecvTakes DEF RecvSome
<1>10. CASE Cut
  BY <1>10, CutCuts DEF Whole!Next
<1>11. CASE UNCHANGED streamVars
  BY <1>11, WholeKept DEF streamVars, senderVars, readerVars
<1> QED
  BY <1>2, <1>3, <1>4, <1>5, <1>6, <1>7, <1>8, <1>9, <1>10, <1>11 DEF StreamNext, Sender, Reader

\* Packets and buffers sent and received in pieces of any size through a kernel of any
\* size are a channel on which items arrive whole, once and in the order of their sending.
THEOREM ItemsKept == StreamSpec => KeepsItems
PROOF
<1>1. StreamSpec => []IInv
  BY StreamInvariant
<1> QED
  BY <1>1, InitWhole, NextWhole, PTL DEF StreamSpec, KeepsItems, Whole!Spec

=============================================================================
