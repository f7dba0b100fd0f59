------------------------------ MODULE CellProofs ------------------------------
(***************************************************************************)
(* What the Framer makes of a cell and what the Scheduler's heap makes of  *)
(* the cells, for every value of the constants of the two.                 *)
(***************************************************************************)
EXTENDS Framing, Scheduler, SequenceTheorems, WellFoundedInduction, TLAPS

-----------------------------------------------------------------------------
(* Bytes.                                                                  *)

\* A function on 1..n is a sequence of length n.
LEMMA FunctionIsSeq ==
  ASSUME NEW S, NEW n \in Nat, NEW f \in [1..n -> S]
  PROVE  f \in Seq(S) /\ Len(f) = n /\ DOMAIN f = 1..n
  OBVIOUS

\* copy keeps the length of its destination.
LEMMA CopyBytes ==
  ASSUME NEW dst \in Seq(Int), NEW at \in Nat, NEW src \in Seq(Int)
  PROVE  /\ Copy(dst, at, src) \in Seq(Int)
         /\ Len(Copy(dst, at, src)) = Len(dst)
         /\ \A i \in 1..Len(dst) :
              Copy(dst, at, src)[i]
                = IF at < i /\ i <= at + Len(src) THEN src[i - at] ELSE dst[i]
  <1>1. Len(dst) \in Nat /\ Len(src) \in Nat
    OBVIOUS
  <1>2. \A i \in 1..Len(dst) :
          (IF at < i /\ i <= at + Len(src) THEN src[i - at] ELSE dst[i]) \in Int
    BY <1>1
  <1>3. Copy(dst, at, src) \in [1..Len(dst) -> Int]
    BY <1>2 DEF Copy
  <1> QED
    BY <1>1, <1>3, FunctionIsSeq DEF Copy

\* A slice within bounds has the length of its bounds' difference.
LEMMA SliceBytes ==
  ASSUME NEW src \in Seq(Int), NEW lo \in Nat, NEW hi \in Nat,
         lo <= hi, hi <= Len(src)
  PROVE  /\ Slice(src, lo, hi) \in Seq(Int)
         /\ Len(Slice(src, lo, hi)) = hi - lo
         /\ \A i \in 1..(hi - lo) : Slice(src, lo, hi)[i] = src[lo + i]
  <1>1. hi - lo \in Nat /\ \A i \in 1..(hi - lo) : src[lo + i] \in Int
    OBVIOUS
  <1>2. Slice(src, lo, hi) \in [1..(hi - lo) -> Int]
    BY <1>1 DEF Slice
  <1> QED
    BY <1>1, <1>2, FunctionIsSeq DEF Slice

\* A fresh buffer holds n zero bytes.
LEMMA ZeroBytes ==
  ASSUME NEW n \in Nat
  PROVE  Zeros(n) \in Seq(Int) /\ Len(Zeros(n)) = n
  <1>1. Zeros(n) \in [1..n -> Int]
    BY DEF Zeros
  <1> QED
    BY <1>1, FunctionIsSeq

-----------------------------------------------------------------------------
(* The codec.                                                              *)

\* The content EncodeCell lays out for payload P, padding D and offset r.
Layout(P, D, r) ==
    Copy(Copy(Copy(Zeros(Len(P) + Len(D)), r, P), 0, Slice(D, 0, r)),
         r + Len(P), Slice(D, r, Len(D)))

\* The padding before the offset, the payload, the padding after the offset.
LEMMA LayoutBytes ==
  ASSUME NEW P \in Seq(Int), NEW D \in Seq(Int), NEW r \in Nat, r <= Len(D)
  PROVE  /\ Layout(P, D, r) \in Seq(Int)
         /\ Len(Layout(P, D, r)) = Len(P) + Len(D)
         /\ \A i \in 1..r : Layout(P, D, r)[i] = D[i]
         /\ \A i \in 1..Len(P) : Layout(P, D, r)[r + i] = P[i]
         /\ \A i \in (r + 1)..Len(D) : Layout(P, D, r)[Len(P) + i] = D[i]
  <1> DEFINE p == Len(P)
             d == Len(D)
             zero == Zeros(p + d)
             one == Copy(zero, r, P)
             before == Slice(D, 0, r)
             two == Copy(one, 0, before)
             after == Slice(D, r, d)
             all == Copy(two, r + p, after)
  <1>1. p \in Nat /\ d \in Nat /\ p + d \in Nat /\ r <= d /\ r + p \in Nat
    OBVIOUS
  <1>0. Layout(P, D, r) = all
    BY DEF Layout
  <1>2. zero \in Seq(Int) /\ Len(zero) = p + d
    <2> HIDE DEF p, d
    <2> QED
      BY <1>1, ZeroBytes
  <1> HIDE DEF zero
  <1>3. /\ one \in Seq(Int) /\ Len(one) = p + d
        /\ \A i \in 1..Len(zero) :
              one[i] = IF r < i /\ i <= r + Len(P) THEN P[i - r] ELSE zero[i]
    BY <1>2, CopyBytes
  <1> HIDE DEF one
  <1>4. /\ before \in Seq(Int) /\ Len(before) = r - 0
        /\ \A i \in 1..(r - 0) : before[i] = D[0 + i]
    <2>1. 0 \in Nat /\ 0 <= r
      OBVIOUS
    <2> QED
      BY <2>1, SliceBytes
  <1>5. /\ after \in Seq(Int) /\ Len(after) = d - r
        /\ \A i \in 1..(d - r) : after[i] = D[r + i]
    <2>1. d <= Len(D)
      BY <1>1
    <2> QED
      BY <1>1, <2>1, SliceBytes
  <1> HIDE DEF before, after
  <1>6. /\ two \in Seq(Int) /\ Len(two) = Len(one)
        /\ \A i \in 1..Len(one) :
             two[i] = IF 0 < i /\ i <= 0 + Len(before) THEN before[i - 0] ELSE one[i]
    <2>1. 0 \in Nat
      OBVIOUS
    <2> QED
      BY <1>3, <1>4, <2>1, CopyBytes
  <1> HIDE DEF two
  <1>7. /\ all \in Seq(Int) /\ Len(all) = Len(two)
        /\ \A i \in 1..Len(two) :
             all[i] = IF (r + p) < i /\ i <= (r + p) + Len(after)
                      THEN after[i - (r + p)] ELSE two[i]
    BY <1>1, <1>5, <1>6, CopyBytes
  <1> HIDE DEF all
  <1>t. Len(two) = p + d /\ Len(zero) = p + d /\ Len(one) = p + d
    BY <1>2, <1>3, <1>6
  <1>p. p = Len(P) /\ d = Len(D)
    OBVIOUS
  <1> HIDE DEF p, d
  <1>8. ASSUME NEW i \in 1..r PROVE all[i] = D[i]
    <2>1. i \in 1..(p + d) /\ ~((r + p) < i)
      BY <1>1
    <2>2. all[i] = two[i]
      BY <1>7, <1>t, <2>1
    <2>3. two[i] = before[i - 0] /\ i - 0 = i
      BY <1>1, <1>4, <1>6, <1>t, <2>1
    <2> QED
      BY <1>1, <1>4, <2>2, <2>3
  <1>9. ASSUME NEW i \in 1..p PROVE all[r + i] = P[i]
    <2>1. r + i \in 1..(p + d) /\ ~((r + p) < r + i) /\ r < r + i /\ r + i <= r + p
      BY <1>1
    <2>2. all[r + i] = two[r + i]
      BY <1>7, <1>t, <2>1
    <2>3. two[r + i] = one[r + i]
      BY <1>1, <1>4, <1>6, <1>t, <2>1
    <2>4. one[r + i] = P[(r + i) - r]
      BY <1>3, <1>p, <1>t, <2>1
    <2> QED
      BY <1>1, <2>2, <2>3, <2>4
  <1>10. ASSUME NEW i \in (r + 1)..d PROVE all[p + i] = D[i]
    <2>1. p + i \in 1..(p + d) /\ (r + p) < p + i /\ p + i <= (r + p) + (d - r)
      BY <1>1
    <2>2. all[p + i] = after[(p + i) - (r + p)]
      BY <1>5, <1>7, <1>t, <2>1
    <2>3. (p + i) - (r + p) = i - r /\ i - r \in 1..(d - r) /\ r + (i - r) = i
      BY <1>1
    <2> QED
      BY <1>5, <2>2, <2>3
  <1> QED
    BY <1>0, <1>7, <1>8, <1>9, <1>10, <1>t, <1>p

\* What DecodeCell copies out of the content is what EncodeCell copied in.
LEMMA UnpackBytes ==
  ASSUME NEW P \in Seq(Int), NEW D \in Seq(Int), NEW r \in Nat, r <= Len(D),
         NEW L \in Seq(Int), L = Layout(P, D, r)
  PROVE  /\ Copy(Zeros(Len(P)), 0, Slice(L, r, r + Len(P))) = P
         /\ Copy(Copy(Zeros(Len(D)), 0, Slice(L, 0, r)), r,
                 Slice(L, r + Len(P), Len(L))) = D
  <1> DEFINE p == Len(P)
             d == Len(D)
             mid == Slice(L, r, r + p)
             zp == Zeros(p)
             zd == Zeros(d)
             pay == Copy(zp, 0, mid)
             fst == Slice(L, 0, r)
             snd == Slice(L, r + p, Len(L))
             half == Copy(zd, 0, fst)
             pad == Copy(half, r, snd)
  <1>1. /\ p \in Nat /\ d \in Nat /\ r <= d /\ r + p \in Nat /\ 0 \in Nat
        /\ Len(L) = p + d
    <2>1. Len(L) = Len(P) + Len(D)
      BY LayoutBytes
    <2> QED
      BY <2>1
  <1>2. /\ \A i \in 1..r : L[i] = D[i]
        /\ \A i \in 1..p : L[r + i] = P[i]
        /\ \A i \in (r + 1)..d : L[p + i] = D[i]
    <2>1. /\ \A i \in 1..r : Layout(P, D, r)[i] = D[i]
          /\ \A i \in 1..Len(P) : Layout(P, D, r)[r + i] = P[i]
          /\ \A i \in (r + 1)..Len(D) : Layout(P, D, r)[Len(P) + i] = D[i]
      BY LayoutBytes
    <2> QED
      BY <2>1
  <1>z. /\ zp \in Seq(Int) /\ Len(zp) = p
        /\ zd \in Seq(Int) /\ Len(zd) = d
    <2> HIDE DEF p, d
    <2> QED
      BY <1>1, ZeroBytes
  <1> HIDE DEF zp, zd
  <1>3. /\ mid \in Seq(Int) /\ Len(mid) = (r + p) - r
        /\ \A i \in 1..((r + p) - r) : mid[i] = L[r + i]
    <2>1. r <= r + p /\ r + p <= Len(L)
      BY <1>1
    <2> HIDE DEF p
    <2> QED
      BY <1>1, <2>1, SliceBytes
  <1>4. /\ fst \in Seq(Int) /\ Len(fst) = r - 0
        /\ \A i \in 1..(r - 0) : fst[i] = L[0 + i]
    <2>1. 0 <= r /\ r <= Len(L)
      BY <1>1
    <2> QED
      BY <1>1, <2>1, SliceBytes
  <1>5. /\ snd \in Seq(Int) /\ Len(snd) = Len(L) - (r + p)
        /\ \A i \in 1..(Len(L) - (r + p)) : snd[i] = L[(r + p) + i]
    <2>1. r + p <= Len(L) /\ Len(L) \in Nat /\ Len(L) <= Len(L)
      BY <1>1
    <2> HIDE DEF p
    <2> QED
      BY <1>1, <2>1, SliceBytes
  <1> HIDE DEF mid, fst, snd
  <1>6. /\ pay \in Seq(Int) /\ Len(pay) = Len(zp)
        /\ \A i \in 1..Len(zp) :
             pay[i] = IF 0 < i /\ i <= 0 + Len(mid) THEN mid[i - 0] ELSE zp[i]
    <2>1. zp \in Seq(Int) /\ mid \in Seq(Int) /\ 0 \in Nat
      BY <1>3, <1>z
    <2> QED
      BY <2>1, CopyBytes
  <1>7. /\ half \in Seq(Int) /\ Len(half) = Len(zd)
        /\ \A i \in 1..Len(zd) :
             half[i] = IF 0 < i /\ i <= 0 + Len(fst) THEN fst[i - 0] ELSE zd[i]
    <2>1. zd \in Seq(Int) /\ fst \in Seq(Int) /\ 0 \in Nat
      BY <1>4, <1>z
    <2> QED
      BY <2>1, CopyBytes
  <1> HIDE DEF half
  <1>8. /\ pad \in Seq(Int) /\ Len(pad) = Len(half)
        /\ \A i \in 1..Len(half) :
             pad[i] = IF r < i /\ i <= r + Len(snd) THEN snd[i - r] ELSE half[i]
    BY <1>5, <1>7, CopyBytes
  <1>p. p = Len(P) /\ d = Len(D)
    OBVIOUS
  <1> HIDE DEF p, d, pay, pad
  <1>9. pay = P
    <2>1. ASSUME NEW i \in 1..p PROVE pay[i] = P[i]
      <3>1. 0 < i /\ i <= 0 + Len(mid) /\ i - 0 = i /\ i \in 1..((r + p) - r)
        BY <1>1, <1>3
      <3>2. pay[i] = mid[i - 0]
        BY <1>6, <1>z, <3>1
      <3> QED
        BY <1>2, <1>3, <3>1, <3>2
    <2>2. Len(pay) = Len(P)
      BY <1>6, <1>z, <1>p
    <2> QED
      BY <1>6, <1>p, <2>1, <2>2, SeqEqual
  <1>10. pad = D
    <2>1. Len(half) = d
      BY <1>7, <1>z
    <2>2. ASSUME NEW i \in 1..d PROVE pad[i] = D[i]
      <3>1. CASE i <= r
        <4>1. pad[i] = half[i]
          BY <1>1, <1>8, <2>1, <3>1
        <4>2. 0 < i /\ i <= 0 + Len(fst) /\ i - 0 = i /\ i \in 1..(r - 0) /\ 0 + i = i
          BY <1>1, <1>4, <3>1
        <4>3. half[i] = fst[i - 0]
          BY <1>7, <1>z, <4>2
        <4> QED
          BY <1>2, <1>4, <4>1, <4>2, <4>3
      <3>2. CASE r < i
        <4>1. /\ i <= r + Len(snd) /\ i - r \in 1..(Len(L) - (r + p))
              /\ (r + p) + (i - r) = p + i /\ i \in (r + 1)..d
          BY <1>1, <1>5, <3>2
        <4>2. pad[i] = snd[i - r]
          BY <1>8, <2>1, <3>2, <4>1
        <4> QED
          BY <1>2, <1>5, <4>1, <4>2
      <3> QED
        BY <1>1, <3>1, <3>2
    <2>3. Len(pad) = Len(D)
      BY <1>8, <1>p, <2>1
    <2> QED
      BY <1>8, <1>p, <2>2, <2>3, SeqEqual
  <1> QED
    BY <1>9, <1>10, <1>p DEF pay, pad, half, mid, fst, snd, zp, zd

HeaderBytes == [i \in 1..EncodedHeaderLen |-> HeaderByte]

\* The bytes of an encoded cell: 22 of header, then the layout.
LEMMA EncodedBytes ==
  ASSUME NEW c \in Cell, Encodable(c)
  PROVE  LET b == EncodeCell(c).bytes
             L == Layout(c.payload, c.padding, c.randOffset)
         IN  /\ b \in Seq(Int) /\ L \in Seq(Int)
             /\ Len(L) = Len(c.payload) + Len(c.padding)
             /\ Len(b) = EncodedHeaderLen + Len(L)
             /\ \A i \in 1..Len(L) : b[EncodedHeaderLen + i] = L[i]
  <1> DEFINE b == EncodeCell(c).bytes
             L == Layout(c.payload, c.padding, c.randOffset)
  <1>1. /\ c.payload \in Seq(Int) /\ c.padding \in Seq(Int) /\ c.randOffset \in Nat
        /\ c.randOffset <= Len(c.padding)
    BY DEF Cell, Encodable
  <1>2. L \in Seq(Int) /\ Len(L) = Len(c.payload) + Len(c.padding)
    BY <1>1, LayoutBytes
  <1>3. b = HeaderBytes \o L
    BY DEF EncodeCell, Layout, HeaderBytes
  <1>4. HeaderBytes \in Seq(Int) /\ Len(HeaderBytes) = EncodedHeaderLen
    <2>1. HeaderBytes \in [1..EncodedHeaderLen -> Int] /\ EncodedHeaderLen \in Nat
      BY DEF HeaderBytes, HeaderByte, EncodedHeaderLen
    <2> QED
      BY <2>1, FunctionIsSeq
  <1> HIDE DEF b, L
  <1>5. EncodedHeaderLen = 22
    BY DEF EncodedHeaderLen
  <1>6. /\ b \in Seq(Int) /\ Len(b) = EncodedHeaderLen + Len(L)
        /\ \A i \in 1..(Len(HeaderBytes) + Len(L)) :
             b[i] = IF i <= Len(HeaderBytes) THEN HeaderBytes[i]
                    ELSE L[i - Len(HeaderBytes)]
    BY <1>2, <1>3, <1>4, ConcatProperties
  <1>7. ASSUME NEW i \in 1..Len(L) PROVE b[EncodedHeaderLen + i] = L[i]
    <2>0. Len(L) \in Nat
      BY <1>2, LenProperties
    <2>1. /\ 22 + i \in 1..(22 + Len(L)) /\ ~(22 + i <= 22) /\ (22 + i) - 22 = i
      BY <2>0
    <2> QED
      BY <1>4, <1>5, <1>6, <2>1
  <1> QED
    BY <1>2, <1>6, <1>7 DEF b, L

\* DecodeCell gives back every cell that EncodeCell can lay out, payload and
\* padding byte for byte, if the two agree on the length of the header, and
\* refuses it if they do not.
THEOREM Codec ==
  ASSUME NEW c \in Cell, Encodable(c)
  PROVE  DecodeCell(EncodeCell(c))
           = IF CellHeaderLen = EncodedHeaderLen THEN c ELSE DecodeError
  <1> DEFINE e == EncodeCell(c)
             b == e.bytes
             P == c.payload
             D == c.padding
             r == c.randOffset
             L == Layout(P, D, r)
             rest == Slice(b, CellHeaderLen, Len(b))
             p == Len(P)
             d == Len(D)
             n == Len(b)
  <1>1. /\ b \in Seq(Int) /\ L \in Seq(Int) /\ Len(L) = Len(P) + Len(D)
        /\ Len(b) = EncodedHeaderLen + Len(L)
        /\ \A i \in 1..Len(L) : b[EncodedHeaderLen + i] = L[i]
    BY EncodedBytes
  <1>2. /\ e.type = c.type /\ e.end = c.end /\ e.seq = c.seq
        /\ e.payloadLen = Len(P) /\ e.paddingLen = Len(D) /\ e.randOffset = r
    BY DEF EncodeCell
  <1>3. /\ P \in Seq(Int) /\ D \in Seq(Int) /\ r \in Nat /\ r <= Len(D)
        /\ Len(P) \in Nat /\ Len(D) \in Nat
        /\ CellHeaderLen \in Nat /\ EncodedHeaderLen = 22
    BY FramingAssumption DEF Cell, Encodable, EncodedHeaderLen
  <1>c. c = [type |-> c.type, end |-> c.end, seq |-> c.seq, randOffset |-> r,
             payload |-> P, padding |-> D]
    BY DEF Cell
  <1> HIDE DEF e, L
  <1>n. /\ p \in Nat /\ d \in Nat /\ n = 22 + (p + d) /\ Len(L) = p + d
        /\ e.payloadLen = p /\ e.paddingLen = d
    <2>1. /\ Len(P) \in Nat /\ Len(D) \in Nat /\ Len(L) = Len(P) + Len(D)
          /\ Len(b) = 22 + Len(L)
      BY <1>1, <1>3, Zenon
    <2> QED
      BY <1>2, <2>1, Zenon
  <1>4. CASE CellHeaderLen # EncodedHeaderLen
    <2>1. n - CellHeaderLen # p + d
      <3> HIDE DEF p, d, n
      <3> QED
        BY <1>n, <1>3, <1>4
    <2>2. Len(b) - CellHeaderLen # e.payloadLen + e.paddingLen
      BY <1>n, <2>1, Zenon
    <2> QED
      BY <1>4, <2>2 DEF DecodeCell, e
  <1>5. CASE CellHeaderLen = EncodedHeaderLen
    <2>1. CellHeaderLen = 22
      BY <1>3, <1>5
    <2>a. /\ ~(n < CellHeaderLen) /\ ~(n < EncodedHeaderLen)
          /\ n - CellHeaderLen = p + d
          /\ 22 \in Nat /\ n \in Nat /\ 22 <= n /\ n <= n /\ n - 22 = p + d
      <3> HIDE DEF p, d, n
      <3> QED
        BY <1>3, <1>n, <2>1
    <2>2. /\ ~(Len(b) < CellHeaderLen) /\ ~(Len(b) < EncodedHeaderLen)
          /\ ~(Len(b) - CellHeaderLen # e.payloadLen + e.paddingLen)
      BY <1>n, <2>a, Zenon
    <2>3. rest = L
      <3>1. rest = Slice(b, 22, n)
        BY <2>1, Zenon
      <3>2. /\ Slice(b, 22, n) \in Seq(Int) /\ Len(Slice(b, 22, n)) = n - 22
            /\ \A i \in 1..(n - 22) : Slice(b, 22, n)[i] = b[22 + i]
        <4>1. n <= Len(b)
          BY <2>a, Zenon
        <4> HIDE DEF n, b
        <4> QED
          BY <1>1, <2>a, <4>1, SliceBytes
      <3> HIDE DEF rest, b, p, d, n
      <3>3. /\ rest \in Seq(Int) /\ Len(rest) = p + d
            /\ \A i \in 1..(p + d) : rest[i] = b[22 + i]
        BY <2>a, <3>1, <3>2, Zenon
      <3>4. \A i \in 1..(p + d) : rest[i] = L[i]
        BY <1>1, <1>3, <1>n, <3>3, Zenon
      <3> QED
        BY <1>1, <1>n, <3>3, <3>4, SeqEqual
    <2>4. /\ Copy(Zeros(Len(P)), 0, Slice(L, r, r + Len(P))) = P
          /\ Copy(Copy(Zeros(Len(D)), 0, Slice(L, 0, r)), r,
                  Slice(L, r + Len(P), Len(L))) = D
      <3>1. L = Layout(P, D, r)
        BY DEF L
      <3>2. /\ P \in Seq(Int) /\ D \in Seq(Int) /\ r \in Nat /\ r <= Len(D)
            /\ L \in Seq(Int)
        BY <1>1, <1>3, Zenon
      <3> HIDE DEF P, D, r
      <3> QED
        BY <3>1, <3>2, UnpackBytes
    <2> DEFINE pay == Copy(Zeros(e.payloadLen), 0,
                           Slice(rest, e.randOffset, e.randOffset + e.payloadLen))
               pad == Copy(Copy(Zeros(e.paddingLen), 0, Slice(rest, 0, e.randOffset)),
                           e.randOffset,
                           Slice(rest, e.randOffset + e.payloadLen, Len(rest)))
    <2>5. pay = P /\ pad = D
      <3> HIDE DEF rest, P, D, r
      <3> QED
        BY <1>2, <2>3, <2>4
    <2>6. DecodeCell(e) = [type |-> e.type, end |-> e.end, seq |-> e.seq,
                           randOffset |-> e.randOffset, payload |-> pay, padding |-> pad]
      <3>1. DecodeCell(e) =
              IF \/ Len(b) < CellHeaderLen \/ Len(b) < EncodedHeaderLen
                 \/ Len(b) - CellHeaderLen # e.payloadLen + e.paddingLen
              THEN DecodeError
              ELSE [type |-> e.type, end |-> e.end, seq |-> e.seq,
                    randOffset |-> e.randOffset, payload |-> pay, padding |-> pad]
        BY Zenon DEF DecodeCell
      <3> HIDE DEF pay, pad, b
      <3> QED
        BY <2>2, <3>1, Zenon
    <2> HIDE DEF pay, pad
    <2>7. DecodeCell(e) = c
      BY <1>2, <1>c, <2>5, <2>6, Zenon
    <2> QED
      BY <1>5, <2>7 DEF e
  <1> QED
    BY <1>4, <1>5

-----------------------------------------------------------------------------
(* Fragment.                                                               *)

FramingInv == TypeOK /\ FragmentsInOrder /\ EndFlagOnlyLast

\* The lengths of one round: at least one byte, none beyond the end.
LEMMA RoundLength ==
  ASSUME TypeOK, offset < length, NEW drawn \in PayloadLengths
  PROVE  LET last == offset + drawn > length
             n == IF last THEN length - offset ELSE drawn
         IN  /\ n \in Nat /\ n > 0 /\ offset + n \in 0..length
             /\ last => offset + n = length
  <1>1. drawn \in Nat /\ drawn > 0
    BY FramingAssumption DEF PayloadLengths
  <1> QED
    BY <1>1 DEF TypeOK

\* Padding is a sequence of bytes.
LEMMA PaddingBytes ==
  ASSUME NEW n \in Int
  PROVE  generatePadding(n) \in Seq(Int)
  <1> DEFINE m == IF n > 0 THEN n ELSE 0
  <1>1. m \in Nat
    OBVIOUS
  <1>2. generatePadding(n) = [i \in 1..m |-> -i]
    BY DEF generatePadding
  <1> HIDE DEF m
  <1>3. [i \in 1..m |-> -i] \in [1..m -> Int]
    BY <1>1
  <1> QED
    BY <1>1, <1>2, <1>3, FunctionIsSeq

\* A cell size and an offset are numbers.
LEMMA DrawnNumbers ==
  ASSUME NEW total \in CellSizes, NEW randOffset \in RandomOffsets(total)
  PROVE  total \in Nat /\ randOffset \in Nat
  <1>1. total \in Nat
    BY FramingAssumption DEF CellSizes
  <1> QED
    BY <1>1 DEF RandomOffsets

\* A round of the loop keeps the invariant.
LEMMA RoundStep ==
  ASSUME FramingInv, NEW drawn \in PayloadLengths, NEW total \in CellSizes,
         NEW randOffset \in RandomOffsets(total),
         FragmentRound(drawn, total, randOffset)
  PROVE  FramingInv'
  <1> DEFINE last == offset + drawn > length
             n == IF last THEN length - offset ELSE drawn
             x == [first |-> from + offset, len |-> n, end |-> last, seq |-> seq]
             k == Len(message)
  <1>1. /\ busy /\ offset < length /\ TypeOK
        /\ cell' = MakeCell(n, last, total, randOffset)
        /\ message' = Append(message, x)
        /\ offset' = offset + n /\ seq' = seq + 1
        /\ UNCHANGED <<busy, from, length, dummies>>
    BY DEF FragmentRound, FramingInv
  <1>2. /\ n \in Nat /\ n > 0 /\ offset + n \in 0..length
        /\ last => offset + n = length
    BY <1>1, RoundLength
  <1>3. last \in BOOLEAN
    OBVIOUS
  <1> HIDE DEF n, last
  <1>4. /\ from \in Nat /\ offset \in Nat /\ seq \in Nat /\ length \in Nat
        /\ message \in Seq(Extent) /\ k \in Nat
    BY <1>1 DEF TypeOK
  <1>5. x \in Extent
    BY <1>2, <1>3, <1>4 DEF Extent
  <1>x. x.first = from + offset /\ x.len = n /\ x.end = last /\ x.seq = seq
    OBVIOUS
  <1> HIDE DEF x
  <1>6. /\ message' \in Seq(Extent) /\ Len(message') = k + 1
        /\ \A i \in 1..k : message'[i] = message[i]
        /\ message'[k + 1] = x
        /\ DOMAIN message' = 1..(k + 1) /\ DOMAIN message = 1..k
    BY <1>1, <1>4, <1>5, AppendProperties
  <1> HIDE DEF k
  <1>7. cell' \in Cell
    <2>1. Bytes(from + offset, n) \in Seq(Int)
      <3>1. Bytes(from + offset, n) \in [1..n -> Int]
        BY <1>2, <1>4 DEF Bytes
      <3> QED
        BY <1>2, <3>1, FunctionIsSeq
    <2>2. generatePadding(total - CellHeaderLen - n) \in Seq(Int)
      <3>1. total - CellHeaderLen - n \in Int
        BY <1>2, DrawnNumbers, FramingAssumption
      <3> QED
        BY <3>1, PaddingBytes
    <2>3. randOffset \in Nat
      BY DrawnNumbers
    <2> QED
      BY <1>1, <1>3, <1>4, <2>1, <2>2, <2>3 DEF MakeCell, Cell
  <1>8. TypeOK'
    <2>1. seq' \in Nat /\ offset' \in 0..length'
      BY <1>1, <1>2, <1>4
    <2> QED
      BY <1>1, <1>6, <1>7, <2>1 DEF TypeOK
  <1>f. FragmentsInOrder
    BY DEF FramingInv
  <1>t. \A i \in 1..k : message[i].len \in Nat /\ message[i].first \in Nat
                        /\ message[i].seq \in Nat
    <2>1. \A i \in 1..k : message[i] \in Extent
      BY <1>4, <1>6
    <2> QED
      BY <2>1 DEF Extent
  <1>g. \A i \in 1..k :
          /\ message[i].len > 0
          /\ message[i].first + message[i].len
               = IF i = k THEN from + offset ELSE message[i + 1].first
          /\ message[i].seq + k = seq + i - 1
    BY <1>f, <1>6 DEF FragmentsInOrder, k
  <1>9. FragmentsInOrder'
    <2>1. ASSUME NEW i \in 1..(k + 1)
          PROVE  /\ message'[i].len > 0
                 /\ message'[i].first + message'[i].len
                      = IF i = k + 1 THEN from + offset' ELSE message'[i + 1].first
                 /\ message'[i].seq + (k + 1) = seq' + i - 1
      <3>1. CASE i = k + 1
        <4>1. /\ message'[i].len = n /\ message'[i].first = from + offset
              /\ message'[i].seq = seq /\ offset' = offset + n /\ seq' = seq + 1
          BY <1>1, <1>6, <1>x, <3>1
        <4>2. (from + offset) + n = from + (offset + n)
          BY <1>2, <1>4
        <4>3. seq + (k + 1) = (seq + 1) + i - 1
          BY <1>4, <3>1
        <4> QED
          BY <1>2, <3>1, <4>1, <4>2, <4>3
      <3>2. CASE i = k /\ i # k + 1
        <4>1. /\ message'[i] = message[i] /\ message'[i + 1] = x /\ i \in 1..k
          BY <1>4, <1>6, <3>2
        <4>2. message[i].first + message[i].len = from + offset
          BY <1>g, <3>2, <4>1
        <4>3. message[i].len > 0 /\ message[i].seq + k = seq + i - 1
          BY <1>g, <4>1
        <4>4. message[i].seq \in Nat
          BY <1>t, <4>1
        <4>5. message[i].seq + (k + 1) = (seq + 1) + i - 1
          BY <1>4, <3>2, <4>3, <4>4
        <4> QED
          BY <1>1, <1>x, <3>2, <4>1, <4>2, <4>3, <4>5
      <3>3. CASE i < k
        <4>1. /\ message'[i] = message[i] /\ message'[i + 1] = message[i + 1]
              /\ i \in 1..k /\ i # k /\ i # k + 1
          BY <1>4, <1>6, <3>3
        <4>3. /\ message[i].len > 0 /\ message[i].seq + k = seq + i - 1
              /\ message[i].first + message[i].len = message[i + 1].first
          BY <1>g, <4>1
        <4>4. message[i].seq \in Nat
          BY <1>t, <4>1
        <4>a. \A z \in Nat : z + k = seq + i - 1 => z + (k + 1) = (seq + 1) + i - 1
          BY <1>4
        <4>5. message[i].seq + (k + 1) = (seq + 1) + i - 1
          BY <4>3, <4>4, <4>a
        <4> QED
          BY <1>1, <4>1, <4>3, <4>5
      <3> QED
        BY <1>4, <3>1, <3>2, <3>3
    <2>2. message'[1].first = from
      <3>1. CASE k = 0
        <4>1. message = <<>> /\ message'[1] = x
          BY <1>4, <1>6, <3>1 DEF k
        <4>2. offset = 0
          BY <1>f, <4>1 DEF FragmentsInOrder
        <4> QED
          BY <1>4, <1>x, <4>1, <4>2
      <3>2. CASE k # 0
        <4>1. message # <<>> /\ message'[1] = message[1]
          BY <1>4, <1>6, <3>2 DEF k
        <4> QED
          BY <1>f, <4>1 DEF FragmentsInOrder
      <3> QED
        BY <3>1, <3>2
    <2>3. message' # <<>>
      BY <1>4, <1>6
    <2> QED
      BY <1>1, <1>6, <2>1, <2>2, <2>3 DEF FragmentsInOrder
  <1>10. EndFlagOnlyLast'
    <2>1. \A i \in 1..k : ~message[i].end
      BY <1>1, <1>6 DEF FramingInv, EndFlagOnlyLast, TypeOK
    <2>2. ASSUME NEW i \in 1..(k + 1), message'[i].end
          PROVE  i = k + 1 /\ offset' = length
      <3>1. i = k + 1
        BY <1>4, <1>6, <2>1, <2>2
      <3> QED
        BY <1>1, <1>2, <1>6, <1>x, <2>2, <3>1
    <2> QED
      BY <1>1, <1>6, <2>2 DEF EndFlagOnlyLast
  <1> QED
    BY <1>8, <1>9, <1>10 DEF FramingInv

\* FramingInv is inductive.
LEMMA FramingStep == FramingInv /\ [Next]_vars => FramingInv'
  <1> SUFFICES ASSUME FramingInv, [Next]_vars PROVE FramingInv'
    OBVIOUS
  <1>t. TypeOK
    BY DEF FramingInv
  <1>1. ASSUME NEW n \in 0..MaxData, FragmentCalled(n) PROVE FramingInv'
    <2>1. from' \in Nat /\ length' \in Nat /\ offset' \in 0..length'
      BY <1>1, <1>t, FramingAssumption DEF FragmentCalled, TypeOK
    <2>2. message' \in Seq(Extent) /\ DOMAIN message' = {}
      BY <1>1, EmptySeq DEF FragmentCalled
    <2>3. TypeOK'
      BY <1>1, <1>t, <2>1, <2>2 DEF FragmentCalled, TypeOK
    <2> QED
      BY <1>1, <2>2, <2>3 DEF FragmentCalled, FramingInv, FragmentsInOrder,
         EndFlagOnlyLast
  <1>2. ASSUME NEW drawn \in PayloadLengths, NEW total \in CellSizes,
               NEW randOffset \in RandomOffsets(total),
               FragmentRound(drawn, total, randOffset)
        PROVE  FramingInv'
    BY <1>2, RoundStep
  <1>3. CASE FragmentReturns
    BY <1>3 DEF FragmentReturns, FramingInv, TypeOK, FragmentsInOrder, EndFlagOnlyLast
  <1>4. ASSUME NEW total \in CellSizes, NEW randOffset \in RandomOffsets(total),
               CreateDummyCell(total, randOffset)
        PROVE  FramingInv'
    <2>1. generatePadding(total - CellHeaderLen) \in Seq(Int) /\ randOffset \in Nat
      <3>1. total - CellHeaderLen \in Int
        BY DrawnNumbers, FramingAssumption
      <3> QED
        BY <3>1, DrawnNumbers, PaddingBytes
    <2>2. <<>> \in Seq(Int) /\ 0 \in Nat
      BY EmptySeq
    <2>3. cell' \in Cell
      BY <1>4, <2>1, <2>2 DEF CreateDummyCell, Cell
    <2>4. dummies' \in 0..MaxDummies
      BY <1>4, <1>t, FramingAssumption DEF CreateDummyCell, TypeOK
    <2>5. UNCHANGED <<busy, from, length, offset, seq, message>>
      BY <1>4 DEF CreateDummyCell
    <2> QED
      BY <1>t, <2>3, <2>4, <2>5 DEF FramingInv, TypeOK, FragmentsInOrder,
         EndFlagOnlyLast
  <1>5. CASE UNCHANGED vars
    BY <1>5 DEF vars, FramingInv, TypeOK, FragmentsInOrder, EndFlagOnlyLast
  <1> QED
    BY <1>1, <1>2, <1>3, <1>4, <1>5 DEF Next

\* The invariant holds in every state.
LEMMA FramingInvariance == Spec => []FramingInv
  <1>1. Init => FramingInv
    <2> SUFFICES ASSUME Init PROVE FramingInv
      OBVIOUS
    <2>1. message \in Seq(Extent) /\ DOMAIN message = {}
      BY EmptySeq DEF Init
    <2>2. 0 \in 0..MaxDummies /\ 0 \in 0..0
      BY FramingAssumption
    <2> QED
      BY <2>1, <2>2 DEF Init, FramingInv, TypeOK, FragmentsInOrder, EndFlagOnlyLast
  <1> QED
    BY <1>1, FramingStep, PTL DEF Spec

\* Every state of the framer is well typed.
THEOREM FramingTypes == Spec => []TypeOK
  <1>1. FramingInv => TypeOK
    BY DEF FramingInv
  <1> QED
    BY <1>1, FramingInvariance, PTL

\* For every message and every draw of lengths, Fragment's cells carry the
\* bytes of the message in order, each once, under consecutive numbers.
THEOREM FragmentationPartitions == Spec => []FragmentsInOrder
  <1>1. FramingInv => FragmentsInOrder
    BY DEF FramingInv
  <1> QED
    BY <1>1, FramingInvariance, PTL

\* The end flag is on no cell but the one with the last byte.
THEOREM EndFlagSound == Spec => []EndFlagOnlyLast
  <1>1. FramingInv => EndFlagOnlyLast
    BY DEF FramingInv
  <1> QED
    BY <1>1, FramingInvariance, PTL

\* Every cell the framer makes and can encode is decoded to itself if the two
\* header lengths agree and is refused if they do not.
THEOREM CellsDecodeIffLengthsAgree == Spec => []DecodedIffLengthsAgree
  <1>1. FramingInv => DecodedIffLengthsAgree
    BY Codec DEF FramingInv, TypeOK, DecodedIffLengthsAgree, Encoded
  <1> QED
    BY <1>1, FramingInvariance, PTL

-----------------------------------------------------------------------------
(* The heap of the Scheduler.                                              *)

\* Induction up to n.
LEMMA BoundedInduction ==
    ASSUME NEW n \in Nat, NEW S, 0 \in S,
           \A i \in 0..(n - 1) : i \in S => i + 1 \in S
    PROVE  0..n \subseteq S
<1> DEFINE T == (0..n) \ S
<1> SUFFICES ASSUME T # {} PROVE FALSE
  OBVIOUS
<1>1. T \subseteq Nat
  OBVIOUS
<1> HIDE DEF T
<1>2. PICK m \in T : \A i \in T : ~(<<i, m>> \in OpToRel(<, Nat))
  BY <1>1, NatLessThanWellFounded, WFMin
<1>3. \A i \in T : ~(<<i, m>> \in {ss \in Nat \X Nat : ss[1] < ss[2]})
  BY <1>2 DEF OpToRel
<1>4. m \in 0..n /\ m # 0 /\ m \notin S
  BY DEF T
<1>5. m - 1 \in 0..(n - 1) /\ m - 1 \in 0..n /\ (m - 1) + 1 = m
  BY <1>4
<1>6. m - 1 \notin S
  BY <1>4, <1>5
<1>7. m - 1 \in T
  BY <1>5, <1>6 DEF T
<1>8. ~(<<m - 1, m>> \in {ss \in Nat \X Nat : ss[1] < ss[2]})
  BY <1>3, <1>7
<1>9. m \in Nat /\ m - 1 \in Nat /\ m - 1 < m
  BY <1>4
<1>10. QED
  BY <1>8, <1>9

Item == [cell : Nat, dummy : BOOLEAN, index : Int, prio : Int]

LEMMA Parents ==
    ASSUME NEW x \in Nat, x >= 2
    PROVE  /\ Parent(x) \in Nat /\ Parent(x) >= 1 /\ Parent(x) < x
           /\ x = 2 * Parent(x) \/ x = 2 * Parent(x) + 1
  BY DEF Parent

LEMMA Kids ==
    ASSUME NEW x \in Nat, NEW y \in Nat, y >= 1, x \in {2 * y, 2 * y + 1}
    PROVE  Parent(x) = y
  BY DEF Parent

\* The position whose item Swap(q, i, j) puts in position x.
From(i, j, x) == IF x = i THEN j ELSE IF x = j THEN i ELSE x

Exchanged(q, r, i, j) ==
    /\ r \in Seq(Item) /\ Len(r) = Len(q)
    /\ \A x \in 1..Len(q) :
          /\ r[x].cell = q[From(i, j, x)].cell
          /\ r[x].prio = q[From(i, j, x)].prio
          /\ r[x].index = IF x \in {i, j} THEN x - 1 ELSE q[x].index

LEMMA Reindexed ==
    ASSUME NEW e \in Item, NEW k \in Int
    PROVE  /\ [e EXCEPT !.index = k] \in Item
           /\ [e EXCEPT !.index = k].cell = e.cell
           /\ [e EXCEPT !.index = k].prio = e.prio
           /\ [e EXCEPT !.index = k].index = k
  BY DEF Item

LEMMA Swapped ==
    ASSUME NEW q \in Seq(Item), NEW i \in 1..Len(q), NEW j \in 1..Len(q)
    PROVE  Exchanged(q, Swap(q, i, j), i, j)
  <1> DEFINE n == Len(q)
             a == [q[j] EXCEPT !.index = i - 1]
             b == [q[i] EXCEPT !.index = j - 1]
             r == [q EXCEPT ![i] = a, ![j] = b]
  <1>1. /\ n \in Nat /\ q \in [1..n -> Item] /\ i \in Int /\ j \in Int
        /\ DOMAIN q = 1..n /\ q[i] \in Item /\ q[j] \in Item
    BY LenProperties, ElementOfSeq
  <1>2. i - 1 \in Int /\ j - 1 \in Int
    BY <1>1
  <1>3. /\ a \in Item /\ b \in Item
        /\ a.cell = q[j].cell /\ a.prio = q[j].prio /\ a.index = i - 1
        /\ b.cell = q[i].cell /\ b.prio = q[i].prio /\ b.index = j - 1
    BY <1>1, <1>2, Reindexed
  <1> HIDE DEF a, b, n
  <1>4. /\ r \in [1..n -> Item]
        /\ \A x \in 1..n : r[x] = IF x = j THEN b ELSE IF x = i THEN a ELSE q[x]
    BY <1>1, <1>3
  <1> HIDE DEF r
  <1>5. r \in Seq(Item) /\ Len(r) = n
    BY <1>1, <1>4, FunctionIsSeq
  <1>6. \A x \in 1..n : /\ r[x].cell = q[From(i, j, x)].cell
                        /\ r[x].prio = q[From(i, j, x)].prio
                        /\ r[x].index = IF x \in {i, j} THEN x - 1 ELSE q[x].index
    BY <1>3, <1>4, <1>1 DEF From
  <1> QED
    BY <1>5, <1>6 DEF Exchanged, Swap, r, a, b, n

\* What the abstract queue sees of q.
Entry(e) == [item |-> e.cell, prio |-> e.prio]
Entries(q) == {Entry(q[x]) : x \in 1..Len(q)}

Distinct(q) == \A x, y \in 1..Len(q) : q[x].cell = q[y].cell => x = y
Indexed(q) == \A x \in 1..Len(q) : q[x].index = x - 1

\* r has the items of q, each of its items knows its position if q's do, and
\* what was behind the first n positions still is.
Rearranged(q, r, n) ==
    /\ r \in Seq(Item) /\ Len(r) = Len(q) /\ Entries(r) = Entries(q)
    /\ Distinct(q) => Distinct(r)
    /\ Indexed(q) => Indexed(r)
    /\ \A x \in (n + 1)..Len(q) : r[x] = q[x]

LEMMA SwapRearranges ==
    ASSUME NEW q \in Seq(Item), NEW n \in 0..Len(q),
           NEW i \in 1..n, NEW j \in 1..n
    PROVE  Rearranged(q, Swap(q, i, j), n)
  <1> DEFINE r == Swap(q, i, j)
  <1>1. Len(q) \in Nat /\ i \in 1..Len(q) /\ j \in 1..Len(q)
    BY LenProperties
  <1>2. Exchanged(q, r, i, j)
    BY <1>1, Swapped
  <1>3. \A x \in (n + 1)..Len(q) : r[x] = q[x]
    <2>1. DOMAIN q = 1..Len(q)
      BY LenProperties
    <2> QED
      BY <1>1, <2>1 DEF Swap
  <1> HIDE DEF r
  <1>4. \A x \in 1..Len(q) : /\ From(i, j, x) \in 1..Len(q)
                             /\ From(i, j, From(i, j, x)) = x
    BY <1>1 DEF From
  <1>5. r \in Seq(Item) /\ Len(r) = Len(q)
    BY <1>2 DEF Exchanged
  <1>6. \A x \in 1..Len(q) : Entry(r[x]) = Entry(q[From(i, j, x)])
    BY <1>2 DEF Exchanged, Entry
  <1>7. \A x \in 1..Len(q) : Entry(q[x]) = Entry(r[From(i, j, x)])
    BY <1>4, <1>6
  <1>8. Entries(r) \subseteq Entries(q) /\ Entries(q) \subseteq Entries(r)
    <2> HIDE DEF Entry
    <2>1. \A x \in 1..Len(q) : Entry(r[x]) \in Entries(q)
      BY <1>4, <1>6 DEF Entries
    <2>2. \A x \in 1..Len(q) : Entry(q[x]) \in Entries(r)
      BY <1>4, <1>5, <1>7 DEF Entries
    <2>3. \A u \in Entries(q) : \E x \in 1..Len(q) : u = Entry(q[x])
      BY DEF Entries
    <2>4. \A u \in Entries(r) : \E x \in 1..Len(q) : u = Entry(r[x])
      BY <1>5 DEF Entries
    <2> QED
      BY <2>1, <2>2, <2>3, <2>4
  <1>9. Distinct(q) => Distinct(r)
    BY <1>2, <1>4 DEF Distinct, Exchanged
  <1>10. Indexed(q) => Indexed(r)
    BY <1>2 DEF Indexed, Exchanged
  <1> QED
    BY <1>3, <1>5, <1>8, <1>9, <1>10 DEF Rearranged, r

LEMMA RearrangedTwice ==
    ASSUME NEW q, NEW r, NEW t, NEW n \in Nat,
           Rearranged(q, r, n), Rearranged(r, t, n)
    PROVE  Rearranged(q, t, n)
  BY DEF Rearranged

LEMMA RearrangedNot ==
    ASSUME NEW q \in Seq(Item), NEW n \in Nat PROVE Rearranged(q, q, n)
  BY DEF Rearranged

\* One step of a parent and child on the way up, over the send times f.
UpOK(f, n, p) ==
    /\ \A x \in 2..n : x # p => f[Parent(x)] <= f[x]
    /\ p > 1 => \A x \in 2..n : Parent(x) = p => f[Parent(p)] <= f[x]

DownOK(f, n, p) ==
    /\ \A x \in 2..n : Parent(x) # p => f[Parent(x)] <= f[x]
    /\ p > 1 => \A x \in 2..n : Parent(x) = p => f[Parent(p)] <= f[x]

Ordered(f, n) == \A x \in 2..n : f[Parent(x)] <= f[x]

\* g is f with the values at i and j exchanged.
Flipped(f, g, n, i, j) ==
    /\ \A x \in 1..n : f[x] \in Int
    /\ \A x \in 1..n : g[x] = f[From(i, j, x)]

LEMMA ParentsIn ==
    ASSUME NEW n \in Nat, NEW x \in 2..n
    PROVE  /\ Parent(x) \in 1..n /\ Parent(x) < x
           /\ x = 2 * Parent(x) \/ x = 2 * Parent(x) + 1
  BY Parents

LEMMA UpMoves ==
    ASSUME NEW n \in Nat, NEW f, NEW g, NEW p \in 2..n,
           Flipped(f, g, n, Parent(p), p), UpOK(f, n, p), f[p] < f[Parent(p)]
    PROVE  UpOK(g, n, Parent(p))
  <1> DEFINE i == Parent(p)
  <1>1. i \in 1..n /\ i < p
    BY ParentsIn
  <1>2. /\ g[p] = f[i] /\ g[i] = f[p] /\ f[i] \in Int /\ f[p] \in Int
        /\ \A x \in (1..n) \ {i, p} : g[x] = f[x] /\ f[x] \in Int
    BY <1>1 DEF Flipped, From
  <1>3. ASSUME NEW x \in 2..n, x # i PROVE g[Parent(x)] <= g[x]
    <2>1. Parent(x) \in 1..n /\ Parent(x) < x
      BY ParentsIn
    <2>2. f[x] \in Int /\ f[Parent(x)] \in Int
      BY <2>1 DEF Flipped
    <2>3. CASE x = p
      BY <1>2, <2>3
    <2>4. CASE x # p /\ Parent(x) = p
      <3>1. f[i] <= f[x]
        BY <2>4 DEF UpOK
      <3> QED
        BY <1>2, <1>3, <2>4, <3>1
    <2>5. CASE x # p /\ Parent(x) # p
      <3>1. f[Parent(x)] <= f[x]
        BY <2>5 DEF UpOK
      <3>2. g[x] = f[x]
        BY <1>2, <1>3, <2>5
      <3>3. CASE Parent(x) = i
        BY <1>2, <2>2, <3>1, <3>2, <3>3
      <3>4. CASE Parent(x) # i
        BY <1>2, <2>1, <2>5, <3>1, <3>2, <3>4
      <3> QED
        BY <3>3, <3>4
    <2> QED
      BY <2>3, <2>4, <2>5
  <1>4. ASSUME i > 1, NEW x \in 2..n, Parent(x) = i PROVE g[Parent(i)] <= g[x]
    <2>1. i \in 2..n
      BY <1>1, <1>4
    <2>2. Parent(i) \in 1..n /\ Parent(i) < i /\ Parent(x) < x
      BY <2>1, ParentsIn
    <2>3. f[Parent(i)] <= f[i]
      BY <1>1, <2>1 DEF UpOK
    <2>4. g[Parent(i)] = f[Parent(i)] /\ f[Parent(i)] \in Int
      BY <1>1, <1>2, <2>2
    <2>5. CASE x = p
      BY <1>2, <2>3, <2>4, <2>5
    <2>6. CASE x # p
      <3>1. f[i] <= f[x]
        BY <1>4, <2>6 DEF UpOK
      <3>2. g[x] = f[x] /\ f[x] \in Int
        BY <1>2, <1>4, <2>2, <2>6
      <3> QED
        BY <1>2, <2>3, <2>4, <3>1, <3>2
    <2> QED
      BY <2>5, <2>6
  <1> HIDE DEF i
  <1>5. UpOK(g, n, i)
    BY <1>3, <1>4 DEF UpOK
  <1> QED
    BY <1>5 DEF i

LEMMA DownMoves ==
    ASSUME NEW n \in Nat, NEW f, NEW g, NEW p \in 1..n, NEW c \in 1..n,
           Parent(c) = p, c >= 2, Flipped(f, g, n, p, c), DownOK(f, n, p),
           f[c] < f[p], \A x \in 2..n : Parent(x) = p => f[c] <= f[x]
    PROVE  DownOK(g, n, c)
  <1>1. c \in 2..n /\ p < c
    BY ParentsIn
  <1>2. /\ g[p] = f[c] /\ g[c] = f[p] /\ f[c] \in Int /\ f[p] \in Int
        /\ \A x \in (1..n) \ {c, p} : g[x] = f[x] /\ f[x] \in Int
    BY <1>1 DEF Flipped, From
  <1>3. ASSUME NEW x \in 2..n, Parent(x) # c PROVE g[Parent(x)] <= g[x]
    <2>1. Parent(x) \in 1..n /\ Parent(x) < x
      BY ParentsIn
    <2>2. f[x] \in Int /\ f[Parent(x)] \in Int
      BY <2>1 DEF Flipped
    <2>3. CASE x = c
      BY <1>2, <2>3
    <2>4. CASE x # c /\ Parent(x) = p
      <3>1. f[c] <= f[x] /\ g[x] = f[x]
        BY <1>2, <2>1, <2>4
      <3> QED
        BY <1>2, <2>4, <3>1
    <2>5. CASE x = p
      <3>1. f[Parent(p)] <= f[c]
        BY <1>1, <2>5 DEF DownOK
      <3>2. g[Parent(p)] = f[Parent(p)]
        BY <1>2, <1>3, <2>1, <2>5
      <3> QED
        BY <1>2, <2>5, <3>1, <3>2
    <2>6. CASE x \notin {c, p} /\ Parent(x) # p
      <3>1. f[Parent(x)] <= f[x]
        BY <2>6 DEF DownOK
      <3> QED
        BY <1>2, <1>3, <2>1, <2>6, <3>1
    <2> QED
      BY <2>3, <2>4, <2>5, <2>6
  <1>4. ASSUME NEW x \in 2..n, Parent(x) = c PROVE g[Parent(c)] <= g[x]
    <2>1. Parent(x) < x
      BY ParentsIn
    <2>2. f[c] <= f[x]
      BY <1>1, <1>4 DEF DownOK
    <2>3. g[x] = f[x]
      BY <1>1, <1>2, <1>4, <2>1
    <2> QED
      BY <1>2, <2>2, <2>3
  <1> QED
    BY <1>3, <1>4 DEF DownOK

\* The root is least.
LEMMA RootLeast ==
    ASSUME NEW n \in Nat, NEW f, \A x \in 1..n : f[x] \in Int, Ordered(f, n)
    PROVE  \A x \in 1..n : f[1] <= f[x]
  <1> DEFINE T == {x \in 1..n : ~(f[1] <= f[x])}
  <1> SUFFICES ASSUME T # {} PROVE FALSE
    OBVIOUS
  <1>1. T \subseteq Nat
    OBVIOUS
  <1> HIDE DEF T
  <1>2. PICK m \in T : \A i \in T : ~(<<i, m>> \in OpToRel(<, Nat))
    BY <1>1, NatLessThanWellFounded, WFMin
  <1>3. m \in 1..n /\ ~(f[1] <= f[m])
    BY DEF T
  <1>4. m \in 2..n
    BY <1>3
  <1>5. Parent(m) \in 1..n /\ Parent(m) < m
    BY <1>4, ParentsIn
  <1>6. f[Parent(m)] <= f[m]
    BY <1>4 DEF Ordered
  <1>7. 1 \in 1..n
    BY <1>3
  <1>8. ~(f[1] <= f[Parent(m)])
    BY <1>3, <1>5, <1>6, <1>7
  <1>9. Parent(m) \in T
    BY <1>5, <1>8 DEF T
  <1>10. <<Parent(m), m>> \in OpToRel(<, Nat)
    BY <1>3, <1>5 DEF OpToRel
  <1> QED
    BY <1>2, <1>9, <1>10

-----------------------------------------------------------------------------
(* The loops of up and down.                                               *)

Step(d, n, h) == IF d = "up" THEN UpRound(h) ELSE DownRound(h, n)

\* f is the first m rounds from h.
IsLoop(d, n, h, m, f) ==
    f = [k \in 0..m |-> IF k = 0 THEN h ELSE Step(d, n, f[k - 1])]

\* Rounds are added to a solution for fewer rounds one at a time.
LEMMA LoopExists ==
    ASSUME NEW d, NEW n, NEW h, NEW m \in Nat
    PROVE  \E f : IsLoop(d, n, h, m, f)
  <1> DEFINE S == {k \in Nat : \E f : IsLoop(d, n, h, k, f)}
  <1>1. 0 \in S
    <2> DEFINE f == [k \in 0..0 |-> h]
    <2>1. IsLoop(d, n, h, 0, f)
      BY DEF IsLoop
    <2> QED
      BY <2>1
  <1>2. ASSUME NEW k \in Nat, k \in S PROVE k + 1 \in S
    <2>1. PICK f : IsLoop(d, n, h, k, f)
      BY <1>2
    <2>2. /\ DOMAIN f = 0..k
          /\ \A i \in 0..k : f[i] = IF i = 0 THEN h ELSE Step(d, n, f[i - 1])
      BY <2>1 DEF IsLoop
    <2> DEFINE g == [i \in 0..(k + 1) |-> IF i <= k THEN f[i] ELSE Step(d, n, f[k])]
    <2>3. \A i \in 0..(k + 1) : g[i] = IF i = 0 THEN h ELSE Step(d, n, g[i - 1])
      <3> TAKE i \in 0..(k + 1)
      <3>1. CASE i <= k /\ i # 0
        <4>1. i \in 0..k /\ i - 1 \in 0..(k + 1) /\ i - 1 <= k
          BY <3>1
        <4>2. g[i] = f[i] /\ g[i - 1] = f[i - 1]
          BY <3>1, <4>1
        <4> HIDE DEF g
        <4> QED
          BY <2>2, <3>1, <4>1, <4>2
      <3>2. CASE i = 0
        BY <2>2, <3>2
      <3>3. CASE ~(i <= k)
        <4>1. i = k + 1 /\ k \in 0..(k + 1) /\ (k + 1) - 1 = k /\ k + 1 # 0
          BY <3>3
        <4>2. g[k] = f[k] /\ g[k + 1] = Step(d, n, f[k])
          BY <4>1
        <4> HIDE DEF g
        <4> QED
          BY <4>1, <4>2
      <3> QED
        BY <3>1, <3>2, <3>3
    <2>4. g = [i \in 0..(k + 1) |-> g[i]]
      OBVIOUS
    <2>5. IsLoop(d, n, h, k + 1, g)
      <3> HIDE DEF g
      <3> QED
        BY <2>3, <2>4 DEF IsLoop
    <2> QED
      BY <2>5
  <1> HIDE DEF S
  <1>3. 0..m \subseteq S
    BY <1>1, <1>2, BoundedInduction
  <1> QED
    BY <1>3 DEF S

\* The rounds follow one another.
Rounds(d, n, h, m, f) ==
    f[0] = h /\ \A k \in 0..(m - 1) : f[k + 1] = Step(d, n, f[k])

LEMMA LoopRounds ==
    ASSUME NEW d, NEW n, NEW h, NEW m \in Nat, NEW f, IsLoop(d, n, h, m, f)
    PROVE  Rounds(d, n, h, m, f)
  <1>1. \A k \in 0..m : f[k] = IF k = 0 THEN h ELSE Step(d, n, f[k - 1])
    BY DEF IsLoop
  <1>2. ASSUME NEW k \in 0..(m - 1)
        PROVE  k + 1 \in 0..m /\ k + 1 # 0 /\ (k + 1) - 1 = k
    OBVIOUS
  <1> QED
    BY <1>1, <1>2 DEF Rounds

LEMMA upRuns ==
    ASSUME NEW q, NEW j, Len(q) \in Nat
    PROVE  \E f : /\ IsLoop("up", 0, [q |-> q, pos |-> j], Len(q), f)
                  /\ up(q, j) = f[Len(q)].q
  <1> DEFINE h == [q |-> q, pos |-> j]
             f == CHOOSE r : IsLoop("up", 0, h, Len(q), r)
  <1>1. \E r : IsLoop("up", 0, h, Len(q), r)
    BY LoopExists
  <1>2. IsLoop("up", 0, h, Len(q), f)
    BY <1>1
  <1>3. up(q, j) = f[Len(q)].q
    BY DEF up, IsLoop, Step
  <1> QED
    BY <1>2, <1>3

LEMMA downRuns ==
    ASSUME NEW q, NEW i, NEW n, Len(q) \in Nat
    PROVE  \E f : /\ IsLoop("down", n, [q |-> q, pos |-> i], Len(q), f)
                  /\ down(q, i, n) = f[Len(q)].q
  <1> DEFINE h == [q |-> q, pos |-> i]
             f == CHOOSE r : IsLoop("down", n, h, Len(q), r)
  <1>1. \E r : IsLoop("down", n, h, Len(q), r)
    BY LoopExists
  <1>2. IsLoop("down", n, h, Len(q), f)
    BY <1>1
  <1>3. down(q, i, n) = f[Len(q)].q
    BY DEF down, IsLoop, Step
  <1> QED
    BY <1>2, <1>3

-----------------------------------------------------------------------------
(* What up and down leave behind.                                          *)

Prios(q) == [x \in 1..Len(q) |-> q[x].prio]

LEMMA PriosOf ==
    ASSUME NEW q \in Seq(Item)
    PROVE  /\ Len(q) \in Nat
           /\ \A x \in 1..Len(q) : Prios(q)[x] = q[x].prio /\ Prios(q)[x] \in Int
  <1>1. Len(q) \in Nat /\ \A x \in 1..Len(q) : q[x] \in Item
    BY LenProperties, ElementOfSeq
  <1> QED
    BY <1>1 DEF Prios, Item

LEMMA SwapFlips ==
    ASSUME NEW q \in Seq(Item), NEW n \in 0..Len(q),
           NEW i \in 1..n, NEW j \in 1..n
    PROVE  Flipped(Prios(q), Prios(Swap(q, i, j)), n, i, j)
  <1>1. Len(q) \in Nat /\ i \in 1..Len(q) /\ j \in 1..Len(q)
    BY LenProperties
  <1>2. Exchanged(q, Swap(q, i, j), i, j)
    BY <1>1, Swapped
  <1> DEFINE r == Swap(q, i, j)
  <1> HIDE DEF r
  <1>3. /\ r \in Seq(Item) /\ Len(r) = Len(q)
        /\ \A x \in 1..Len(q) : r[x].prio = q[From(i, j, x)].prio
    BY <1>2 DEF r, Exchanged
  <1>4. \A x \in 1..n : From(i, j, x) \in 1..n /\ x \in 1..Len(q)
    BY <1>1 DEF From
  <1>5. \A x \in 1..n : Prios(r)[x] = Prios(q)[From(i, j, x)]
    <2>1. \A x \in 1..Len(q) : Prios(r)[x] = r[x].prio
      BY <1>3, PriosOf
    <2>2. \A x \in 1..Len(q) : Prios(q)[x] = q[x].prio
      BY PriosOf
    <2>3. ASSUME NEW x \in 1..n PROVE Prios(r)[x] = Prios(q)[From(i, j, x)]
      <3>1. x \in 1..Len(q) /\ From(i, j, x) \in 1..Len(q)
        BY <1>1, <1>4
      <3> QED
        BY <1>3, <2>1, <2>2, <3>1
    <2> QED
      BY <2>3
  <1>6. \A x \in 1..n : Prios(q)[x] \in Int
    BY <1>1, PriosOf
  <1> QED
    BY <1>5, <1>6 DEF Flipped, r

UpStops(h) == ~(h.pos > 1 /\ Less(h.q, h.pos, Parent(h.pos)))

\* The state after k rounds of up in q.
UpHolds(q, h, k) ==
    /\ Rearranged(q, h.q, Len(q)) /\ h.pos \in 1..Len(q)
    /\ UpOK(Prios(h.q), Len(q), h.pos)
    /\ UpStops(h) \/ h.pos + k <= Len(q)

LEMMA UpKeeps ==
    ASSUME NEW q \in Seq(Item), NEW h, NEW k \in Nat, UpHolds(q, h, k)
    PROVE  UpHolds(q, UpRound(h), k + 1)
  <1>1. CASE UpStops(h)
    <2>1. UpRound(h) = h
      BY <1>1 DEF UpRound, UpStops
    <2> QED
      BY <1>1, <2>1 DEF UpHolds
  <1>2. CASE ~UpStops(h)
    <2> DEFINE i == Parent(h.pos)
               p == h.pos
               n == Len(q)
               r == Swap(h.q, i, p)
               u == [q |-> r, pos |-> i]
    <2>1. /\ n \in Nat /\ p \in 2..n /\ h.q \in Seq(Item) /\ Len(h.q) = n
          /\ Less(h.q, p, i) /\ p + k <= n
      BY <1>2, LenProperties DEF UpHolds, UpStops, Rearranged
    <2>2. UpRound(h) = u
      BY <1>2 DEF UpRound, UpStops
    <2>3. i \in 1..n /\ i < p /\ p \in 1..n
      BY <2>1, ParentsIn
    <2>4. Rearranged(h.q, r, n) /\ n \in 0..Len(h.q)
      <3>1. n \in 0..Len(h.q)
        BY <2>1
      <3> QED
        BY <2>1, <2>3, <3>1, SwapRearranges
    <2>5. Rearranged(q, r, n)
      BY <2>1, <2>4, RearrangedTwice DEF UpHolds
    <2>6. Flipped(Prios(h.q), Prios(r), n, i, p)
      BY <2>1, <2>3, <2>4, SwapFlips
    <2>7. Prios(h.q)[p] < Prios(h.q)[i]
      BY <2>1, <2>3, PriosOf DEF Less
    <2>8. UpOK(Prios(r), n, i)
      BY <2>1, <2>6, <2>7, UpMoves DEF UpHolds
    <2>9. i + (k + 1) <= n
      BY <2>1, <2>3
    <2>10. u.q = r /\ u.pos = i
      OBVIOUS
    <2> HIDE DEF u, r, i, p
    <2> QED
      BY <2>2, <2>3, <2>5, <2>8, <2>9, <2>10 DEF UpHolds
  <1> QED
    BY <1>1, <1>2

\* up makes a heap of one that its last item may spoil, and loses nothing.
LEMMA upOrders ==
    ASSUME NEW q \in Seq(Item), Len(q) >= 1, UpOK(Prios(q), Len(q), Len(q))
    PROVE  /\ Rearranged(q, up(q, Len(q)), Len(q))
           /\ Ordered(Prios(up(q, Len(q))), Len(q))
  <1> DEFINE n == Len(q)
             h == [q |-> q, pos |-> n]
  <1>1. n \in Nat /\ n \in 1..n
    BY LenProperties
  <1>2. PICK f : IsLoop("up", 0, h, n, f) /\ up(q, n) = f[n].q
    BY <1>1, upRuns
  <1>3. f[0] = h /\ \A k \in 0..(n - 1) : f[k + 1] = UpRound(f[k])
    <2> HIDE DEF h
    <2>1. Rounds("up", 0, h, n, f)
      BY <1>1, <1>2, LoopRounds
    <2> QED
      BY <2>1 DEF Rounds, Step
  <1>4. UpHolds(q, h, 0)
    BY <1>1, RearrangedNot DEF UpHolds
  <1> HIDE DEF h
  <1> DEFINE S == {k \in 0..n : UpHolds(q, f[k], k)}
  <1>5. 0 \in S
    BY <1>1, <1>3, <1>4
  <1>6. ASSUME NEW k \in 0..(n - 1), k \in S PROVE k + 1 \in S
    <2>1. UpHolds(q, f[k + 1], k + 1)
      BY <1>1, <1>3, <1>6, UpKeeps
    <2> QED
      BY <1>1, <2>1
  <1> HIDE DEF S
  <1>7. UpHolds(q, f[n], n)
    <2>1. 0..n \subseteq S
      BY <1>1, <1>5, <1>6, BoundedInduction
    <2> QED
      BY <1>1, <2>1 DEF S
  <1> DEFINE r == f[n].q
             p == f[n].pos
  <1>8. /\ Rearranged(q, r, n) /\ p \in 1..n /\ UpOK(Prios(r), n, p)
        /\ UpStops(f[n])
    BY <1>1, <1>7 DEF UpHolds
  <1>9. r \in Seq(Item) /\ Len(r) = n
    BY <1>8 DEF Rearranged
  <1>10. \A x \in 1..n : Prios(r)[x] = r[x].prio /\ Prios(r)[x] \in Int
    BY <1>9, PriosOf
  <1>11. ASSUME NEW x \in 2..n PROVE Prios(r)[Parent(x)] <= Prios(r)[x]
    <2>1. CASE x # p
      BY <1>8, <2>1 DEF UpOK
    <2>2. CASE x = p
      <3>1. Parent(x) \in 1..n /\ x \in 1..n
        BY <1>1, ParentsIn
      <3>2. ~Less(r, p, Parent(p))
        BY <1>8, <2>2 DEF UpStops
      <3>3. ~(r[x].prio < r[Parent(x)].prio)
        BY <2>2, <3>2 DEF Less
      <3> HIDE DEF r, p
      <3> QED
        BY <1>10, <3>1, <3>3
    <2> QED
      BY <2>1, <2>2
  <1> HIDE DEF r, p
  <1>12. Ordered(Prios(r), n)
    BY <1>11 DEF Ordered
  <1> QED
    BY <1>2, <1>8, <1>12 DEF r

LEMMA LesserChild ==
    ASSUME NEW q \in Seq(Item), NEW n \in Nat, n <= Len(q),
           NEW p \in 1..n, 2 * p <= n
    PROVE  /\ Child(q, p, n) \in 2..n /\ Parent(Child(q, p, n)) = p
           /\ p < Child(q, p, n)
           /\ \A x \in 2..n : Parent(x) = p =>
                 Prios(q)[Child(q, p, n)] <= Prios(q)[x]
  <1> DEFINE c == Child(q, p, n)
  <1>1. \A x \in 1..n : Prios(q)[x] = q[x].prio /\ Prios(q)[x] \in Int
    BY PriosOf
  <1>2. c \in {2 * p, 2 * p + 1} /\ c \in 2..n /\ p < c
    BY DEF Child
  <1>3. Parent(c) = p
    BY <1>2, Kids
  <1>4. ASSUME NEW x \in 2..n, Parent(x) = p
        PROVE  Prios(q)[c] <= Prios(q)[x]
    <2>1. x = 2 * p \/ x = 2 * p + 1
      BY <1>4, ParentsIn
    <2>2. 2 * p \in 1..n
      OBVIOUS
    <2>3. CASE 2 * p + 1 <= n
      <3>1. 2 * p + 1 \in 1..n
        BY <2>3
      <3> QED
        BY <1>1, <2>1, <2>2, <2>3, <3>1 DEF Child, Less
    <2>4. CASE ~(2 * p + 1 <= n)
      BY <1>1, <2>1, <2>2, <2>4 DEF Child
    <2> QED
      BY <2>3, <2>4
  <1> QED
    BY <1>2, <1>3, <1>4

DownStops(h, n) == ~(2 * h.pos <= n /\ Less(h.q, Child(h.q, h.pos, n), h.pos))

\* The state after k rounds of down in the first n items of q.
DownHolds(q, n, h, k) ==
    /\ Rearranged(q, h.q, n) /\ h.pos \in Nat /\ h.pos >= 1
    /\ h.pos <= n \/ h.pos = 1
    /\ DownOK(Prios(h.q), n, h.pos)
    /\ DownStops(h, n) \/ h.pos >= k + 1

LEMMA DownKeeps ==
    ASSUME NEW q \in Seq(Item), NEW n \in Nat, n <= Len(q), NEW h,
           NEW k \in Nat, DownHolds(q, n, h, k)
    PROVE  DownHolds(q, n, DownRound(h, n), k + 1)
  <1>1. CASE DownStops(h, n)
    <2>1. DownRound(h, n) = h
      BY <1>1 DEF DownRound, DownStops
    <2> QED
      BY <1>1, <2>1 DEF DownHolds
  <1>2. CASE ~DownStops(h, n)
    <2> DEFINE p == h.pos
               c == Child(h.q, p, n)
               r == Swap(h.q, p, c)
               u == [q |-> r, pos |-> c]
    <2>1. /\ Len(q) \in Nat /\ p \in 1..n /\ 2 * p <= n
          /\ h.q \in Seq(Item) /\ Len(h.q) = Len(q)
          /\ Less(h.q, c, p) /\ p >= k + 1
      BY <1>2, LenProperties DEF DownHolds, DownStops, Rearranged
    <2>2. DownRound(h, n) = u
      BY <1>2 DEF DownRound, DownStops
    <2>3. /\ c \in 2..n /\ Parent(c) = p /\ p < c
          /\ \A x \in 2..n : Parent(x) = p => Prios(h.q)[c] <= Prios(h.q)[x]
      BY <2>1, LesserChild
    <2> HIDE DEF c
    <2>4. c \in 1..n /\ c >= 2 /\ n \in 0..Len(h.q)
      BY <2>1, <2>3
    <2>5. Rearranged(h.q, r, n)
      BY <2>1, <2>4, SwapRearranges
    <2>6. Rearranged(q, r, n)
      BY <2>5, RearrangedTwice DEF DownHolds
    <2>7. Flipped(Prios(h.q), Prios(r), n, p, c)
      BY <2>1, <2>4, SwapFlips
    <2>8. Prios(h.q)[c] < Prios(h.q)[p]
      <3>1. \A x \in 1..Len(h.q) : Prios(h.q)[x] = h.q[x].prio
        BY <2>1, PriosOf
      <3>2. c \in 1..Len(h.q) /\ p \in 1..Len(h.q)
        BY <2>1, <2>4
      <3>3. h.q[c].prio < h.q[p].prio
        BY <2>1 DEF Less
      <3> QED
        BY <3>1, <3>2, <3>3
    <2>9. DownOK(Prios(r), n, c)
      BY <2>1, <2>3, <2>4, <2>7, <2>8, DownMoves DEF DownHolds
    <2>10. c >= (k + 1) + 1
      BY <2>1, <2>3
    <2>11. u.q = r /\ u.pos = c
      OBVIOUS
    <2> HIDE DEF u, r, p
    <2> QED
      BY <2>2, <2>4, <2>6, <2>9, <2>10, <2>11 DEF DownHolds
  <1> QED
    BY <1>1, <1>2

\* down makes a heap of the first n items, which the root may spoil, loses
\* nothing, and leaves the rest alone.
LEMMA downOrders ==
    ASSUME NEW q \in Seq(Item), NEW n \in Nat, Len(q) = n + 1,
           DownOK(Prios(q), n, 1)
    PROVE  /\ Rearranged(q, down(q, 1, n), n)
           /\ Ordered(Prios(down(q, 1, n)), n)
  <1> DEFINE h == [q |-> q, pos |-> 1]
  <1>1. Len(q) \in Nat /\ n <= Len(q)
    OBVIOUS
  <1>2. PICK f : IsLoop("down", n, h, Len(q), f) /\ down(q, 1, n) = f[Len(q)].q
    BY <1>1, downRuns
  <1>3. f[0] = h /\ \A k \in 0..(Len(q) - 1) : f[k + 1] = DownRound(f[k], n)
    <2> HIDE DEF h
    <2>1. Rounds("down", n, h, Len(q), f)
      BY <1>1, <1>2, LoopRounds
    <2> QED
      BY <2>1 DEF Rounds, Step
  <1>4. DownHolds(q, n, h, 0)
    BY <1>1, RearrangedNot DEF DownHolds
  <1> HIDE DEF h
  <1> DEFINE S == {k \in 0..Len(q) : DownHolds(q, n, f[k], k)}
  <1>5. 0 \in S
    BY <1>1, <1>3, <1>4
  <1>6. ASSUME NEW k \in 0..(Len(q) - 1), k \in S PROVE k + 1 \in S
    <2>1. DownHolds(q, n, f[k + 1], k + 1)
      BY <1>1, <1>3, <1>6, DownKeeps
    <2> QED
      BY <1>1, <2>1
  <1> HIDE DEF S
  <1>7. DownHolds(q, n, f[Len(q)], Len(q))
    <2>1. 0..Len(q) \subseteq S
      BY <1>1, <1>5, <1>6, BoundedInduction
    <2> QED
      BY <1>1, <2>1 DEF S
  <1> DEFINE r == f[Len(q)].q
             p == f[Len(q)].pos
  <1>8. /\ Rearranged(q, r, n) /\ p \in Nat /\ p >= 1
        /\ DownOK(Prios(r), n, p) /\ DownStops(f[Len(q)], n)
    BY <1>1, <1>7 DEF DownHolds
  <1>9. r \in Seq(Item) /\ Len(r) = Len(q)
    BY <1>8 DEF Rearranged
  <1>10. \A x \in 1..n : Prios(r)[x] = r[x].prio /\ Prios(r)[x] \in Int
    BY <1>9, PriosOf
  <1>11. ASSUME NEW x \in 2..n PROVE Prios(r)[Parent(x)] <= Prios(r)[x]
    <2>1. CASE Parent(x) # p
      BY <1>8, <2>1 DEF DownOK
    <2>2. CASE Parent(x) = p
      <3>1. p \in 1..n /\ 2 * p <= n
        <4>1. /\ Parent(x) \in 1..n
              /\ x = 2 * Parent(x) \/ x = 2 * Parent(x) + 1
          BY ParentsIn
        <4> HIDE DEF p
        <4> QED
          BY <2>2, <4>1
      <3>2. ~Less(r, Child(r, p, n), p)
        BY <1>8, <3>1 DEF DownStops
      <3> HIDE DEF r, p
      <3>3. Child(r, p, n) \in 2..n /\ Prios(r)[Child(r, p, n)] <= Prios(r)[x]
        BY <1>1, <1>9, <2>2, <3>1, LesserChild
      <3>4. Prios(r)[p] <= Prios(r)[Child(r, p, n)]
        BY <1>10, <3>1, <3>2, <3>3 DEF Less
      <3> QED
        BY <1>10, <2>2, <3>1, <3>3, <3>4
    <2> QED
      BY <2>1, <2>2
  <1> HIDE DEF r, p
  <1>12. Ordered(Prios(r), n)
    BY <1>11 DEF Ordered
  <1> QED
    BY <1>2, <1>8, <1>12 DEF r

-----------------------------------------------------------------------------
(* heap.Push and heap.Pop.                                                 *)

\* A heap of cells that differ, each of which knows its position.
Heap(q) ==
    /\ q \in Seq(Item)
    /\ Ordered(Prios(q), Len(q)) /\ Distinct(q) /\ Indexed(q)

LEMMA Appended ==
    ASSUME NEW q \in Seq(Item), NEW e \in Item
    PROVE  /\ Push(q, e) \in Seq(Item) /\ Len(Push(q, e)) = Len(q) + 1
           /\ \A x \in 1..Len(q) : Push(q, e)[x] = q[x]
           /\ Push(q, e)[Len(q) + 1].cell = e.cell
           /\ Push(q, e)[Len(q) + 1].prio = e.prio
           /\ Push(q, e)[Len(q) + 1].index = Len(q)
  <1> DEFINE d == [e EXCEPT !.index = Len(q)]
  <1>1. Len(q) \in Int
    BY LenProperties
  <1>2. d \in Item /\ d.cell = e.cell /\ d.prio = e.prio /\ d.index = Len(q)
    BY <1>1, Reindexed
  <1> HIDE DEF d
  <1>3. /\ Append(q, d) \in Seq(Item) /\ Len(Append(q, d)) = Len(q) + 1
        /\ \A x \in 1..Len(q) : Append(q, d)[x] = q[x]
        /\ Append(q, d)[Len(q) + 1] = d
    BY <1>2, AppendProperties
  <1>4. Push(q, e) = Append(q, d)
    BY DEF Push, d
  <1> QED
    BY <1>2, <1>3, <1>4

\* The new item is the only one that may be out of place.
LEMMA PushedLast ==
    ASSUME NEW q, Heap(q), NEW e \in Item
    PROVE  UpOK(Prios(Push(q, e)), Len(q) + 1, Len(q) + 1)
  <1> DEFINE r == Push(q, e)
             n == Len(q) + 1
  <1>1. q \in Seq(Item) /\ Len(q) \in Nat /\ Ordered(Prios(q), Len(q))
    BY LenProperties DEF Heap
  <1>2. r \in Seq(Item) /\ Len(r) = n /\ \A x \in 1..Len(q) : r[x] = q[x]
    BY <1>1, Appended
  <1> HIDE DEF r
  <1>3. \A x \in 1..n : Prios(r)[x] = r[x].prio
    BY <1>2, PriosOf
  <1>4. \A x \in 1..Len(q) : Prios(q)[x] = q[x].prio
    BY <1>1, PriosOf
  <1>5. \A x \in 1..Len(q) : Prios(r)[x] = Prios(q)[x]
    BY <1>1, <1>2, <1>3, <1>4
  <1>6. ASSUME NEW x \in 2..n, x # n PROVE Prios(r)[Parent(x)] <= Prios(r)[x]
    <2>1. x \in 2..Len(q) /\ x \in 1..Len(q)
      BY <1>1, <1>6
    <2>2. Parent(x) \in 1..Len(q)
      BY <1>1, <2>1, ParentsIn
    <2>3. Prios(q)[Parent(x)] <= Prios(q)[x]
      BY <1>1, <2>1 DEF Ordered
    <2> QED
      BY <1>5, <2>1, <2>2, <2>3
  <1>7. ASSUME NEW x \in 2..n PROVE Parent(x) # n
    <2>1. n \in Nat
      BY <1>1
    <2>2. Parent(x) < x /\ Parent(x) \in 1..n
      BY <2>1, ParentsIn
    <2> QED
      BY <2>1, <2>2
  <1>8. UpOK(Prios(r), n, n)
    BY <1>6, <1>7 DEF UpOK
  <1> QED
    BY <1>8 DEF r

\* heap.Push adds its item and no other.
LEMMA HeapPushAdds ==
    ASSUME NEW q, Heap(q), NEW e \in Item,
           \A x \in 1..Len(q) : q[x].cell # e.cell
    PROVE  /\ Heap(HeapPush(q, e))
           /\ Len(HeapPush(q, e)) = Len(q) + 1
           /\ Entries(HeapPush(q, e)) = Entries(q) \cup {Entry(e)}
  <1> DEFINE r == Push(q, e)
             n == Len(q) + 1
             t == up(r, n)
  <1>1. q \in Seq(Item) /\ Len(q) \in Nat /\ Distinct(q) /\ Indexed(q)
    BY LenProperties DEF Heap
  <1>2. /\ r \in Seq(Item) /\ Len(r) = n
        /\ \A x \in 1..Len(q) : r[x] = q[x]
        /\ r[n].cell = e.cell /\ r[n].prio = e.prio /\ r[n].index = Len(q)
    BY <1>1, Appended
  <1>3. UpOK(Prios(r), n, n)
    BY PushedLast
  <1> HIDE DEF r
  <1>4. \A x \in 1..n : x \in 1..Len(q) \/ x = n
    BY <1>1
  <1>5. Distinct(r)
    <2>1. ASSUME NEW x \in 1..n, NEW y \in 1..n, r[x].cell = r[y].cell
          PROVE  x = y
      BY <1>1, <1>2, <1>4, <2>1 DEF Distinct
    <2> QED
      BY <1>2, <2>1 DEF Distinct
  <1>6. Indexed(r)
    <2>1. n - 1 = Len(q)
      BY <1>1
    <2> QED
      BY <1>1, <1>2, <1>4, <2>1 DEF Indexed
  <1>7. Entries(r) = Entries(q) \cup {Entry(e)}
    <2>1. Entry(r[n]) = Entry(e)
      BY <1>2 DEF Entry
    <2> HIDE DEF n
    <2>2. n \in 1..n /\ \A x \in 1..Len(q) : x \in 1..n
      BY <1>1 DEF n
    <2>3. ASSUME NEW u \in Entries(r) PROVE u \in Entries(q) \cup {Entry(e)}
      <3>1. PICK x \in 1..n : u = Entry(r[x])
        BY <1>2 DEF Entries
      <3>2. CASE x = n
        BY <2>1, <3>1, <3>2
      <3>3. CASE x \in 1..Len(q)
        <4>1. u = Entry(q[x])
          BY <1>2, <3>1, <3>3
        <4> QED
          BY <3>3, <4>1 DEF Entries
      <3> QED
        BY <1>4, <3>2, <3>3
    <2>4. ASSUME NEW u \in Entries(q) PROVE u \in Entries(r)
      <3>1. PICK x \in 1..Len(q) : u = Entry(q[x])
        BY DEF Entries
      <3>2. u = Entry(r[x]) /\ x \in 1..n
        BY <1>2, <2>2, <3>1
      <3> QED
        BY <1>2, <3>2 DEF Entries
    <2>5. Entry(e) \in Entries(r)
      BY <1>2, <2>1, <2>2 DEF Entries
    <2> QED
      BY <2>3, <2>4, <2>5
  <1>8. Rearranged(r, t, n) /\ Ordered(Prios(t), n)
    <2>1. Len(r) >= 1 /\ UpOK(Prios(r), Len(r), Len(r))
      BY <1>1, <1>2, <1>3
    <2>2. Rearranged(r, up(r, Len(r)), Len(r))
          /\ Ordered(Prios(up(r, Len(r))), Len(r))
      BY <1>2, <2>1, upOrders
    <2> QED
      BY <1>2, <2>2
  <1>9. HeapPush(q, e) = t
    BY DEF HeapPush, r
  <1> HIDE DEF t, n
  <1>10. Heap(t) /\ Len(t) = n /\ Entries(t) = Entries(r)
    BY <1>2, <1>5, <1>6, <1>8 DEF Rearranged, Heap
  <1> QED
    BY <1>7, <1>9, <1>10 DEF n

LEMMA SwapOf ==
    ASSUME NEW q \in Seq(Item), NEW i \in 1..Len(q), NEW j \in 1..Len(q)
    PROVE  /\ Swap(q, i, j) \in Seq(Item) /\ Len(Swap(q, i, j)) = Len(q)
           /\ Entry(Swap(q, i, j)[j]) = Entry(q[i])
           /\ \A x \in (1..Len(q)) \ {i, j} :
                 Swap(q, i, j)[x].prio = q[x].prio
  <1> DEFINE r == Swap(q, i, j)
  <1>1. Exchanged(q, r, i, j)
    BY Swapped
  <1> HIDE DEF r
  <1>2. From(i, j, j) = i /\ \A x \in (1..Len(q)) \ {i, j} : From(i, j, x) = x
    BY DEF From
  <1>3. Entry(r[j]) = Entry(q[i])
    BY <1>1, <1>2 DEF Exchanged, Entry
  <1>4. \A x \in (1..Len(q)) \ {i, j} : r[x].prio = q[x].prio
    BY <1>1, <1>2 DEF Exchanged
  <1>5. r \in Seq(Item) /\ Len(r) = Len(q)
    BY <1>1 DEF Exchanged
  <1> QED
    BY <1>3, <1>4, <1>5 DEF r

\* The last item, at the root for now, is the only one that may be out of
\* place.
LEMMA RootSpoilt ==
    ASSUME NEW q, Heap(q), NEW n \in Nat, Len(q) = n + 1
    PROVE  DownOK(Prios(Swap(q, 1, n + 1)), n, 1)
  <1> DEFINE r == Swap(q, 1, n + 1)
  <1>1. q \in Seq(Item) /\ Ordered(Prios(q), n + 1)
    BY DEF Heap
  <1>2. 1 \in 1..Len(q) /\ n + 1 \in 1..Len(q)
    OBVIOUS
  <1>3. /\ r \in Seq(Item) /\ Len(r) = n + 1
        /\ \A x \in (1..Len(q)) \ {1, n + 1} : r[x].prio = q[x].prio
    BY <1>1, <1>2, SwapOf
  <1> HIDE DEF r
  <1>4. \A x \in 1..(n + 1) : Prios(r)[x] = r[x].prio
    BY <1>3, PriosOf
  <1>5. \A x \in 1..(n + 1) : Prios(q)[x] = q[x].prio
    BY <1>1, PriosOf
  <1>6. ASSUME NEW x \in 2..n PROVE Prios(r)[x] = Prios(q)[x]
    <2>1. x \in 1..(n + 1) /\ x \in (1..Len(q)) \ {1, n + 1}
      OBVIOUS
    <2> QED
      BY <1>3, <1>4, <1>5, <2>1
  <1>7. ASSUME NEW x \in 2..n, Parent(x) # 1
        PROVE  Prios(r)[Parent(x)] <= Prios(r)[x]
    <2>1. Parent(x) \in 2..n
      <3>1. Parent(x) \in 1..n
        BY ParentsIn
      <3> QED
        BY <1>7, <3>1
    <2>2. x \in 2..(n + 1)
      OBVIOUS
    <2>3. Prios(q)[Parent(x)] <= Prios(q)[x]
      BY <1>1, <2>2 DEF Ordered
    <2> QED
      BY <1>6, <2>1, <2>3
  <1>8. DownOK(Prios(r), n, 1)
    BY <1>7 DEF DownOK
  <1> QED
    BY <1>8 DEF r

LEMMA PopOf ==
    ASSUME NEW q \in Seq(Item), NEW n \in Nat, Len(q) = n + 1
    PROVE  /\ Pop(q) \in Seq(Item) /\ Len(Pop(q)) = n
           /\ \A x \in 1..n : Pop(q)[x] = q[x]
  <1>1. (n + 1) - 1 = n /\ Len(q) \in Nat
    OBVIOUS
  <1>2. 1 \in 1..(Len(q) + 1) /\ n \in (1 - 1)..Len(q)
    OBVIOUS
  <1>3. /\ SubSeq(q, 1, n) \in Seq(Item) /\ Len(SubSeq(q, 1, n)) = n - 1 + 1
        /\ \A x \in 1..(n - 1 + 1) : SubSeq(q, 1, n)[x] = q[1 + x - 1]
    BY <1>2, SubSeqProperties
  <1>4. n - 1 + 1 = n /\ \A x \in 1..n : 1 + x - 1 = x
    OBVIOUS
  <1> QED
    BY <1>1, <1>3, <1>4 DEF Pop

\* Dropping the last item of q takes its entry, and no other, away.
LEMMA PopTakes ==
    ASSUME NEW q \in Seq(Item), NEW n \in Nat, Len(q) = n + 1,
           Ordered(Prios(q), n), Distinct(q), Indexed(q)
    PROVE  /\ Heap(Pop(q)) /\ Len(Pop(q)) = n
           /\ Entries(Pop(q)) = Entries(q) \ {Entry(q[n + 1])}
  <1> DEFINE r == Pop(q)
             m == n + 1
  <1>1. r \in Seq(Item) /\ Len(r) = n /\ \A x \in 1..n : r[x] = q[x]
    BY PopOf
  <1> HIDE DEF r
  <1>2. \A x \in 1..n : x \in 1..m /\ x # m
    OBVIOUS
  <1>3. \A x \in 1..m : x # m => x \in 1..n
    OBVIOUS
  <1>4. m \in 1..m /\ Len(q) = m
    OBVIOUS
  <1> HIDE DEF m
  <1>5. Distinct(r) /\ Indexed(r)
    BY <1>1, <1>2, <1>4 DEF Distinct, Indexed
  <1>6. Ordered(Prios(r), n)
    <2>1. \A x \in 1..n : Prios(r)[x] = r[x].prio
      BY <1>1, PriosOf
    <2>2. \A x \in 1..n : Prios(q)[x] = q[x].prio
      BY <1>2, <1>4, PriosOf
    <2>3. \A x \in 1..n : Prios(r)[x] = Prios(q)[x]
      BY <1>1, <2>1, <2>2
    <2>4. ASSUME NEW x \in 2..n PROVE Prios(r)[Parent(x)] <= Prios(r)[x]
      <3>1. Parent(x) \in 1..n /\ x \in 1..n
        BY ParentsIn
      <3>2. Prios(q)[Parent(x)] <= Prios(q)[x]
        BY DEF Ordered
      <3> QED
        BY <2>3, <3>1, <3>2
    <2> QED
      BY <2>4 DEF Ordered
  <1>7. ASSUME NEW u \in Entries(r) PROVE u \in Entries(q) \ {Entry(q[m])}
    <2>1. PICK x \in 1..n : u = Entry(r[x])
      BY <1>1 DEF Entries
    <2>2. u = Entry(q[x]) /\ x \in 1..m /\ x # m
      BY <1>1, <1>2, <2>1
    <2>3. q[x].cell # q[m].cell
      BY <1>4, <2>2 DEF Distinct
    <2>4. Entry(q[x]) # Entry(q[m])
      BY <2>3 DEF Entry
    <2> QED
      BY <1>4, <2>2, <2>4 DEF Entries
  <1>8. ASSUME NEW u \in Entries(q), u # Entry(q[m]) PROVE u \in Entries(r)
    <2>1. PICK x \in 1..m : u = Entry(q[x])
      BY <1>4 DEF Entries
    <2>2. x \in 1..n
      BY <1>3, <1>8, <2>1
    <2>3. u = Entry(r[x])
      BY <1>1, <2>1, <2>2
    <2> QED
      BY <1>1, <2>2, <2>3 DEF Entries
  <1>9. Entries(r) = Entries(q) \ {Entry(q[m])}
    BY <1>7, <1>8
  <1>10. Heap(r)
    BY <1>1, <1>5, <1>6 DEF Heap
  <1> QED
    BY <1>1, <1>9, <1>10 DEF r, m

\* heap.Pop takes the item at the root and no other.
LEMMA HeapPopTakes ==
    ASSUME NEW q, Heap(q), NEW n \in Nat, Len(q) = n + 1
    PROVE  /\ Heap(HeapPop(q)) /\ Len(HeapPop(q)) = n
           /\ Entries(HeapPop(q)) = Entries(q) \ {Entry(q[1])}
  <1> DEFINE r == Swap(q, 1, n + 1)
             t == down(r, 1, n)
  <1>1. /\ q \in Seq(Item) /\ Distinct(q) /\ Indexed(q)
        /\ 1 \in 1..Len(q) /\ n + 1 \in 1..Len(q) /\ (n + 1) - 1 = n
    BY DEF Heap
  <1>2. Rearranged(q, r, n + 1)
    <2>1. n + 1 \in 0..Len(q) /\ 1 \in 1..(n + 1) /\ n + 1 \in 1..(n + 1)
      OBVIOUS
    <2> QED
      BY <1>1, <2>1, SwapRearranges
  <1>3. r \in Seq(Item) /\ Len(r) = n + 1 /\ Entry(r[n + 1]) = Entry(q[1])
    BY <1>1, SwapOf
  <1>4. DownOK(Prios(r), n, 1)
    BY RootSpoilt
  <1>5. HeapPop(q) = Pop(t)
    BY <1>1 DEF HeapPop
  <1> HIDE DEF r
  <1>6. Rearranged(r, t, n) /\ Ordered(Prios(t), n)
    BY <1>3, <1>4, downOrders
  <1> HIDE DEF t
  <1>7. n + 1 \in (n + 1)..Len(r)
    BY <1>3
  <1>8. /\ t \in Seq(Item) /\ Len(t) = n + 1 /\ t[n + 1] = r[n + 1]
        /\ Entries(t) = Entries(q) /\ Distinct(t) /\ Indexed(t)
    BY <1>1, <1>2, <1>3, <1>6, <1>7 DEF Rearranged
  <1>9. /\ Heap(Pop(t)) /\ Len(Pop(t)) = n
        /\ Entries(Pop(t)) = Entries(t) \ {Entry(t[n + 1])}
    BY <1>6, <1>8, PopTakes
  <1> QED
    BY <1>3, <1>5, <1>8, <1>9

-----------------------------------------------------------------------------
(* The Scheduler: its invariant.                                           *)

CellsOf(q) == {q[x].cell : x \in 1..Len(q)}

\* Each cell scheduled waits, or was handed out once, and not both: none is
\* lost in the heap's exchanges and none is handed out again.
EachCellOnce ==
    /\ CellsOf(queue) \cup CellsOf(popped) = 0..(count - 1)
    /\ CellsOf(queue) \cap CellsOf(popped) = {}
    /\ Distinct(queue) /\ Distinct(popped)

\* A cell handed out before one scheduled earlier has no later a send time.
\* As that of a data cell is the time of its scheduling, only a clock that
\* stood still or was set back reorders data.
ReorderedOnlyByClock ==
    \A x, y \in 1..Len(popped) :
        x < y /\ popped[y].cell < popped[x].cell =>
            popped[x].prio <= popped[y].prio

\* Every item's index field is its position, counted from 0.
IndexMaintained == Indexed(queue)

\* The same of the cells that have yet to be handed out.
OvertakenNoEarlier ==
    \A x \in 1..Len(popped), y \in 1..Len(queue) :
        queue[y].cell < popped[x].cell => popped[x].prio <= queue[y].prio

SchedulerInv ==
    /\ interval \in Nat /\ now \in Nat /\ count \in 0..MaxItems
    /\ interval \in Intervals /\ now <= MaxTime
    /\ popped \in Seq(Item) /\ Heap(queue)
    /\ EachCellOnce
    /\ ReorderedOnlyByClock /\ OvertakenNoEarlier

LEMMA CellsOfEntries ==
    ASSUME NEW q PROVE CellsOf(q) = {u.item : u \in Entries(q)}
  <1>1. \A x \in 1..Len(q) : Entry(q[x]).item = q[x].cell
    BY DEF Entry
  <1>2. ASSUME NEW c \in CellsOf(q) PROVE c \in {u.item : u \in Entries(q)}
    <2>1. PICK x \in 1..Len(q) : c = q[x].cell
      BY DEF CellsOf
    <2>2. Entry(q[x]) \in Entries(q) /\ Entry(q[x]).item = c
      BY <1>1, <2>1 DEF Entries
    <2> QED
      BY <2>2
  <1>3. ASSUME NEW u \in Entries(q) PROVE u.item \in CellsOf(q)
    <2>1. PICK x \in 1..Len(q) : u = Entry(q[x])
      BY DEF Entries
    <2> QED
      BY <1>1, <2>1 DEF CellsOf
  <1> QED
    BY <1>2, <1>3

\* An item of the heap that stays has the cell and the send time it had.
LEMMA EntriesStay ==
    ASSUME NEW q, NEW r, NEW y \in 1..Len(r), Entry(r[y]) \in Entries(q)
    PROVE  \E x \in 1..Len(q) : r[y].cell = q[x].cell /\ r[y].prio = q[x].prio
  <1>1. PICK x \in 1..Len(q) : Entry(r[y]) = Entry(q[x])
    BY DEF Entries
  <1>2. r[y].cell = q[x].cell /\ r[y].prio = q[x].prio
    BY <1>1 DEF Entry
  <1> QED
    BY <1>2

LEMMA CellsPushed ==
    ASSUME NEW q, NEW r, NEW e, Entries(r) = Entries(q) \cup {Entry(e)}
    PROVE  CellsOf(r) = CellsOf(q) \cup {e.cell}
  <1>1. Entry(e).item = e.cell
    BY DEF Entry
  <1>2. /\ CellsOf(q) = {u.item : u \in Entries(q)}
        /\ CellsOf(r) = {u.item : u \in Entries(r)}
    BY CellsOfEntries
  <1> QED
    BY <1>1, <1>2

LEMMA CellsTaken ==
    ASSUME NEW q, NEW r, Distinct(q), Len(q) \in Nat, Len(q) >= 1,
           Entries(r) = Entries(q) \ {Entry(q[1])}
    PROVE  CellsOf(r) = CellsOf(q) \ {q[1].cell}
  <1>1. ASSUME NEW x \in 1..Len(q)
        PROVE  Entry(q[x]) = Entry(q[1]) <=> q[x].cell = q[1].cell
    <2>1. 1 \in 1..Len(q)
      OBVIOUS
    <2>2. q[x].cell = q[1].cell => x = 1
      BY <2>1 DEF Distinct
    <2>3. Entry(q[x]) = Entry(q[1]) => q[x].cell = q[1].cell
      BY DEF Entry
    <2> QED
      BY <2>2, <2>3
  <1>2. \A x \in 1..Len(q) : Entry(q[x]).item = q[x].cell
    BY DEF Entry
  <1>3. CellsOf(r) = {u.item : u \in Entries(r)}
    BY CellsOfEntries
  <1>4. ASSUME NEW c \in CellsOf(r) PROVE c \in CellsOf(q) \ {q[1].cell}
    <2>1. PICK u \in Entries(q) : u # Entry(q[1]) /\ c = u.item
      BY <1>3
    <2>2. PICK x \in 1..Len(q) : u = Entry(q[x])
      BY DEF Entries
    <2>3. c = q[x].cell /\ c # q[1].cell
      BY <1>1, <1>2, <2>1, <2>2
    <2> QED
      BY <2>3 DEF CellsOf
  <1>5. ASSUME NEW c \in CellsOf(q), c # q[1].cell PROVE c \in CellsOf(r)
    <2>1. PICK x \in 1..Len(q) : c = q[x].cell
      BY DEF CellsOf
    <2>2. Entry(q[x]) # Entry(q[1]) /\ Entry(q[x]) \in Entries(q)
      BY <1>1, <1>5, <2>1 DEF Entries
    <2>3. Entry(q[x]) \in Entries(r) /\ c = Entry(q[x]).item
      BY <1>2, <2>1, <2>2
    <2> QED
      BY <1>3, <2>3
  <1> QED
    BY <1>4, <1>5

\* No cell in the heap has an earlier send time than the root.
LEMMA RootFirst ==
    ASSUME NEW q, Heap(q) PROVE \A x \in 1..Len(q) : q[1].prio <= q[x].prio
  <1>1. /\ q \in Seq(Item) /\ Len(q) \in Nat /\ Ordered(Prios(q), Len(q))
    BY LenProperties DEF Heap
  <1>2. \A x \in 1..Len(q) : Prios(q)[x] = q[x].prio /\ Prios(q)[x] \in Int
    BY <1>1, PriosOf
  <1>3. \A x \in 1..Len(q) : Prios(q)[1] <= Prios(q)[x]
    BY <1>1, <1>2, RootLeast
  <1>4. ASSUME NEW x \in 1..Len(q) PROVE q[1].prio <= q[x].prio
    <2>1. 1 \in 1..Len(q)
      BY <1>1
    <2> QED
      BY <1>2, <1>3, <2>1
  <1> QED
    BY <1>4

LEMMA SchedulerStarts ==
    ASSUME SchedulerInit PROVE SchedulerInv
  <1>1. /\ interval \in Nat /\ now \in Nat /\ count \in 0..MaxItems
        /\ interval \in Intervals /\ now <= MaxTime
    BY SchedulerAssumption DEF SchedulerInit
  <1>2. queue = <<>> /\ popped = <<>> /\ count = 0
    BY DEF SchedulerInit
  <1>3. /\ <<>> \in Seq(Item) /\ Len(<<>>) = 0
        /\ \A x \in 1..0 : FALSE
    OBVIOUS
  <1>4. Heap(<<>>)
    <2>1. \A x \in 2..0 : FALSE
      OBVIOUS
    <2> QED
      BY <1>3, <2>1 DEF Heap, Ordered, Distinct, Indexed
  <1>5. CellsOf(<<>>) = {} /\ Distinct(<<>>)
    BY <1>3 DEF CellsOf, Distinct
  <1>6. 0..(count - 1) = {}
    BY <1>2
  <1>7. EachCellOnce
    BY <1>2, <1>5, <1>6 DEF EachCellOnce
  <1>8. ReorderedOnlyByClock /\ OvertakenNoEarlier
    BY <1>2, <1>3 DEF ReorderedOnlyByClock, OvertakenNoEarlier
  <1> QED
    BY <1>1, <1>2, <1>3, <1>4, <1>7, <1>8 DEF SchedulerInv

\* The item ScheduleCell(dummy) pushes.
Scheduled(dummy) ==
    [cell |-> count, dummy |-> dummy, index |-> 0,
     prio |-> IF dummy THEN now + interval ELSE now]

\* Cells in the queue and cells handed out bear numbers below count.
LEMMA CellsBelow ==
    ASSUME SchedulerInv
    PROVE  /\ count \in Nat
           /\ \A c \in CellsOf(queue) \cup CellsOf(popped) : c \in 0..(count - 1)
           /\ \A x \in 1..Len(queue) : queue[x].cell \in CellsOf(queue)
           /\ \A x \in 1..Len(popped) : popped[x].cell \in CellsOf(popped)
  <1>1. count \in 0..MaxItems /\ MaxItems \in Nat
    BY SchedulerAssumption DEF SchedulerInv
  <1>2. CellsOf(queue) \cup CellsOf(popped) = 0..(count - 1)
    BY DEF SchedulerInv, EachCellOnce
  <1> QED
    BY <1>1, <1>2 DEF CellsOf

LEMMA PushesOne ==
    ASSUME SchedulerInv, NEW dummy \in BOOLEAN, ScheduleCell(dummy)
    PROVE  /\ Heap(queue') /\ Scheduled(dummy) \in Item
           /\ Entries(queue') = Entries(queue) \cup {Entry(Scheduled(dummy))}
  <1> DEFINE e == Scheduled(dummy)
  <1>1. count \in Nat /\ now \in Nat /\ interval \in Nat /\ Heap(queue)
    BY CellsBelow DEF SchedulerInv
  <1>2. e \in Item /\ e.cell = count
    BY <1>1 DEF Scheduled, Item
  <1>3. queue' = HeapPush(queue, e)
    BY DEF ScheduleCell, Scheduled
  <1> HIDE DEF e
  <1>4. \A x \in 1..Len(queue) : queue[x].cell # e.cell
    <2>1. \A x \in 1..Len(queue) : queue[x].cell \in 0..(count - 1)
      BY CellsBelow
    <2> QED
      BY <1>1, <1>2, <2>1
  <1>5. Heap(queue') /\ Entries(queue') = Entries(queue) \cup {Entry(e)}
    BY <1>1, <1>2, <1>3, <1>4, HeapPushAdds
  <1> QED
    BY <1>2, <1>5 DEF e

LEMMA ScheduleCellKeeps ==
    ASSUME SchedulerInv, NEW dummy \in BOOLEAN, ScheduleCell(dummy)
    PROVE  SchedulerInv'
  <1> DEFINE e == Scheduled(dummy)
  <1>1. /\ Heap(queue') /\ Entries(queue') = Entries(queue) \cup {Entry(e)}
    BY PushesOne
  <1>2. e.cell = count
    BY DEF Scheduled
  <1> HIDE DEF e
  <1>3. /\ count < MaxItems /\ count' = count + 1
        /\ interval' = interval /\ now' = now /\ popped' = popped
    BY DEF ScheduleCell
  <1>4. count \in Nat /\ MaxItems \in Nat
    BY CellsBelow, SchedulerAssumption
  <1>5. EachCellOnce'
    <2>1. CellsOf(queue') = CellsOf(queue) \cup {count}
      BY <1>1, <1>2, CellsPushed
    <2>2. /\ CellsOf(queue) \cup CellsOf(popped) = 0..(count - 1)
          /\ CellsOf(queue) \cap CellsOf(popped) = {} /\ Distinct(popped)
      BY DEF SchedulerInv, EachCellOnce
    <2>3. 0..(count' - 1) = (0..(count - 1)) \cup {count} /\ count \notin 0..(count - 1)
      BY <1>3, <1>4
    <2>4. CellsOf(popped') = CellsOf(popped) /\ Distinct(popped')
      BY <1>3, <2>2
    <2>5. Distinct(queue')
      BY <1>1 DEF Heap
    <2>6. /\ CellsOf(queue') \cup CellsOf(popped') = 0..(count' - 1)
          /\ CellsOf(queue') \cap CellsOf(popped') = {}
      BY <2>1, <2>2, <2>3, <2>4
    <2> QED
      BY <2>4, <2>5, <2>6 DEF EachCellOnce
  <1>6. OvertakenNoEarlier'
    <2>1. ASSUME NEW x \in 1..Len(popped), NEW y \in 1..Len(queue'),
                 queue'[y].cell < popped[x].cell
          PROVE  popped[x].prio <= queue'[y].prio
      <3>1. popped[x].cell \in 0..(count - 1)
        BY CellsBelow
      <3>2. Entry(queue'[y]) \in Entries(queue')
        BY DEF Entries
      <3>3. CASE Entry(queue'[y]) = Entry(e)
        <4>1. queue'[y].cell = count
          BY <1>2, <3>3 DEF Entry
        <4> QED
          BY <1>4, <2>1, <3>1, <4>1
      <3>4. CASE Entry(queue'[y]) \in Entries(queue)
        <4>1. PICK z \in 1..Len(queue) : /\ queue'[y].cell = queue[z].cell
                                         /\ queue'[y].prio = queue[z].prio
          BY <3>4, EntriesStay
        <4> QED
          BY <2>1, <4>1 DEF SchedulerInv, OvertakenNoEarlier
      <3> QED
        BY <1>1, <3>2, <3>3, <3>4
    <2> QED
      BY <1>3, <2>1 DEF OvertakenNoEarlier
  <1>7. ReorderedOnlyByClock'
    BY <1>3 DEF SchedulerInv, ReorderedOnlyByClock
  <1>8. /\ interval' \in Nat /\ now' \in Nat /\ count' \in 0..MaxItems
        /\ interval' \in Intervals /\ now' <= MaxTime /\ popped' \in Seq(Item)
    BY <1>3, <1>4 DEF SchedulerInv
  <1> QED
    BY <1>1, <1>5, <1>6, <1>7, <1>8 DEF SchedulerInv

\* The item GetNextCell hands out, which is the one that leaves the heap.
LEMMA TakesRoot ==
    ASSUME SchedulerInv, GetNextCell
    PROVE  /\ Len(queue) \in Nat /\ Len(queue) >= 1 /\ queue[1] \in Item
           /\ Heap(queue')
           /\ Entries(queue') = Entries(queue) \ {Entry(queue[1])}
  <1>1. /\ queue # <<>> /\ queue' = HeapPop(queue) /\ Heap(queue)
    BY DEF GetNextCell, SchedulerInv
  <1>2. queue \in Seq(Item)
    BY <1>1 DEF Heap
  <1>3. Len(queue) \in Nat /\ Len(queue) >= 1
    BY <1>1, <1>2, EmptySeq, LenProperties
  <1>4. queue[1] \in Item
    BY <1>2, <1>3, ElementOfSeq
  <1>5. Len(queue) - 1 \in Nat /\ Len(queue) = (Len(queue) - 1) + 1
    BY <1>3
  <1>6. /\ Heap(HeapPop(queue))
        /\ Entries(HeapPop(queue)) = Entries(queue) \ {Entry(queue[1])}
    BY <1>1, <1>5, HeapPopTakes
  <1> QED
    BY <1>1, <1>3, <1>4, <1>6

LEMMA GetNextCellKeeps ==
    ASSUME SchedulerInv, GetNextCell PROVE SchedulerInv'
  <1> DEFINE e == queue[1]
             m == Len(popped)
  <1>1. /\ Len(queue) \in Nat /\ Len(queue) >= 1 /\ e \in Item
        /\ Heap(queue') /\ Entries(queue') = Entries(queue) \ {Entry(e)}
    BY TakesRoot
  <1>2. /\ popped' = Append(popped, e)
        /\ interval' = interval /\ now' = now /\ count' = count
    BY DEF GetNextCell
  <1>3. popped \in Seq(Item) /\ m \in Nat
    BY LenProperties DEF SchedulerInv
  <1>4. /\ popped' \in Seq(Item) /\ Len(popped') = m + 1
        /\ \A x \in 1..m : popped'[x] = popped[x]
        /\ popped'[m + 1] = e
    BY <1>1, <1>2, <1>3, AppendProperties
  <1>5. /\ \A x \in 1..(m + 1) : x \in 1..m \/ x = m + 1
        /\ \A x \in 1..m : x \in 1..(m + 1)
        /\ m + 1 \in 1..(m + 1)
    BY <1>3
  <1>6. 1 \in 1..Len(queue) /\ \A y \in 1..Len(queue) : e.prio <= queue[y].prio
    BY <1>1, RootFirst DEF SchedulerInv
  <1>7. /\ CellsOf(queue) \cup CellsOf(popped) = 0..(count - 1)
        /\ CellsOf(queue) \cap CellsOf(popped) = {}
        /\ Distinct(queue) /\ Distinct(popped)
    BY DEF SchedulerInv, EachCellOnce
  <1>8. CellsOf(queue') = CellsOf(queue) \ {e.cell} /\ e.cell \in CellsOf(queue)
    BY <1>1, <1>6, <1>7, CellsTaken DEF CellsOf
  <1> HIDE DEF e
  <1>9. CellsOf(popped') = CellsOf(popped) \cup {e.cell}
    <2>1. ASSUME NEW c \in CellsOf(popped') PROVE c \in CellsOf(popped) \cup {e.cell}
      <3>1. PICK x \in 1..(m + 1) : c = popped'[x].cell
        BY <1>4 DEF CellsOf
      <3> QED
        BY <1>4, <1>5, <3>1 DEF CellsOf
    <2>2. ASSUME NEW c \in CellsOf(popped) PROVE c \in CellsOf(popped')
      <3>1. PICK x \in 1..m : c = popped[x].cell
        BY DEF CellsOf
      <3>2. c = popped'[x].cell /\ x \in 1..(m + 1)
        BY <1>4, <1>5, <3>1
      <3> QED
        BY <1>4, <3>2 DEF CellsOf
    <2>3. e.cell \in CellsOf(popped')
      BY <1>4, <1>5 DEF CellsOf
    <2> QED
      BY <2>1, <2>2, <2>3
  <1>10. \A x \in 1..m : popped[x].cell \in CellsOf(popped)
    BY DEF CellsOf
  <1>11. Distinct(popped')
    <2> HIDE DEF m
    <2>1. \A x \in 1..m : popped'[x].cell # e.cell
      BY <1>4, <1>7, <1>8, <1>10
    <2>2. ASSUME NEW x \in 1..(m + 1), NEW y \in 1..(m + 1),
                 popped'[x].cell = popped'[y].cell
          PROVE  x = y
      <3>1. CASE x = m + 1 \/ y = m + 1
        BY <1>4, <1>5, <2>1, <2>2, <3>1
      <3>2. CASE x \in 1..m /\ y \in 1..m
        BY <1>4, <1>7, <2>2, <3>2 DEF Distinct, m
      <3> QED
        BY <1>5, <3>1, <3>2
    <2> QED
      BY <1>4, <2>2 DEF Distinct
  <1>12. EachCellOnce'
    <2>1. Distinct(queue')
      BY <1>1 DEF Heap
    <2>2. /\ CellsOf(queue') \cup CellsOf(popped') = 0..(count - 1)
          /\ CellsOf(queue') \cap CellsOf(popped') = {}
      BY <1>7, <1>8, <1>9
    <2> QED
      BY <1>2, <1>11, <2>1, <2>2 DEF EachCellOnce
  <1>13. \A y \in 1..Len(queue') : \E z \in 1..Len(queue) :
             queue'[y].cell = queue[z].cell /\ queue'[y].prio = queue[z].prio
    <2>1. ASSUME NEW y \in 1..Len(queue') PROVE Entry(queue'[y]) \in Entries(queue)
      BY <1>1 DEF Entries
    <2> QED
      BY <2>1, EntriesStay
  <1>14. OvertakenNoEarlier'
    <2> HIDE DEF m
    <2>1. ASSUME NEW x \in 1..(m + 1), NEW y \in 1..Len(queue'),
                 queue'[y].cell < popped'[x].cell
          PROVE  popped'[x].prio <= queue'[y].prio
      <3>1. PICK z \in 1..Len(queue) : /\ queue'[y].cell = queue[z].cell
                                       /\ queue'[y].prio = queue[z].prio
        BY <1>13
      <3>2. CASE x = m + 1
        BY <1>4, <1>6, <3>1, <3>2
      <3>3. CASE x \in 1..m
        <4>1. popped'[x] = popped[x] /\ queue[z].cell < popped[x].cell
          BY <1>4, <2>1, <3>1, <3>3
        <4>2. popped[x].prio <= queue[z].prio
          BY <3>3, <4>1 DEF SchedulerInv, OvertakenNoEarlier, m
        <4> QED
          BY <3>1, <4>1, <4>2
      <3> QED
        BY <1>5, <3>2, <3>3
    <2> QED
      BY <1>4, <2>1 DEF OvertakenNoEarlier
  <1>15. ReorderedOnlyByClock'
    <2> HIDE DEF m
    <2>1. ASSUME NEW x \in 1..(m + 1), NEW y \in 1..(m + 1), x < y,
                 popped'[y].cell < popped'[x].cell
          PROVE  popped'[x].prio <= popped'[y].prio
      <3>1. x \in 1..m
        BY <1>3, <2>1 DEF m
      <3>2. popped'[x] = popped[x]
        BY <1>4, <3>1
      <3>3. CASE y = m + 1
        <4>1. PICK z \in 1..Len(queue) : z = 1
          BY <1>6
        <4>2. popped'[y] = queue[z]
          BY <1>4, <3>3, <4>1 DEF e
        <4>3. queue[z].cell < popped[x].cell
          BY <2>1, <3>2, <4>2
        <4>4. popped[x].prio <= queue[z].prio
          BY <3>1, <4>3 DEF SchedulerInv, OvertakenNoEarlier, m
        <4> QED
          BY <3>2, <4>2, <4>4
      <3>4. CASE y \in 1..m
        <4>1. popped'[y] = popped[y] /\ popped[y].cell < popped[x].cell
          BY <1>4, <2>1, <3>2, <3>4
        <4>2. popped[x].prio <= popped[y].prio
          BY <2>1, <3>1, <3>4, <4>1 DEF SchedulerInv, ReorderedOnlyByClock, m
        <4> QED
          BY <3>2, <4>1, <4>2
      <3> QED
        BY <1>5, <3>3, <3>4
    <2> QED
      BY <1>4, <2>1 DEF ReorderedOnlyByClock
  <1>16. /\ interval' \in Nat /\ now' \in Nat /\ count' \in 0..MaxItems
         /\ interval' \in Intervals /\ now' <= MaxTime
    BY <1>2 DEF SchedulerInv
  <1> QED
    BY <1>1, <1>4, <1>12, <1>14, <1>15, <1>16 DEF SchedulerInv

\* SetProfile and the clock leave the heap alone.
LEMMA OthersKeep ==
    ASSUME SchedulerInv, queue' = queue, popped' = popped, count' = count,
           interval' \in Intervals, now' \in 0..MaxTime
    PROVE  SchedulerInv'
  <1>1. interval' \in Nat /\ now' \in Nat /\ now' <= MaxTime
    BY SchedulerAssumption
  <1> QED
    BY <1>1 DEF SchedulerInv, EachCellOnce, ReorderedOnlyByClock, OvertakenNoEarlier

LEMMA SchedulerStep ==
    ASSUME SchedulerInv, [SchedulerNext]_schedulerVars PROVE SchedulerInv'
  <1>1. MaxTime \in Nat /\ now \in 0..MaxTime /\ interval \in Intervals
    BY SchedulerAssumption DEF SchedulerInv
  <1>2. ASSUME NEW i \in Intervals, SetProfile(i) PROVE SchedulerInv'
    BY <1>1, <1>2, OthersKeep DEF SetProfile
  <1>3. ASSUME NEW dummy \in BOOLEAN, ScheduleCell(dummy) PROVE SchedulerInv'
    BY <1>3, ScheduleCellKeeps
  <1>4. CASE GetNextCell
    BY <1>4, GetNextCellKeeps
  <1>5. CASE ClockTick
    <2>1. now' \in 0..MaxTime
      BY <1>1, <1>5 DEF ClockTick
    <2> QED
      BY <1>1, <1>5, <2>1, OthersKeep DEF ClockTick
  <1>6. CASE ClockSetBack
    <2>1. now' \in 0..MaxTime
      BY <1>1, <1>6 DEF ClockSetBack
    <2> QED
      BY <1>1, <1>6, <2>1, OthersKeep DEF ClockSetBack
  <1>7. CASE UNCHANGED schedulerVars
    BY <1>1, <1>7, OthersKeep DEF schedulerVars
  <1> QED
    BY <1>2, <1>3, <1>4, <1>5, <1>6, <1>7 DEF SchedulerNext

LEMMA SchedulerInvariance == SchedulerSpec => []SchedulerInv
  BY SchedulerStarts, SchedulerStep, PTL DEF SchedulerSpec

\* GetNextCell answers nil only when no cell in the heap is due, although it
\* looks at the root alone.
THEOREM SchedulerFindsDue == SchedulerSpec => []DueCellFound
  <1>1. SchedulerInv => DueCellFound
    <2> SUFFICES ASSUME SchedulerInv, NothingDue, NEW i \in DOMAIN queue
                 PROVE  now < queue[i].prio
      BY DEF DueCellFound
    <2>1. /\ queue \in Seq(Item) /\ Len(queue) \in Nat /\ DOMAIN queue = 1..Len(queue)
          /\ \A x \in 1..Len(queue) : queue[1].prio <= queue[x].prio
      BY RootFirst, LenProperties DEF SchedulerInv, Heap
    <2>2. i \in 1..Len(queue) /\ 1 \in 1..Len(queue) /\ queue # <<>>
      BY <2>1
    <2>3. queue[i].prio \in Int /\ queue[1].prio \in Int /\ now \in Int
      <3>1. queue[i] \in Item /\ queue[1] \in Item
        BY <2>1, <2>2, ElementOfSeq
      <3> QED
        BY <3>1 DEF Item, SchedulerInv
    <2>4. now < queue[1].prio
      BY <2>2 DEF NothingDue
    <2> QED
      BY <2>1, <2>2, <2>3, <2>4
  <1> QED
    BY <1>1, SchedulerInvariance, PTL

\* The exchanges of the heap neither lose a cell nor double one, so that each
\* is handed out once at most.
THEOREM SchedulerKeepsCells == SchedulerSpec => []EachCellOnce
  <1>1. SchedulerInv => EachCellOnce
    BY DEF SchedulerInv
  <1> QED
    BY <1>1, SchedulerInvariance, PTL

\* A cell overtakes an earlier one only with no later a send time.
THEOREM SchedulerReorders == SchedulerSpec => []ReorderedOnlyByClock
  <1>1. SchedulerInv => ReorderedOnlyByClock
    BY DEF SchedulerInv
  <1> QED
    BY <1>1, SchedulerInvariance, PTL

\* Swap and Push keep the index fields, as the comment on index says.
THEOREM SchedulerIndexes == SchedulerSpec => []IndexMaintained
  <1>1. SchedulerInv => IndexMaintained
    BY DEF SchedulerInv, Heap, IndexMaintained
  <1> QED
    BY <1>1, SchedulerInvariance, PTL

-----------------------------------------------------------------------------
(* The Scheduler implements CellQueue.                                     *)

\* What the mapping of Scheduler makes of the variables.
Pending(q) == {[item |-> q[i].cell, prio |-> q[i].prio] : i \in DOMAIN q}
Last(p) == IF p = <<>> THEN {} ELSE {[item |-> p[Len(p)].cell, prio |-> p[Len(p)].prio]}

LEMMA PendingEntries ==
    ASSUME NEW q \in Seq(Item) PROVE Pending(q) = Entries(q)
  <1>1. DOMAIN q = 1..Len(q)
    BY LenProperties
  <1> QED
    BY <1>1 DEF Pending, Entries, Entry

LEMMA MapsInit ==
    ASSUME SchedulerInit PROVE Abstract!Init
  <1>1. queue = <<>> /\ popped = <<>>
    BY DEF SchedulerInit
  <1>2. Pending(queue) = {} /\ Last(popped) = {}
    BY <1>1 DEF Pending, Last
  <1> QED
    BY <1>2 DEF Abstract!Init, Pending, Last

LEMMA MapsPut ==
    ASSUME SchedulerInv, NEW dummy \in BOOLEAN, ScheduleCell(dummy)
    PROVE  Abstract!Next
  <1> DEFINE e == Scheduled(dummy)
             t == IF dummy THEN now + interval ELSE now
  <1>1. /\ Heap(queue') /\ Entries(queue') = Entries(queue) \cup {Entry(e)}
        /\ Heap(queue)
    BY PushesOne DEF SchedulerInv
  <1>2. Pending(queue) = Entries(queue) /\ Pending(queue') = Entries(queue')
    BY <1>1, PendingEntries DEF Heap
  <1>3. /\ now \in 0..MaxTime /\ interval \in Intervals /\ interval \in Nat
        /\ count \in Nat /\ count < MaxItems /\ MaxItems \in Nat
    BY SchedulerAssumption, CellsBelow DEF SchedulerInv, ScheduleCell
  <1>4. count \in 0..(MaxItems - 1)
    BY <1>3
  <1>5. t \in {s + i : s \in 0..MaxTime, i \in Intervals \cup {0}}
    <2>1. CASE dummy
      BY <1>3, <2>1
    <2>2. CASE ~dummy
      <3>1. t = now + 0
        BY <1>3, <2>2
      <3> QED
        BY <1>3, <3>1
    <2> QED
      BY <2>1, <2>2
  <1>6. Entry(e) = [item |-> count, prio |-> t]
    BY DEF Entry, Scheduled
  <1> HIDE DEF e, t
  <1>7. \A x \in Pending(queue) : x.item # count
    <2>1. ASSUME NEW x \in Entries(queue) PROVE x.item # count
      <3>1. x.item \in CellsOf(queue)
        BY CellsOfEntries
      <3> QED
        BY <1>3, <3>1, CellsBelow
    <2> QED
      BY <1>2, <2>1
  <1>8. Pending(queue') = Pending(queue) \cup {[item |-> count, prio |-> t]}
    BY <1>1, <1>2, <1>6
  <1>9. Last(popped') = Last(popped)
    BY DEF ScheduleCell
  <1>10. \E i \in 0..(MaxItems - 1),
             s \in {v + w : v \in 0..MaxTime, w \in Intervals \cup {0}} :
            /\ \A x \in Pending(queue) : x.item # i
            /\ Pending(queue') = Pending(queue) \cup {[item |-> i, prio |-> s]}
            /\ Last(popped') = Last(popped)
    BY <1>4, <1>5, <1>7, <1>8, <1>9
  <1> QED
    BY <1>10 DEF Abstract!Next, Abstract!Put, Pending, Last

LEMMA MapsTake ==
    ASSUME SchedulerInv, GetNextCell
    PROVE  Abstract!Next
  <1> DEFINE e == queue[1]
  <1>1. /\ Len(queue) \in Nat /\ Len(queue) >= 1 /\ e \in Item /\ Heap(queue)
        /\ Heap(queue') /\ Entries(queue') = Entries(queue) \ {Entry(e)}
    BY TakesRoot DEF SchedulerInv
  <1>2. Pending(queue) = Entries(queue) /\ Pending(queue') = Entries(queue')
    BY <1>1, PendingEntries DEF Heap
  <1>3. Entry(e) \in Entries(queue)
    <2>1. 1 \in 1..Len(queue)
      BY <1>1
    <2> QED
      BY <2>1 DEF Entries
  <1>4. \A y \in Entries(queue) : Entry(e).prio <= y.prio
    <2>1. \A x \in 1..Len(queue) : e.prio <= queue[x].prio
      BY <1>1, RootFirst
    <2>2. ASSUME NEW y \in Entries(queue) PROVE Entry(e).prio <= y.prio
      <3>1. PICK x \in 1..Len(queue) : y = Entry(queue[x])
        BY DEF Entries
      <3>2. y.prio = queue[x].prio /\ Entry(e).prio = e.prio
        BY <3>1 DEF Entry
      <3> QED
        BY <2>1, <3>2
    <2> QED
      BY <2>2
  <1>5. Last(popped') = {Entry(e)}
    <2>1. popped \in Seq(Item) /\ popped' = Append(popped, e)
      BY DEF SchedulerInv, GetNextCell
    <2> HIDE DEF e
    <2>2. /\ popped' # <<>> /\ Len(popped') = Len(popped) + 1
          /\ popped'[Len(popped) + 1] = e
      BY <1>1, <2>1, AppendProperties
    <2> QED
      BY <2>2 DEF Last, Entry
  <1> DEFINE x == Entry(e)
  <1>6. x \in Pending(queue) /\ \A y \in Pending(queue) : x.prio <= y.prio
    BY <1>2, <1>3, <1>4
  <1>7. Pending(queue') = Pending(queue) \ {x} /\ Last(popped') = {x}
    BY <1>1, <1>2, <1>5
  <1> HIDE DEF x
  <1>8. \E u \in Pending(queue) :
           /\ \A y \in Pending(queue) : u.prio <= y.prio
           /\ Pending(queue') = Pending(queue) \ {u}
           /\ Last(popped') = {u}
    BY <1>6, <1>7
  <1> QED
    BY <1>8 DEF Abstract!Next, Abstract!Take, Pending, Last

LEMMA MapsStep ==
    ASSUME SchedulerInv, [SchedulerNext]_schedulerVars
    PROVE  [Abstract!Next]_(Abstract!vars)
  <1>1. ASSUME queue' = queue, popped' = popped
        PROVE  UNCHANGED Abstract!vars
    <2>1. Pending(queue') = Pending(queue) /\ Last(popped') = Last(popped)
      BY <1>1
    <2> QED
      BY <2>1 DEF Abstract!vars, Pending, Last
  <1>2. ASSUME NEW i \in Intervals, SetProfile(i) PROVE UNCHANGED Abstract!vars
    BY <1>1, <1>2 DEF SetProfile
  <1>3. ASSUME NEW dummy \in BOOLEAN, ScheduleCell(dummy) PROVE Abstract!Next
    BY <1>3, MapsPut
  <1>4. CASE GetNextCell
    BY <1>4, MapsTake
  <1>5. CASE ClockTick \/ ClockSetBack
    BY <1>1, <1>5 DEF ClockTick, ClockSetBack
  <1>6. CASE UNCHANGED schedulerVars
    BY <1>1, <1>6 DEF schedulerVars
  <1> QED
    BY <1>2, <1>3, <1>4, <1>5, <1>6 DEF SchedulerNext

\* What GetNextCell returns is what heap.Pop removed, a cell of least send
\* time: every behaviour of the heap is one of the abstract queue.
THEOREM SchedulerRefines == SchedulerSpec => ImplementsCellQueue
  <1>1. SchedulerInit => Abstract!Init
    BY MapsInit
  <1>2. SchedulerInv /\ [SchedulerNext]_schedulerVars => [Abstract!Next]_(Abstract!vars)
    BY MapsStep
  <1> QED
    BY <1>1, <1>2, SchedulerInvariance, PTL
    DEF SchedulerSpec, ImplementsCellQueue, Abstract!Spec
=============================================================================
