----------------------------- MODULE LinkProofs -----------------------------
(***************************************************************************)
(* The whole link: what reaches the device's callbacks over a line that    *)
(* loses, adds and alters bytes is what MsgLink allows, and damage costs   *)
(* no other frame than those it hits.                                      *)
(***************************************************************************)
EXTENDS Link, SequenceLemmas

FBP == INSTANCE FrameBufferProofs WITH ChunkMax <- StreamMax, Byte <- Symbol
MLP == INSTANCE MsgLinkProofs WITH wire <- Wire

Plain == 0 .. (Radix - 1)

----------------------------------------------------------------------------
\* The constants.

\* The parts' theorems can be used.
LEMMA PartsOfFrames ==
    /\ FBP!ByteAssumption /\ FBP!LayoutAssumption
    /\ FBP!FrameSizeAssumption /\ FBP!BoundAssumption
BY PartsAssumption
   DEF FB!ByteAssumption, FB!LayoutAssumption, FB!FrameSizeAssumption, FB!BoundAssumption,
       FBP!ByteAssumption, FBP!LayoutAssumption, FBP!FrameSizeAssumption,
       FBP!BoundAssumption

\* Those of the messages likewise.
LEMMA PartsOfMessages ==
    /\ MLP!RadixAssumption /\ MLP!IdAssumption /\ MLP!SizeAssumption
    /\ MLP!CapacityAssumption /\ MLP!MessageAssumption /\ MLP!BoundAssumption
BY PartsAssumption
   DEF ML!RadixAssumption, ML!IdAssumption, ML!SizeAssumption, ML!CapacityAssumption,
       ML!MessageAssumption, ML!BoundAssumption, MLP!RadixAssumption, MLP!IdAssumption,
       MLP!SizeAssumption, MLP!CapacityAssumption, MLP!MessageAssumption,
       MLP!BoundAssumption, ML!ConnectType, MLP!ConnectType, ML!SizedIds, MLP!SizedIds

\* A byte is no checksum.
LEMMA PlainOrSum ==
    /\ Plain \subseteq Symbol /\ Sums \subseteq Symbol /\ Plain \cap Sums = {}
    /\ Radix \in Nat \ {0} /\ \A x \in Symbol : x \in Plain \/ x \in Sums
<1>1. Radix \in Nat \ {0}
  BY PartsOfMessages DEF MLP!RadixAssumption
<1>2. \A x \in Sums : x \in Nat /\ x >= Radix
  BY IdealAssumption DEF Sums
<1> QED
  BY <1>1, <1>2 DEF Plain, Symbol

\* A message is built of bytes.
LEMMA BuiltPlain ==
    ASSUME NEW m \in Messages
    PROVE  Msg!Built(m) \in Seq(Plain)
<1> DEFINE Short(n) == n % Radix
<1>1. m.id \in Plain /\ m.raw \in Seq(Plain) /\ WrapId \in Plain
  BY PartsOfMessages DEF MLP!MessageAssumption, MLP!IdAssumption, Plain
<1>2. \A n \in Nat : Short(n) \in Plain
  BY PlainOrSum DEF Plain
<1> HIDE DEF Short
<1>3. Len(m.raw) \in Nat
  BY <1>1
<1>4. Msg!MsgWrite(m.id, m.raw) \in Seq(Plain)
  <2> DEFINE head == <<m.id, Short(Len(m.raw))>>
  <2>1. head \in Seq(Plain)
    BY <1>1, <1>2, <1>3
  <2>2. Msg!MsgWrite(m.id, m.raw) = head \o m.raw
    BY DEF Msg!MsgWrite, Msg!U8, Short
  <2> HIDE DEF head
  <2> QED
    BY <1>1, <2>1, <2>2, ConcatProperties
<1>5. Msg!Wrapped(m.id, m.raw) \in Seq(Plain)
  <2> DEFINE a == Msg!WrappedSize(m.raw)
             b == Msg!MsgHeaderSize + Len(m.raw)
             head == <<WrapId, Short(a), Short(b)>>
             inner == Msg!MsgWrite(m.id, m.raw)
  <2>1. a \in Nat /\ b \in Nat
    BY <1>3 DEF Msg!WrappedSize, Msg!MsgHeaderSize, Msg!UserDataHeader
  <2>2. Msg!Wrapped(m.id, m.raw) = head \o inner
    BY DEF Msg!Wrapped, Msg!U8, Short
  <2> HIDE DEF a, b, inner
  <2>3. head \in Seq(Plain)
    BY <1>1, <1>2, <2>1
  <2> HIDE DEF head
  <2>4. inner \in Seq(Plain)
    BY <1>4 DEF inner
  <2> QED
    BY <2>2, <2>3, <2>4, ConcatProperties
<1> QED
  BY <1>4, <1>5 DEF Msg!Built

\* What a sender may have put into a payload with n messages.
LEMMA PayloadsAre ==
    /\ Payloads[0] = {<< >>}
    /\ \A n \in 1 .. MsgMax :
           Payloads[n] = Payloads[n - 1]
                           \cup {p \o Msg!Built(m) : p \in Payloads[n - 1], m \in Messages}
    /\ \A n \in 0 .. MsgMax : Payloads[n] \in SUBSET Seq(Plain)
<1> DEFINE N == MsgMax
           V == SUBSET Seq(Plain)
           More(S) == S \cup {p \o Msg!Built(m) : p \in S, m \in Messages}
           base == {<< >>}
           F == [k \in 1 .. N |-> [v \in V |-> More(v)]]
           Eq(g) == g = [n \in 0 .. N |-> IF n = 0 THEN base ELSE More(g[n - 1])]
           f == Payloads
<1>1. N \in Nat
  BY PartsOfMessages DEF MLP!BoundAssumption
<1>2. base \in V
  OBVIOUS
<1>3. \A S \in V : More(S) \in V
  <2> SUFFICES ASSUME NEW S \in V, NEW x \in More(S)
               PROVE  x \in Seq(Plain)
    OBVIOUS
  <2>1. CASE x \in S
    BY <2>1
  <2>2. CASE x \in {p \o Msg!Built(m) : p \in S, m \in Messages}
    <3>1. PICK p \in S, m \in Messages : x = p \o Msg!Built(m)
      BY <2>2
    <3>2. p \in Seq(Plain)
      OBVIOUS
    <3> QED
      BY <3>1, <3>2, BuiltPlain, ConcatProperties
  <2> QED
    BY <2>1, <2>2
<1> HIDE DEF More
<1>4. F \in [1 .. N -> [V -> V]]
  <2> HIDE DEF V, More, N
  <2> QED BY <1>3
<1>5. PICK g : g \in Solutions(N, V, base, F)
  <2> HIDE DEF F, base, N, V
  <2> QED BY <1>1, <1>2, <1>4, RecursionExists
<1>6. Eq(g)
  <2>1. /\ g \in [0 .. N -> V] /\ g[0] = base
        /\ \A k \in 1 .. N : g[k] = F[k][g[k - 1]]
    <3> HIDE DEF F, base, N, V
    <3> QED BY <1>5 DEF Solutions
  <2>2. ASSUME NEW k \in 1 .. N PROVE g[k] = More(g[k - 1])
    <3>1. k - 1 \in 0 .. N
      BY <1>1
    <3> HIDE DEF V, N
    <3>2. g[k - 1] \in V
      BY <2>1, <3>1
    <3> QED
      BY <2>1, <3>2
  <2> HIDE DEF F, N, V, base
  <2> QED
    BY <1>1, <2>1, <2>2
<1>7. f = CHOOSE h : Eq(h)
  BY DEF Payloads, More
<1> HIDE DEF Eq
<1>8. Eq(f)
  BY <1>6, <1>7
<1> HIDE DEF f, N, base
<1>9. f[0] = base /\ \A n \in 1 .. N : f[n] = More(f[n - 1])
  BY <1>1, <1>8 DEF Eq
<1>10. \A n \in 0 .. N : f[n] \in V
  <2> DEFINE T == {n \in 0 .. N : f[n] \in V}
  <2>1. 0 \in T
    BY <1>1, <1>2, <1>9
  <2>2. ASSUME NEW n \in 0 .. (N - 1), n \in T PROVE n + 1 \in T
    <3>1. n + 1 \in 1 .. N /\ (n + 1) - 1 = n
      BY <1>1
    <3> HIDE DEF V
    <3>2. f[n + 1] = More(f[n]) /\ f[n] \in V
      BY <1>9, <2>2, <3>1
    <3> QED
      BY <1>1, <1>3, <3>1, <3>2
  <2> HIDE DEF T
  <2>3. \A n \in 0 .. N : n \in T
    BY <1>1, <2>1, <2>2, Induction
  <2> QED
    BY <2>3 DEF T
<1> QED
  BY <1>9, <1>10 DEF f, More, N, base

\* Another message still fits in what a sender may have put into a payload.
LEMMA PayloadsGrow ==
    /\ MsgMax \in Nat /\ << >> \in Payloads[0]
    /\ \A n \in 0 .. MsgMax : Payloads[n] \subseteq Payloads[MsgMax]
    /\ \A n \in 0 .. (MsgMax - 1) :
           /\ Payloads[n] \subseteq Payloads[n + 1]
           /\ \A p \in Payloads[n], m \in Messages : p \o Msg!Built(m) \in Payloads[n + 1]
<1> DEFINE N == MsgMax
           Q(n) == Payloads[n]
<1>1. N \in Nat
  BY PartsOfMessages DEF MLP!BoundAssumption
<1>2. \A n \in 1 .. N :
          Q(n) = Q(n - 1) \cup {p \o Msg!Built(m) : p \in Q(n - 1), m \in Messages}
  BY PayloadsAre
<1>3. << >> \in Q(0)
  BY PayloadsAre
<1> HIDE DEF N, Q
<1>4. ASSUME NEW n \in 0 .. (N - 1)
      PROVE  /\ Q(n) \subseteq Q(n + 1)
             /\ \A p \in Q(n), m \in Messages : p \o Msg!Built(m) \in Q(n + 1)
  <2>1. n + 1 \in 1 .. N /\ (n + 1) - 1 = n
    BY <1>1
  <2>2. Q(n + 1) = Q(n) \cup {p \o Msg!Built(m) : p \in Q(n), m \in Messages}
    BY <1>2, <2>1
  <2> DEFINE B(m) == Msg!Built(m)
             more == {p \o B(m) : p \in Q(n), m \in Messages}
  <2>3. Q(n + 1) = Q(n) \cup more
    BY <2>2
  <2> HIDE DEF B
  <2>4. \A p \in Q(n), m \in Messages : p \o B(m) \in more
    OBVIOUS
  <2> HIDE DEF more
  <2>5. Q(n) \subseteq Q(n + 1) /\ \A x \in more : x \in Q(n + 1)
    BY <2>3
  <2> QED
    BY <2>4, <2>5 DEF B
<1>5. ASSUME NEW n \in 0 .. N PROVE Q(n) \subseteq Q(N)
  <2> DEFINE K == N - n
             T == {k \in 0 .. K : Q(n) \subseteq Q(n + k)}
  <2>1. K \in Nat /\ n + K = N /\ n + 0 = n
    BY <1>1
  <2>2. 0 \in T
    BY <2>1
  <2>3. ASSUME NEW k \in 0 .. (K - 1), k \in T PROVE k + 1 \in T
    <3>1. n + k \in 0 .. (N - 1) /\ n + (k + 1) = (n + k) + 1 /\ k + 1 \in 0 .. K
      BY <1>1
    <3>2. Q(n + k) \subseteq Q((n + k) + 1)
      BY <1>4, <3>1
    <3>3. Q(n) \subseteq Q(n + k)
      BY <2>3
    <3>4. Q(n + (k + 1)) = Q((n + k) + 1)
      BY <3>1, Zenon
    <3>5. Q(n) \subseteq Q(n + (k + 1))
      BY <3>2, <3>3, <3>4, Zenon
    <3> QED
      BY <3>1, <3>5
  <2> HIDE DEF T, K
  <2>4. \A k \in 0 .. K : k \in T
    BY <2>1, <2>2, <2>3, Induction
  <2>5. K \in T
    BY <2>1, <2>4
  <2> QED
    BY <2>1, <2>5 DEF T
<1> QED
  BY <1>1, <1>3, <1>4, <1>5 DEF N, Q

----------------------------------------------------------------------------
\* Frames and their checksums.

\* A frame that a sender can make.
Sendable(f) ==
    /\ f.cnt \in 0 .. (CntRange - 1)
    /\ f.payload \in Payloads[MsgMax] /\ Len(f.payload) <= PayloadSizeMax

Content(f) == Covered(f.cnt, f.payload)
Sum(f) == Checksum(Content(f))

\* Its bytes: they tell its length, count and payload.
LEMMA ContentIs ==
    ASSUME NEW f, Sendable(f)
    PROVE  /\ f.payload \in Seq(Plain)
           /\ Content(f) \in Coverable /\ Content(f) \in Seq(Plain)
           /\ Len(Content(f)) = 4 + Len(f.payload)
           /\ Content(f)[1] = Sof /\ Content(f)[2] = f.cnt
           /\ Content(f)[3] + Radix * Content(f)[4] = Len(f.payload)
           /\ SubSeq(Content(f), 5, Len(Content(f))) = f.payload
<1> DEFINE p == f.payload
           n == Len(p)
           head == <<Sof, f.cnt, n % Radix, n \div Radix>>
<1>1. p \in Seq(Plain) /\ f.cnt \in 0 .. (CntRange - 1) /\ p \in Payloads[MsgMax]
  BY PayloadsAre, PayloadsGrow DEF Sendable
<1>2. n \in Nat /\ n <= PayloadSizeMax /\ Radix \in Nat \ {0}
  BY <1>1, PlainOrSum DEF Sendable
<1>3. n < Radix
  BY <1>2, PartsOfMessages DEF MLP!CapacityAssumption, MLP!SizeAssumption
<1>4. Content(f) = head \o p
  BY DEF Content, Covered
<1>5. Content(f) \in Coverable
  BY <1>1, <1>2 DEF Coverable, Content
<1>6. f.cnt \in Plain /\ Sof \in Plain
  BY <1>1, <1>2, FormatAssumption, CountAssumption, PartsOfMessages
     DEF Plain, MLP!BoundAssumption
<1> HIDE DEF n, p
<1>7. n % Radix = n /\ n \div Radix = 0
  BY <1>2, <1>3
<1>8. n \in Plain /\ 0 \in Plain
  BY <1>2, <1>3 DEF Plain
<1>9. /\ head \in Seq(Plain) /\ Len(head) = 4
      /\ head[1] = Sof /\ head[2] = f.cnt /\ head[3] = n /\ head[4] = 0
  BY <1>6, <1>7, <1>8
<1> HIDE DEF head
<1>10. /\ head \o p \in Seq(Plain) /\ Len(head \o p) = 4 + n
       /\ \A i \in 1 .. 4 : (head \o p)[i] = head[i]
  <2>1. Len(p) = n
    BY DEF n
  <2>2. /\ head \o p \in Seq(Plain) /\ Len(head \o p) = Len(head) + Len(p)
        /\ \A i \in 1 .. Len(head) + Len(p) :
              (head \o p)[i] = IF i <= Len(head) THEN head[i] ELSE p[i - Len(head)]
    BY <1>1, <1>9, ConcatProperties
  <2> QED
    BY <1>2, <1>9, <2>1, <2>2
<1>11. SubSeq(head \o p, Len(head) + 1, Len(head \o p)) = p
  BY <1>1, <1>9, ConcatRest
<1>12. n + Radix * 0 = n
  BY <1>2
<1> QED
  BY <1>1, <1>4, <1>5, <1>9, <1>10, <1>11, <1>12 DEF n, p

\* Every content under a checksum is that of such a frame.
LEMMA CoverableIs ==
    ASSUME NEW a \in Coverable
    PROVE  \E f : Sendable(f) /\ a = Content(f)
<1>1. PICK cnt \in 0 .. (CntRange - 1), p \in {q \in Payloads[MsgMax] : Len(q) <= PayloadSizeMax} :
          a = Covered(cnt, p)
  BY DEF Coverable
<1> DEFINE f == [cnt |-> cnt, payload |-> p]
<1>2. f.cnt = cnt /\ f.payload = p
  OBVIOUS
<1> HIDE DEF f
<1>3. Sendable(f) /\ a = Content(f)
  BY <1>1, <1>2 DEF Sendable, Content
<1> QED
  BY <1>3

\* Different frames have different checksums.
LEMMA SumsDiffer ==
    ASSUME NEW f, Sendable(f), NEW g, Sendable(g), Sum(f) = Sum(g)
    PROVE  f.cnt = g.cnt /\ f.payload = g.payload
<1>1. Content(f) = Content(g)
  BY ContentIs, IdealAssumption DEF Sum
<1> QED
  BY <1>1, ContentIs

\* A frame's bytes are its content and, behind it, the only checksum in them.
LEMMA FrameOfIs ==
    ASSUME NEW f, Sendable(f)
    PROVE  /\ Sum(f) \in Sums /\ FrameOf(f) = Append(Content(f), Sum(f))
           /\ FrameOf(f) \in Seq(Symbol) /\ Len(FrameOf(f)) = 5 + Len(f.payload)
           /\ Selected(FrameOf(f), Sums) = <<Sum(f)>>
<1> DEFINE c == Content(f)
<1>1. c \in Seq(Plain) /\ c \in Coverable /\ Len(c) = 4 + Len(f.payload)
      /\ Len(f.payload) \in Nat
  BY ContentIs
<1>2. Sum(f) \in Sums /\ Sum(f) \in Symbol
  BY <1>1, PlainOrSum DEF Sums, Sum
<1>3. FrameOf(f) = Append(c, Sum(f))
  BY DEF FrameOf, Sum, Content
<1>4. c \in Seq(Symbol)
  BY <1>1, PlainOrSum
<1>5. Selected(c, Sums) = << >>
  <2>1. Selected(c, Sums) \in Seq(Plain \cap Sums)
    BY <1>1, SelectedType
  <2> QED
    BY <2>1, PlainOrSum
<1> HIDE DEF c
<1>6. Selected(Append(c, Sum(f)), Sums) = Append(<< >>, Sum(f))
  BY <1>2, <1>4, <1>5, SelectedAppend
<1> QED
  BY <1>1, <1>2, <1>3, <1>4, <1>6 DEF c

----------------------------------------------------------------------------
\* The inductive invariant.

Frames == [cap : Nat, cnt : Nat, payload : Seq(Plain), msgs : Seq(Messages), tried : Nat]

\* The frame being built is one that can be sent and fits the buffer.
OutInv ==
    out # ML!NoFrame =>
        /\ out \in Frames /\ out.tried \in 0 .. MsgMax /\ out.payload \in Payloads[out.tried]
        /\ out.cap \in Capacities /\ SizeMin + Len(out.payload) <= out.cap
        /\ out.cnt < CntRange

\* The frames posted could be sent.
PostedInv ==
    /\ begun \in Nat
    /\ posted \in Seq(Frames)
    /\ \A k \in DOMAIN posted : Sendable(posted[k])

\* What has come and what is still to come has the checksums of the frames
\* posted, in this order, whatever else there is.
SumsOf(ps) == [k \in DOMAIN ps |-> Sum(ps[k])]
LineInv ==
    /\ line \in Seq(Symbol) /\ received \in Seq(Symbol)
    /\ Selected(received \o line, Sums) = SumsOf(posted)

LinkInv == OutInv /\ PostedInv /\ LineInv

----------------------------------------------------------------------------
\* What the line does.

\* If one of three sequences is dropped from a single element, that is gone
\* or still there.
LEMMA SingleLeft ==
    ASSUME NEW A, NEW a \in Seq(A), NEW b \in Seq(A), NEW c \in Seq(A), NEW x,
           (a \o b) \o c = <<x>>
    PROVE  a \o c = << >> \/ a \o c = <<x>>
<1> DEFINE ab == a \o b
<1>1. ab \in Seq(A) /\ Len(ab) = Len(a) + Len(b)
  BY ConcatProperties
<1>2. Len(a) \in Nat /\ Len(b) \in Nat /\ Len(c) \in Nat
  OBVIOUS
<1> HIDE DEF ab
<1>3. Len(ab \o c) = Len(ab) + Len(c)
  BY <1>1, ConcatProperties
<1>4. ab \o c = <<x>>
  BY DEF ab
<1>5. Len(ab \o c) = 1
  BY <1>4
<1>6. Len(a) + Len(b) + Len(c) = 1
  BY <1>1, <1>2, <1>3, <1>5
<1>7. CASE Len(b) = 0
  <2>1. b = << >>
    BY <1>7
  <2>2. ab = a
    BY <2>1, ConcatEmptySeq DEF ab
  <2> QED
    BY <1>4, <2>2
<1>8. CASE Len(b) # 0
  <2>1. Len(a) = 0 /\ Len(c) = 0
    BY <1>2, <1>6, <1>8
  <2>2. a = << >> /\ c = << >>
    BY <2>1
  <2> QED
    BY <2>2, ConcatEmptySeq
<1> QED
  BY <1>7, <1>8

\* The line adds no checksum, and loses one at most.
LEMMA VariantSums ==
    ASSUME NEW f, Sendable(f), NEW bytes \in Variants(FrameOf(f))
    PROVE  /\ bytes \in Seq(Symbol)
           /\ Selected(bytes, Sums) = << >> \/ Selected(bytes, Sums) = <<Sum(f)>>
<1> DEFINE F == FrameOf(f)
           Sel(s) == Selected(s, Sums)
<1>1. F \in Seq(Symbol) /\ Sel(F) = <<Sum(f)>>
  BY FrameOfIs
<1>2. CASE bytes = F
  BY <1>1, <1>2
<1>3. ASSUME NEW i \in DOMAIN F, NEW d \in Damaged(F[i]),
             bytes = SubSeq(F, 1, i - 1) \o d \o SubSeq(F, i + 1, Len(F))
      PROVE  bytes \in Seq(Symbol) /\ (Sel(bytes) = << >> \/ Sel(bytes) = <<Sum(f)>>)
  <2> DEFINE b == F[i]
             one == <<b>>
             left == SubSeq(F, 1, i - 1)
             right == SubSeq(F, i + 1, Len(F))
  <2> HIDE DEF F
  <2>1. /\ i \in 1 .. Len(F) /\ b \in Symbol
        /\ left \in Seq(Symbol) /\ right \in Seq(Symbol)
    BY <1>1
  <2>2. F = (left \o one) \o right
    <3>1. Len(F) \in Nat /\ 1 \in 1 .. Len(F) /\ i \in 1 .. Len(F)
      BY <1>1, <2>1
    <3>2. SubSeq(F, 1, i) = SubSeq(F, 1, i - 1) \o <<F[i]>>
      BY <1>1, <3>1, SubSeqRecursiveSecond
    <3>3. SubSeq(F, 1, i) \o SubSeq(F, i + 1, Len(F)) = SubSeq(F, 1, Len(F))
      <4>1. 1 \in 1 .. Len(F) + 1 /\ i \in 1 - 1 .. Len(F) /\ Len(F) \in i .. Len(F)
        BY <3>1
      <4> QED
        BY <1>1, <4>1, ConcatAdjacentSubSeq
    <3>4. SubSeq(F, 1, Len(F)) = F
      BY <1>1, SubSeqFull
    <3> QED
      BY <3>2, <3>3, <3>4, Zenon
  <2> HIDE DEF left, right, b
  <2>3. one \in Seq(Symbol) /\ Len(one) = 1
    BY <2>1
  <2>4. /\ d \in Seq(Symbol)
        /\ Sel(d) = << >> \/ Sel(d) = Sel(one)
    <3>1. ASSUME NEW x \in NoiseBytes PROVE x \in Symbol /\ x \notin Sums
      BY LineAssumption, PlainOrSum DEF Plain
    <3>2. \A x \in Symbol : Sel(<<x>>) = IF x \in Sums THEN <<x>> ELSE << >>
      BY SelectedOne
    <3>3. CASE d = << >>
      BY <3>3, SelectedEmpty
    <3>4. ASSUME NEW x \in NoiseBytes, d = <<x>> PROVE d \in Seq(Symbol) /\ Sel(d) = << >>
      BY <3>1, <3>2, <3>4
    <3>5. ASSUME NEW x \in NoiseBytes, d = <<x, b>>
          PROVE  d \in Seq(Symbol) /\ Sel(d) = Sel(one)
      <4>1. x \in Symbol /\ x \notin Sums /\ <<x>> \in Seq(Symbol)
        BY <3>1
      <4>2. d = Append(<<x>>, b) /\ one = Append(<< >>, b) /\ << >> \in Seq(Symbol)
        BY <2>1, <3>5, <4>1
      <4>3. Sel(<<x>>) = << >> /\ Sel(<< >>) = << >>
        BY <3>2, <4>1, SelectedEmpty
      <4>4. /\ Selected(Append(<<x>>, b), Sums) = IF b \in Sums THEN Append(Sel(<<x>>), b) ELSE Sel(<<x>>)
            /\ Selected(Append(<< >>, b), Sums) = IF b \in Sums THEN Append(Sel(<< >>), b) ELSE Sel(<< >>)
        BY <2>1, <4>1, <4>2, SelectedAppend
      <4>5. d \in Seq(Symbol)
        BY <2>1, <3>5, <4>1
      <4> QED
        BY <4>2, <4>3, <4>4, <4>5
    <3> QED
      BY <3>3, <3>4, <3>5 DEF Damaged, b
  <2> HIDE DEF one
  <2>5. /\ left \o d \in Seq(Symbol) /\ bytes = (left \o d) \o right
        /\ left \o one \in Seq(Symbol)
    BY <1>3, <2>1, <2>3, <2>4, ConcatProperties DEF left, right
  <2>6. bytes \in Seq(Symbol)
    BY <2>1, <2>5, ConcatProperties
  <2>7. /\ Sel(bytes) = (Sel(left) \o Sel(d)) \o Sel(right)
        /\ (Sel(left) \o Sel(one)) \o Sel(right) = <<Sum(f)>>
    <3>1. ASSUME NEW s \in Seq(Symbol), NEW t \in Seq(Symbol) PROVE Sel(s \o t) = Sel(s) \o Sel(t)
      BY SelectedConcat
    <3> HIDE DEF Sel
    <3>2. Sel(bytes) = Sel(left \o d) \o Sel(right) /\ Sel(left \o d) = Sel(left) \o Sel(d)
      BY <2>1, <2>4, <2>5, <3>1
    <3>3. Sel(F) = Sel(left \o one) \o Sel(right) /\ Sel(left \o one) = Sel(left) \o Sel(one)
      BY <2>1, <2>2, <2>3, <2>5, <3>1
    <3> QED
      BY <1>1, <3>2, <3>3, Zenon
  <2>8. \A s \in Seq(Symbol) : Sel(s) \in Seq(Symbol \cap Sums)
    BY SelectedType
  <2> DEFINE l == Sel(left)
             o == Sel(one)
             r == Sel(right)
  <2>9. l \in Seq(Symbol \cap Sums) /\ o \in Seq(Symbol \cap Sums) /\ r \in Seq(Symbol \cap Sums)
    BY <2>1, <2>3, <2>8
  <2> HIDE DEF l, o, r
  <2>10. l \o r = << >> \/ l \o r = <<Sum(f)>>
    BY <2>7, <2>9, SingleLeft DEF l, o, r
  <2>11. CASE Sel(d) = << >>
    <3>1. l \o << >> = l
      BY <2>9, ConcatEmptySeq
    <3> QED
      BY <2>6, <2>7, <2>10, <2>11, <3>1 DEF l, r
  <2>12. CASE Sel(d) = Sel(one)
    BY <2>6, <2>7, <2>12
  <2> QED
    BY <2>4, <2>11, <2>12
<1> QED
  BY <1>2, <1>3 DEF Variants

----------------------------------------------------------------------------
\* The inductive invariant holds.

\* A frame that was ended can be sent.
LEMMA OutIsSendable ==
    ASSUME OutInv, PostedInv, out # ML!NoFrame
    PROVE  Sendable(out) /\ out \in Frames
<1>1. out \in Frames /\ out.tried \in 0 .. MsgMax /\ out.payload \in Payloads[out.tried]
      /\ out.cap \in Capacities /\ SizeMin + Len(out.payload) <= out.cap /\ out.cnt < CntRange
  BY DEF OutInv
<1>2. out.cnt \in Nat /\ out.payload \in Seq(Plain)
  BY <1>1 DEF Frames
<1>3. out.cnt \in 0 .. (CntRange - 1)
  BY <1>1, <1>2, PartsOfMessages DEF MLP!BoundAssumption
<1>4. out.payload \in Payloads[MsgMax]
  BY <1>1, PayloadsGrow
<1>5. Len(out.payload) <= PayloadSizeMax
  <2>1. out.cap <= SizeMin + PayloadSizeMax
    BY <1>1, PartsOfMessages DEF MLP!CapacityAssumption
  <2>2. SizeMin \in Nat /\ PayloadSizeMax \in Nat
    BY PartsOfMessages DEF MLP!SizeAssumption
  <2> DEFINE n == Len(out.payload)
             c == out.cap
  <2>3. c \in Nat /\ n \in Nat /\ SizeMin + n <= c /\ c <= SizeMin + PayloadSizeMax
    BY <1>1, <1>2, <2>1 DEF Frames
  <2> HIDE DEF n, c
  <2>4. n <= PayloadSizeMax
    BY <2>2, <2>3
  <2> QED
    BY <2>4 DEF n
<1> QED
  BY <1>1, <1>3, <1>4, <1>5 DEF Sendable

\* Another frame posted brings another checksum.
LEMMA SumsOfAppend ==
    ASSUME NEW ps \in Seq(Frames), \A k \in DOMAIN ps : Sendable(ps[k]),
           NEW f \in Frames, Sendable(f)
    PROVE  SumsOf(ps) \in Seq(Sums) /\ SumsOf(Append(ps, f)) = SumsOf(ps) \o <<Sum(f)>>
<1>1. \A k \in 1 .. Len(ps) : Sum(ps[k]) \in Sums
  BY FrameOfIs
<1>2. /\ Append(ps, f) \in Seq(Frames) /\ Len(Append(ps, f)) = Len(ps) + 1
      /\ \A k \in 1 .. Len(ps) : Append(ps, f)[k] = ps[k]
      /\ Append(ps, f)[Len(ps) + 1] = f /\ Len(ps) \in Nat
  OBVIOUS
<1> DEFINE qs == Append(ps, f)
           S(g) == Sum(g)
<1>3. S(f) \in Sums /\ \A k \in 1 .. Len(ps) : S(ps[k]) \in Sums
  BY <1>1, FrameOfIs
<1>4. SumsOf(ps) = [k \in 1 .. Len(ps) |-> S(ps[k])]
      /\ SumsOf(qs) = [k \in 1 .. Len(ps) + 1 |-> S(qs[k])]
  BY <1>2 DEF SumsOf
<1>5. qs \in Seq(Frames) /\ Len(qs) = Len(ps) + 1
      /\ (\A k \in 1 .. Len(ps) : qs[k] = ps[k]) /\ qs[Len(ps) + 1] = f /\ Len(ps) \in Nat
  BY <1>2
<1> HIDE DEF qs, S
<1>6. SumsOf(ps) \in Seq(Sums) /\ Len(SumsOf(ps)) = Len(ps)
  BY <1>3, <1>4, <1>5
<1>7. \A k \in 1 .. Len(ps) + 1 : S(qs[k]) \in Sums
  <2> SUFFICES ASSUME NEW k \in 1 .. Len(ps) + 1 PROVE S(qs[k]) \in Sums
    OBVIOUS
  <2>1. CASE k \in 1 .. Len(ps)
    BY <1>3, <1>5, <2>1
  <2>2. CASE k = Len(ps) + 1
    BY <1>3, <1>5, <2>2
  <2> QED
    BY <1>5, <2>1, <2>2
<1>8. /\ SumsOf(qs) \in Seq(Sums) /\ Len(SumsOf(qs)) = Len(ps) + 1
      /\ \A k \in 1 .. Len(ps) : SumsOf(qs)[k] = S(qs[k])
      /\ SumsOf(qs)[Len(ps) + 1] = S(qs[Len(ps) + 1])
  BY <1>4, <1>5, <1>7
<1>9. \A k \in 1 .. Len(ps) : SumsOf(qs)[k] = SumsOf(ps)[k]
  BY <1>4, <1>5, <1>8
<1>10. SumsOf(qs)[Len(ps) + 1] = S(f)
  BY <1>5, <1>8, Zenon
<1>11. SumsOf(qs) = Append(SumsOf(ps), S(f))
  BY <1>3, <1>6, <1>8, <1>9, <1>10, AppendIs
<1> QED
  BY <1>3, <1>6, <1>11, AppendIsConcat DEF qs, S

\* Nothing is on its way at first.
LEMMA LinkInit ==
    Init => LinkInv
<1> SUFFICES ASSUME Init PROVE LinkInv
  OBVIOUS
<1>1. out = ML!NoFrame /\ begun = 0 /\ posted = << >> /\ line = << >> /\ received = << >>
  BY DEF Init, FB!Init, ML!Init
<1>2. OutInv /\ PostedInv
  BY <1>1, EmptySeq DEF OutInv, PostedInv
<1>3. LineInv
  <2>1. << >> \in Seq(Symbol)
    BY EmptySeq
  <2>2. line \in Seq(Symbol) /\ received \in Seq(Symbol)
    BY <1>1, <2>1, Zenon
  <2>3. << >> \o << >> = << >>
    BY <2>1, ConcatEmptySeq
  <2>4. received \o line = << >>
    BY <1>1, <2>3, Zenon
  <2>5. Selected(received \o line, Sums) = << >>
    BY <2>4, SelectedEmpty, Zenon
  <2>6. SumsOf(<< >>) = << >>
    BY DEF SumsOf
  <2>7. SumsOf(posted) = << >>
    BY <1>1, <2>6, Zenon
  <2> QED
    BY <2>2, <2>5, <2>7, Zenon DEF LineInv
<1> QED
  BY <1>2, <1>3 DEF LinkInv

\* The parts lay messages out alike.
LEMMA LayoutsAgree ==
    ASSUME NEW m
    PROVE  /\ MLP!Built(m) = Msg!Built(m) /\ ML!Built(m) = Msg!Built(m)
           /\ MLP!BuiltSize(m) = ML!BuiltSize(m)
<1>1. MLP!Built(m) = Msg!Built(m) /\ ML!Built(m) = Msg!Built(m)
  BY DEF MLP!Built, MLP!MsgWrite, MLP!Wrapped, MLP!WrappedSize, MLP!MsgHeaderSize,
         MLP!UserDataHeader, MLP!U8, ML!Built, ML!MsgWrite, ML!Wrapped, ML!WrappedSize,
         ML!MsgHeaderSize, ML!UserDataHeader, ML!U8, Msg!Built, Msg!MsgWrite, Msg!Wrapped,
         Msg!WrappedSize, Msg!MsgHeaderSize, Msg!UserDataHeader, Msg!U8
<1>2. MLP!BuiltSize(m) = ML!BuiltSize(m)
  BY DEF MLP!BuiltSize, MLP!WrappedSize, MLP!MsgHeaderSize, MLP!UserDataHeader,
         ML!BuiltSize, ML!WrappedSize, ML!MsgHeaderSize, ML!UserDataHeader
<1> QED
  BY <1>1, <1>2

\* What is built and fits has the size that the sender reckons with.
LEMMA BuiltHasSize ==
    ASSUME NEW m \in Messages, ML!BuiltSize(m) <= PayloadSizeMax
    PROVE  Len(Msg!Built(m)) = ML!BuiltSize(m) /\ Msg!Built(m) \in Seq(Plain)
<1>1. MLP!BuiltSize(m) <= PayloadSizeMax
  BY LayoutsAgree
<1>2. Len(MLP!Built(m)) = MLP!BuiltSize(m)
  BY <1>1, PartsOfMessages, MLP!BuiltType
<1> QED
  BY <1>2, BuiltPlain, LayoutsAgree

\* What was posted are frames.
LEMMA PostedTypes ==
    ASSUME PostedInv
    PROVE  /\ posted \in Seq(Frames) /\ DOMAIN posted = 1 .. Len(posted) /\ Len(posted) \in Nat
           /\ \A k \in DOMAIN posted : posted[k] \in Frames
BY LenProperties, ElementOfSeq DEF PostedInv

\* A new frame can be sent as it is.
LEMMA BeginKeeps ==
    ASSUME OutInv, PostedInv, NEW cap \in Capacities, ML!Begin(cap), UNCHANGED posted
    PROVE  OutInv' /\ PostedInv'
<1>1. begun \in Nat /\ CntRange \in Nat \ {0} /\ begun' = begun + 1
  BY PartsOfMessages DEF ML!Begin, PostedInv, MLP!BoundAssumption
<1> DEFINE cnt == begun % CntRange
<1>2. cnt \in Nat /\ cnt < CntRange
  BY <1>1
<1>3. out' = [cap |-> cap, cnt |-> cnt, payload |-> << >>, msgs |-> << >>, tried |-> 0]
  BY DEF ML!Begin, ML!NewFrame
<1> HIDE DEF cnt
<1>4. /\ out'.cap = cap /\ out'.cnt = cnt /\ out'.payload = << >> /\ out'.tried = 0
      /\ cap \in Nat /\ SizeMin \in Nat /\ SizeMin <= cap /\ Len(<< >>) = 0
  BY <1>3, EmptySeq, PartsOfMessages DEF MLP!SizeAssumption
<1>5. out' \in Frames
  BY <1>2, <1>3, <1>4, EmptySeq DEF Frames
<1>6. MsgMax \in Nat /\ << >> \in Payloads[0]
  BY PayloadsGrow
<1>7. OutInv'
  BY <1>2, <1>4, <1>5, <1>6 DEF OutInv
<1>8. PostedInv'
  BY <1>1 DEF PostedInv
<1> QED
  BY <1>7, <1>8

\* A message that fits makes of a frame that can be sent another.
LEMMA AppendMsgKeeps ==
    ASSUME OutInv, PostedInv, NEW m \in Messages, ML!AppendMsg(m), UNCHANGED posted
    PROVE  OutInv' /\ PostedInv'
<1> DEFINE b == Msg!Built(m)
           n == out.tried
<1>1. /\ out # ML!NoFrame /\ out.tried < MsgMax /\ begun' = begun
      /\ ML!BuiltSize(m) <= out.cap - (SizeMin + Len(out.payload))
      /\ out' = [out EXCEPT !.payload = @ \o b, !.msgs = Append(@, m), !.tried = @ + 1]
  BY LayoutsAgree DEF ML!AppendMsg, ML!FrameBytes
<1> HIDE DEF b
<1>2. /\ out \in Frames /\ n \in 0 .. MsgMax /\ out.payload \in Payloads[n]
      /\ out.cap \in Capacities /\ SizeMin + Len(out.payload) <= out.cap /\ out.cnt < CntRange
      /\ MsgMax \in Nat
  BY <1>1, PayloadsGrow DEF OutInv
<1>3. /\ out'.cap = out.cap /\ out'.cnt = out.cnt /\ out'.payload = out.payload \o b
      /\ out'.msgs = Append(out.msgs, m) /\ out'.tried = n + 1
      /\ out' = [cap |-> out.cap, cnt |-> out.cnt, payload |-> out.payload \o b,
                 msgs |-> Append(out.msgs, m), tried |-> n + 1]
  BY <1>1, <1>2 DEF Frames
<1>4. /\ out.cap \in Nat /\ out.cnt \in Nat /\ out.payload \in Seq(Plain)
      /\ out.msgs \in Seq(Messages) /\ n \in 0 .. (MsgMax - 1)
  BY <1>1, <1>2 DEF Frames
<1>5. SizeMin \in Nat /\ PayloadSizeMax \in Nat /\ out.cap <= SizeMin + PayloadSizeMax
  BY <1>2, PartsOfMessages DEF MLP!SizeAssumption, MLP!CapacityAssumption
<1>6. Len(out.payload) \in Nat /\ b \in Seq(Plain) /\ Len(b) \in Nat
  BY <1>4, BuiltPlain DEF b
<1>7. ML!BuiltSize(m) = Len(b)
  <2> DEFINE c == out.cap
             l == Len(out.payload)
             z == ML!BuiltSize(m)
  <2>1. z \in Int
    <3>1. m.raw \in Seq(0 .. (Radix - 1))
      BY PartsOfMessages DEF MLP!MessageAssumption
    <3>2. Len(m.raw) \in Int
      BY <3>1
    <3> QED
      BY <3>2 DEF ML!BuiltSize, ML!WrappedSize, ML!MsgHeaderSize, ML!UserDataHeader
  <2>2. z <= c - (SizeMin + l) /\ c \in Nat /\ l \in Nat /\ c <= SizeMin + PayloadSizeMax
    BY <1>1, <1>4, <1>5, <1>6
  <2> HIDE DEF c, l, z
  <2>3. z <= PayloadSizeMax
    BY <1>5, <2>1, <2>2
  <2> QED
    BY <2>3, BuiltHasSize DEF z, b
<1>8. /\ out.payload \o b \in Seq(Plain)
      /\ Len(out.payload \o b) = Len(out.payload) + Len(b)
  BY <1>4, <1>6, ConcatProperties
<1>9. SizeMin + Len(out.payload \o b) <= out.cap
  <2> DEFINE c == out.cap
             l == Len(out.payload)
             z == Len(b)
  <2>1. /\ z <= c - (SizeMin + l) /\ c \in Nat /\ l \in Nat /\ z \in Nat
        /\ Len(out.payload \o b) = l + z
    BY <1>1, <1>4, <1>6, <1>7, <1>8
  <2> HIDE DEF c, l, z
  <2>2. SizeMin + (l + z) <= c
    BY <1>5, <2>1
  <2> QED
    BY <2>1, <2>2 DEF c
<1>10. out.payload \o b \in Payloads[n + 1]
  BY <1>2, <1>4, PayloadsGrow DEF b
<1>11. Append(out.msgs, m) \in Seq(Messages) /\ n + 1 \in 0 .. MsgMax /\ n + 1 \in Nat
  BY <1>2, <1>4
<1>12. out' \in Frames
  BY <1>3, <1>4, <1>8, <1>11 DEF Frames
<1>13. OutInv'
  BY <1>1, <1>2, <1>3, <1>9, <1>10, <1>11, <1>12 DEF OutInv
<1>14. PostedInv'
  BY <1>1, <1>3 DEF PostedInv
<1> QED
  BY <1>13, <1>14

\* One that does not fit leaves the frame as it is.
LEMMA AppendFailsKeeps ==
    ASSUME OutInv, PostedInv, NEW m \in Messages, ML!AppendFails(m), UNCHANGED posted
    PROVE  OutInv' /\ PostedInv'
<1>1. /\ out # ML!NoFrame /\ out.tried < MsgMax /\ begun' = begun
      /\ out' = [out EXCEPT !.tried = @ + 1]
  BY DEF ML!AppendFails
<1>2. /\ out \in Frames /\ out.tried \in 0 .. MsgMax /\ out.payload \in Payloads[out.tried]
      /\ out.cap \in Capacities /\ SizeMin + Len(out.payload) <= out.cap /\ out.cnt < CntRange
      /\ MsgMax \in Nat
  BY <1>1, PayloadsGrow DEF OutInv
<1>3. /\ out'.cap = out.cap /\ out'.cnt = out.cnt /\ out'.payload = out.payload
      /\ out'.tried = out.tried + 1 /\ out' \in Frames
  BY <1>1, <1>2 DEF Frames
<1>4. out.tried \in 0 .. (MsgMax - 1) /\ out.tried + 1 \in 0 .. MsgMax
  BY <1>1, <1>2
<1>5. out.payload \in Payloads[out.tried + 1]
  BY <1>2, <1>4, PayloadsGrow
<1>6. OutInv'
  BY <1>1, <1>2, <1>3, <1>4, <1>5 DEF OutInv
<1>7. PostedInv'
  BY <1>1, <1>3 DEF PostedInv
<1> QED
  BY <1>6, <1>7

\* Nothing that is built comes onto the line before End.
LEMMA BuildKeeps ==
    ASSUME OutInv, PostedInv, Build
    PROVE  OutInv' /\ PostedInv'
BY BeginKeeps, AppendMsgKeeps, AppendFailsKeeps DEF Build, channel

\* A frame goes out, and on the line, with its checksum or without.
LEMMA EndOnLine ==
    ASSUME OutInv, PostedInv, End
    PROVE  /\ Sendable(out) /\ out \in Frames
           /\ \E bytes \in Seq(Symbol) :
                 /\ line' = line \o bytes
                 /\ \/ Selected(bytes, Sums) = << >> /\ posted' = posted
                    \/ Selected(bytes, Sums) = <<Sum(out)>> /\ posted' = Append(posted, out)
<1>1. PICK bytes \in Variants(FrameOf(out)) :
          /\ line' = line \o bytes
          /\ posted' = IF Selected(bytes, Sums) = << >> THEN posted ELSE Append(posted, out)
  BY DEF End
<1>2. out # ML!NoFrame
  BY DEF End
<1>3. Sendable(out) /\ out \in Frames
  BY <1>2, OutIsSendable
<1>4. bytes \in Seq(Symbol)
  BY <1>3, VariantSums
<1>5. Selected(bytes, Sums) = << >> \/ Selected(bytes, Sums) = <<Sum(out)>>
  BY <1>3, VariantSums
<1>6. <<Sum(out)>> # << >>
  BY ShortTuples
<1> DEFINE sel == Selected(bytes, Sums)
<1> HIDE DEF sel
<1>7. \/ sel = << >> /\ posted' = posted
      \/ sel = <<Sum(out)>> /\ posted' = Append(posted, out)
  BY <1>1, <1>5, <1>6, Zenon DEF sel
<1> QED
  BY <1>1, <1>3, <1>4, <1>7, Zenon DEF sel

\* Its checksum joins the end of what is on its way, as the frame that of posted.
LEMMA EndKeeps ==
    ASSUME LinkInv, End
    PROVE  LinkInv'
<1>1. /\ out # ML!NoFrame /\ out' = ML!NoFrame /\ begun' = begun /\ received' = received
      /\ OutInv /\ PostedInv /\ LineInv
  BY DEF End, framing, LinkInv
<1>2. Sendable(out) /\ out \in Frames
  BY <1>1, EndOnLine
<1>3. PICK bytes \in Seq(Symbol) :
          /\ line' = line \o bytes
          /\ \/ Selected(bytes, Sums) = << >> /\ posted' = posted
             \/ Selected(bytes, Sums) = <<Sum(out)>> /\ posted' = Append(posted, out)
  BY <1>1, EndOnLine
<1>4. posted \in Seq(Frames) /\ \A k \in DOMAIN posted : Sendable(posted[k])
  BY <1>1 DEF PostedInv
<1>5. SumsOf(posted) \in Seq(Sums) /\ SumsOf(Append(posted, out)) = SumsOf(posted) \o <<Sum(out)>>
  BY <1>2, <1>4, SumsOfAppend
<1> DEFINE sel == Selected(bytes, Sums)
           sums == SumsOf(posted)
<1>6. /\ line \o bytes \in Seq(Symbol)
      /\ Selected(received \o (line \o bytes), Sums) = sums \o sel
  <2>1. line \in Seq(Symbol) /\ received \in Seq(Symbol) /\ Selected(received \o line, Sums) = sums
    BY <1>1 DEF LineInv
  <2> HIDE DEF sums
  <2>2. line \o bytes \in Seq(Symbol) /\ received \o line \in Seq(Symbol)
    <3>1. bytes \in Seq(Symbol) /\ line \in Seq(Symbol) /\ received \in Seq(Symbol)
      BY <1>3, <2>1, Zenon
    <3>2. line \o bytes \in Seq(Symbol)
      BY <3>1, ConcatProperties
    <3>3. received \o line \in Seq(Symbol)
      BY <3>1, ConcatProperties
    <3> QED
      BY <3>2, <3>3
  <2>3. received \o (line \o bytes) = (received \o line) \o bytes
    BY <1>3, <2>1, ConcatAssociative
  <2> DEFINE all == received \o line
  <2>4. all \in Seq(Symbol) /\ Selected(all, Sums) = sums
    BY <2>1, <2>2
  <2> HIDE DEF all
  <2>5. all \in Seq(Symbol) /\ bytes \in Seq(Symbol)
    BY <1>3, <2>4, Zenon
  <2>6. Selected(all \o bytes, Sums) = Selected(all, Sums) \o sel
    BY <2>5, SelectedConcat
  <2>7. received \o (line \o bytes) = all \o bytes
    BY <2>3 DEF all
  <2> QED
    BY <2>2, <2>4, <2>6, <2>7, Zenon
<1>7. sums \o sel = SumsOf(posted')
  <2>1. CASE sel = << >> /\ posted' = posted
    <3>1. sums \o << >> = sums
      BY <1>5, ConcatEmptySeq
    <3> QED
      BY <2>1, <3>1, Zenon
  <2>2. CASE sel = <<Sum(out)>> /\ posted' = Append(posted, out)
    BY <1>5, <2>2, Zenon
  <2> QED
    BY <1>3, <2>1, <2>2
<1>8. LineInv'
  BY <1>1, <1>3, <1>6, <1>7 DEF LineInv
<1>9. OutInv'
  BY <1>1 DEF OutInv
<1>10. PostedInv'
  <2>1. CASE posted' = posted
    BY <1>1, <2>1 DEF PostedInv
  <2>2. CASE posted' = Append(posted, out)
    <3> DEFINE n == Len(posted)
    <3>1. /\ posted' \in Seq(Frames) /\ Len(posted') = n + 1 /\ n \in Nat
          /\ \A k \in 1 .. n : posted'[k] = posted[k]
          /\ posted'[n + 1] = out
          /\ DOMAIN posted = 1 .. n /\ DOMAIN posted' = 1 .. n + 1
      BY <1>2, <1>4, <2>2
    <3> HIDE DEF n
    <3>2. \A k \in 1 .. n + 1 : k \in 1 .. n \/ k = n + 1
      BY <3>1
    <3>3. \A k \in 1 .. n + 1 : Sendable(posted'[k])
      BY <1>2, <1>4, <3>1, <3>2
    <3> QED
      BY <1>1, <3>1, <3>3 DEF PostedInv
  <2> QED
    BY <1>3, <2>1, <2>2
<1> QED
  BY <1>8, <1>9, <1>10 DEF LinkInv

\* Bytes are taken from the line.
LEMMA HandleDataKeeps ==
    ASSUME LinkInv, NEW n \in ChunkSizes, HandleData(n)
    PROVE  LinkInv'
<1> DEFINE a == SubSeq(line, 1, n)
           b == SubSeq(line, n + 1, Len(line))
<1>1. /\ n <= Len(line) /\ received' = received \o a /\ line' = b
      /\ posted' = posted /\ out' = out /\ begun' = begun
  BY DEF HandleData, FB!HandleData, sender
<1>2. line \in Seq(Symbol) /\ received \in Seq(Symbol) /\ OutInv /\ PostedInv
      /\ Selected(received \o line, Sums) = SumsOf(posted)
  BY DEF LinkInv, LineInv
<1>3. n \in Nat
  BY LineAssumption
<1>4. a \in Seq(Symbol) /\ b \in Seq(Symbol) /\ a \o b = line
  <2>1. n \in 0 .. Len(line) /\ line \in Seq(Symbol)
    BY <1>1, <1>2, <1>3, LenProperties
  <2> QED
    BY <2>1, SplitAt
<1> HIDE DEF a, b
<1>5. received \o a \in Seq(Symbol)
  BY <1>2, <1>4, ConcatProperties
<1>6. (received \o a) \o b = received \o line
  <2>1. received \in Seq(Symbol) /\ a \in Seq(Symbol) /\ b \in Seq(Symbol)
    BY <1>2, <1>4
  <2>2. (received \o a) \o b = received \o (a \o b)
    BY <2>1, ConcatAssociative
  <2> QED
    BY <1>4, <2>2, Zenon
<1>7. received' \in Seq(Symbol) /\ line' \in Seq(Symbol)
  BY <1>1, <1>4, <1>5, Zenon
<1>8. received' \o line' = received \o line
  BY <1>1, <1>6, Zenon
<1>9. SumsOf(posted') = SumsOf(posted)
  BY <1>1, Zenon
<1>10. LineInv'
  BY <1>2, <1>7, <1>8, <1>9, Zenon DEF LineInv
<1>11. OutInv'
  BY <1>1, <1>2 DEF OutInv
<1>12. PostedInv'
  BY <1>1, <1>2 DEF PostedInv
<1> QED
  BY <1>10, <1>11, <1>12 DEF LinkInv

\* The other steps touch none of it.
LEMMA OthersKeep ==
    ASSUME LinkInv, UNCHANGED <<posted, line, received, out, begun>>
    PROVE  LinkInv'
<1>1. OutInv'
  BY DEF LinkInv, OutInv
<1>2. PostedInv'
  BY DEF LinkInv, PostedInv
<1>3. LineInv'
  BY DEF LinkInv, LineInv, SumsOf
<1> QED
  BY <1>1, <1>2, <1>3 DEF LinkInv

\* The invariant is inductive.
LEMMA LinkStep ==
    LinkInv /\ [Next]_vars => LinkInv'
<1> SUFFICES ASSUME LinkInv, [Next]_vars PROVE LinkInv'
  OBVIOUS
<1>1. CASE Build
  <2>1. OutInv' /\ PostedInv'
    BY <1>1, BuildKeeps DEF LinkInv
  <2>2. UNCHANGED <<posted, line, received>>
    BY <1>1 DEF Build, channel, framing
  <2>3. LineInv'
    BY <2>2 DEF LinkInv, LineInv, SumsOf
  <2> QED
    BY <2>1, <2>3 DEF LinkInv
<1>2. CASE End
  BY <1>2, EndKeeps
<1>3. ASSUME NEW n \in ChunkSizes, HandleData(n) PROVE LinkInv'
  BY <1>3, HandleDataKeeps
<1>4. CASE FrameStep
  <2>1. UNCHANGED received
    BY <1>4 DEF FrameStep, FB!CopyPiece, FB!SkipByte, FB!Compact, FB!Return
  <2>2. UNCHANGED <<posted, line, out, begun>>
    BY <1>4 DEF FrameStep, channel, sender
  <2> QED
    BY <2>1, <2>2, OthersKeep
<1>5. CASE OnFrame
  <2>1. UNCHANGED received
    BY <1>5 DEF OnFrame, FB!DeliverFrame
  <2>2. UNCHANGED <<posted, line, out, begun>>
    BY <1>5 DEF OnFrame, channel, sender
  <2> QED
    BY <2>1, <2>2, OthersKeep
<1>6. CASE MsgStep
  <2>1. UNCHANGED <<posted, line, received>>
    BY <1>6 DEF MsgStep, channel, framing
  <2>2. UNCHANGED <<out, begun>>
    BY <1>6 DEF MsgStep, ML!OnMsg, ML!EnterWrapper, ML!IgnoreMsg, ML!LeaveWrapper,
                ML!OnFrameEnd, ML!sender
  <2> QED
    BY <2>1, <2>2, OthersKeep
<1>7. CASE UNCHANGED vars
  BY <1>7, OthersKeep DEF vars, channel, framing, sender
<1> QED
  BY <1>1, <1>2, <1>3, <1>4, <1>5, <1>6, <1>7 DEF Next

\* LinkInv always holds: what the frame parser has been given and what is on
\* the line show the checksums of the frames posted, in order and each once.
THEOREM LinkInvariance ==
    Spec => []LinkInv
BY LinkInit, LinkStep, PTL DEF Spec

----------------------------------------------------------------------------
\* The frame parser's part of the link is the frame parser.

\* Both names of its actions stand for the same.
LEMMA FramingAgrees ==
    /\ FB!Init => FBP!Init
    /\ \A chunk : FB!HandleData(chunk) => FBP!HandleData(chunk)
    /\ FB!CopyPiece => FBP!CopyPiece
    /\ FB!SkipByte => FBP!SkipByte
    /\ FB!DeliverFrame => FBP!DeliverFrame
    /\ FB!Compact => FBP!Compact
    /\ FB!Return => FBP!Return
<1>1. FB!Init => FBP!Init
  BY DEF FB!Init, FBP!Init
<1>2. \A chunk : FB!HandleData(chunk) => FBP!HandleData(chunk)
  BY DEF FB!HandleData, FBP!HandleData
<1>3. FB!CopyPiece => FBP!CopyPiece
  BY DEF FB!CopyPiece, FBP!CopyPiece, FB!Lesser, FBP!Lesser
<1> USE DEF FB!HeaderReady, FB!Candidate, FB!Complete, FB!FrameBytes, FB!FrameSize,
            FB!PayloadSize, FB!Front, FB!Available, FB!U16, FB!Position, FB!Copied,
            FBP!HeaderReady, FBP!Candidate, FBP!Complete, FBP!FrameBytes, FBP!FrameSize,
            FBP!PayloadSize, FBP!Front, FBP!Available, FBP!U16, FBP!Position, FBP!Copied
<1>4. FB!SkipByte => FBP!SkipByte
  BY Zenon DEF FB!SkipByte, FBP!SkipByte
<1>5. FB!DeliverFrame => FBP!DeliverFrame
  BY Zenon DEF FB!DeliverFrame, FBP!DeliverFrame
<1>6. FB!Compact => FBP!Compact
  BY Zenon DEF FB!Compact, FBP!Compact
<1>7. FB!Return => FBP!Return
  BY Zenon DEF FB!Return, FBP!Return
<1> QED
  BY <1>1, <1>2, <1>3, <1>4, <1>5, <1>6, <1>7

\* Each step is one of the frame parser or leaves it alone.
LEMMA FramingStep ==
    LinkInv /\ [Next]_vars => [FBP!Next]_(FBP!vars)
<1> SUFFICES ASSUME LinkInv, [Next]_vars PROVE FBP!Next \/ UNCHANGED FBP!vars
  OBVIOUS
<1>1. CASE Build \/ End \/ MsgStep \/ UNCHANGED vars
  <2>1. UNCHANGED framing
    BY <1>1 DEF Build, End, MsgStep, vars
  <2> QED
    BY <2>1 DEF framing, FBP!vars
<1>2. ASSUME NEW n \in ChunkSizes, HandleData(n) PROVE FBP!Next
  <2> DEFINE a == SubSeq(line, 1, n)
  <2>1. /\ n <= Len(line) /\ FB!HandleData(a) /\ Len(received) + Len(a) <= StreamMax
    BY <1>2 DEF HandleData, FB!HandleData
  <2>2. line \in Seq(Symbol) /\ received \in Seq(Symbol) /\ n \in Nat
    BY LineAssumption DEF LinkInv, LineInv
  <2>3. a \in Seq(Symbol) /\ Len(a) = n
    <3>1. n \in 0 .. Len(line) /\ line \in Seq(Symbol)
      BY <2>1, <2>2, LenProperties
    <3> QED
      BY <3>1, SplitAt
  <2> HIDE DEF a
  <2>4. n \in 0 .. StreamMax
    BY <2>1, <2>2, <2>3, PartsOfFrames DEF FBP!BoundAssumption
  <2>5. a \in [1 .. n -> Symbol]
    BY <2>3, LenProperties
  <2>6. a \in FBP!Chunks
    BY <2>4, <2>5 DEF FBP!Chunks
  <2> QED
    BY <2>1, <2>6, FramingAgrees DEF FBP!Next
<1>3. CASE FrameStep
  BY <1>3, FramingAgrees DEF FrameStep, FBP!Next, FBP!Step
<1>4. CASE OnFrame
  BY <1>4, FramingAgrees DEF OnFrame, FBP!Next, FBP!Step
<1> QED
  BY <1>1, <1>2, <1>3, <1>4 DEF Next

\* What is proved of the frame parser holds of it here.
LEMMA FramingIsFrameBuffer ==
    Spec => FBP!SafeSpec
<1>1. Init => FBP!Init
  BY FramingAgrees DEF Init
<1> QED
  BY <1>1, FramingStep, LinkInvariance, PTL DEF Spec, FBP!SafeSpec

----------------------------------------------------------------------------
\* Frames in the stream.

\* Only the last element of a frame is a checksum.
LEMMA FrameElements ==
    ASSUME NEW f, Sendable(f)
    PROVE  LET F == FrameOf(f)
               n == 5 + Len(f.payload)
           IN  /\ F \in Seq(Symbol) /\ Len(F) = n /\ n \in Nat /\ n >= 5 /\ n - 5 = Len(f.payload)
               /\ \A i \in 1 .. n - 1 : F[i] = Content(f)[i] /\ F[i] \in Plain
               /\ F[n] = Sum(f) /\ SubSeq(F, 1, n - 1) = Content(f)
               /\ SubSeq(F, 5, 4 + Len(f.payload)) = f.payload
<1> DEFINE c == Content(f)
           F == FrameOf(f)
           l == Len(f.payload)
<1>1. F = Append(c, Sum(f)) /\ F \in Seq(Symbol) /\ Len(F) = 5 + l /\ Sum(f) \in Sums
  BY FrameOfIs
<1>2. c \in Seq(Plain) /\ Len(c) = 4 + l /\ l \in Nat
  BY ContentIs
<1>3. c \in Seq(Symbol) /\ Sum(f) \in Symbol
  BY <1>1, <1>2, PlainOrSum
<1> HIDE DEF c, F, l
<1>4. /\ \A i \in 1 .. Len(c) : F[i] = c[i]
      /\ F[Len(c) + 1] = Sum(f)
  BY <1>1, <1>3, AppendProperties
<1>5. (5 + l) - 1 = Len(c) /\ 5 + l = Len(c) + 1 /\ 5 + l \in Nat /\ 5 + l >= 5 /\ (5 + l) - 5 = l
  BY <1>2
<1>6. \A i \in 1 .. Len(c) : c[i] \in Plain
  BY <1>2, ElementOfSeq
<1>7. SubSeq(c, 5, Len(c)) = f.payload
  BY ContentIs DEF c
<1>8. SubSeq(F, 1, Len(c)) = c
  <2>1. F = c \o <<Sum(f)>>
    BY <1>1, <1>3, AppendIsConcat
  <2>2. <<Sum(f)>> \in Seq(Symbol)
    BY <1>3
  <2> DEFINE one == <<Sum(f)>>
  <2> HIDE DEF one
  <2>3. SubSeq(c \o one, 1, Len(c)) = c
    BY <1>3, <2>2, ConcatFirst DEF one
  <2> QED
    BY <2>1, <2>3 DEF one
<1>9. SubSeq(F, 5, 4 + l) = SubSeq(c, 5, Len(c))
  <2>1. CASE l = 0
    <3>1. 5 \in Int /\ 4 + l \in Int /\ 4 + l < 5 /\ Len(c) = 4 + l
      BY <1>2, <2>1
    <3>2. SubSeq(F, 5, 4 + l) = << >> /\ SubSeq(c, 5, 4 + l) = << >>
      BY <3>1, SubSeqEmpty
    <3> QED
      BY <3>1, <3>2, Zenon
  <2>2. CASE l # 0
    <3> DEFINE one == <<Sum(f)>>
    <3>1. F = c \o one /\ one \in Seq(Symbol)
      BY <1>1, <1>3, AppendIsConcat
    <3>2. 5 \in 1 .. Len(c) /\ Len(c) \in 1 .. Len(c) /\ Len(c) = 4 + l
      BY <1>2, <2>2
    <3> HIDE DEF one
    <3>3. SubSeq(c \o one, 5, Len(c)) = SubSeq(c, 5, Len(c))
      BY <1>3, <3>1, <3>2, SubSeqOfConcat1
    <3> QED
      BY <3>1, <3>2, <3>3, Zenon
  <2> QED
    BY <2>1, <2>2
<1>10. SubSeq(F, 5, 4 + l) = f.payload
  BY <1>7, <1>9, Zenon
<1> QED
  BY <1>1, <1>4, <1>5, <1>6, <1>8, <1>10 DEF c, F, l

\* The elements of a frame that stands in what was received.
LEMMA StandingElements ==
    ASSUME received \in Seq(Symbol), NEW f, Sendable(f), NEW p \in Nat, StandsAt(f, p)
    PROVE  LET n == 5 + Len(f.payload)
           IN  /\ n \in Nat /\ n >= 5 /\ p + n <= Len(received)
               /\ \A i \in 1 .. n : received[p + i] = FrameOf(f)[i]
               /\ \A i \in 1 .. n - 1 : received[p + i] \in Plain
               /\ received[p + n] = Sum(f)
<1> DEFINE F == FrameOf(f)
           n == 5 + Len(f.payload)
           r == received
<1>1. /\ F \in Seq(Symbol) /\ Len(F) = n /\ n \in Nat /\ n >= 5
      /\ (\A i \in 1 .. n - 1 : F[i] \in Plain) /\ F[n] = Sum(f)
  BY FrameElements
<1>2. p + n <= Len(r) /\ SubSeq(r, p + 1, p + n) = F /\ r \in Seq(Symbol) /\ Len(r) \in Nat
  BY <1>1 DEF StandsAt
<1> HIDE DEF F, n, r
<1>3. \A i \in 1 .. n : r[p + i] = F[i]
  <2>1. /\ p + 1 \in Int /\ p + n \in Int /\ (p + n) - (p + 1) + 1 = n
        /\ \A i \in p + 1 .. p + n : i \in 1 .. Len(r)
        /\ \A i \in 1 .. n : (p + 1) + i - 1 = p + i
    BY <1>1, <1>2
  <2>2. \A i \in p + 1 .. p + n : r[i] \in Symbol
    BY <1>2, <2>1, ElementOfSeq
  <2>3. \A i \in 1 .. (p + n) - (p + 1) + 1 :
            SubSeq(r, p + 1, p + n)[i] = r[(p + 1) + i - 1]
    BY <2>1, <2>2, SubSeqProperties
  <2> QED
    BY <1>2, <2>1, <2>3
<1>4. n \in 1 .. n /\ \A i \in 1 .. n - 1 : i \in 1 .. n
  BY <1>1
<1> QED
  BY <1>1, <1>2, <1>3, <1>4 DEF n, r, F

\* Where a frame that can be sent stands, the parser finds it.
LEMMA FrameStands ==
    ASSUME received \in Seq(Symbol), NEW f, Sendable(f), NEW p \in Nat, StandsAt(f, p)
    PROVE  FBP!FrameAt(received, p)
<1> DEFINE F == FrameOf(f)
           l == Len(f.payload)
           n == 5 + l
           r == received
<1>1. /\ F \in Seq(Symbol) /\ Len(F) = n /\ n \in Nat /\ n >= 5 /\ l = n - 5
      /\ (\A i \in 1 .. n - 1 : F[i] = Content(f)[i]) /\ F[n] = Sum(f)
      /\ SubSeq(F, 1, n - 1) = Content(f)
  BY FrameElements
<1>2. /\ Content(f)[1] = Sof /\ Content(f)[3] + Radix * Content(f)[4] = l
      /\ Content(f) \in Coverable /\ l <= PayloadSizeMax
  BY ContentIs DEF Sendable
<1>3. p + n <= Len(r) /\ SubSeq(r, p + 1, p + n) = F /\ Len(r) \in Nat
  BY <1>1 DEF StandsAt
<1>4. \A i \in 1 .. n : r[p + i] = F[i]
  BY StandingElements
<1> HIDE DEF F, n, l, r
<1>5. r[p + 1] = Sof /\ r[p + 3] + Radix * r[p + 4] = l
  <2>1. /\ 1 \in 1 .. n - 1 /\ 3 \in 1 .. n - 1 /\ 4 \in 1 .. n - 1
        /\ 1 \in 1 .. n /\ 3 \in 1 .. n /\ 4 \in 1 .. n
    BY <1>1
  <2>2. /\ r[p + 1] = Content(f)[1] /\ r[p + 3] = Content(f)[3] /\ r[p + 4] = Content(f)[4]
    BY <1>1, <1>4, <2>1
  <2> QED
    BY <1>2, <2>2
<1>6. FBP!PayloadSizeAt(r, p) = l
  <2>1. p + PayloadSizeOffset + 1 = p + 3 /\ p + PayloadSizeOffset + 2 = p + 4
    BY FormatAssumption
  <2> QED
    BY <1>5, <2>1 DEF FBP!PayloadSizeAt, FBP!U16
<1>7. FBP!FrameSizeAt(r, p) = n
  BY <1>6, FormatAssumption DEF FBP!FrameSizeAt, n
<1>8. FBP!HeaderAt(r, p)
  BY <1>1, <1>3, FormatAssumption DEF FBP!HeaderAt
<1>9. FBP!CandidateAt(r, p)
  BY <1>2, <1>5, <1>6 DEF FBP!CandidateAt
<1>10. FBP!CompleteAt(r, p) /\ FBP!BytesAt(r, p) = F
  BY <1>3, <1>7 DEF FBP!CompleteAt, FBP!BytesAt
<1>11. CrcVerify(F)
  <2>1. F[n] = Checksum(Content(f))
    BY <1>1 DEF Sum
  <2>2. SubSeq(F, 1, Len(F) - 1) = Content(f) /\ F[Len(F)] = Checksum(Content(f))
    BY <1>1, <2>1
  <2> QED
    BY <1>2, <2>2 DEF CrcVerify
<1> QED
  BY <1>8, <1>9, <1>10, <1>11 DEF FBP!FrameAt, r

\* A sequence with a right checksum is a frame that can be sent.
LEMMA VerifiedIsSendable ==
    ASSUME NEW bytes \in Seq(Symbol), Len(bytes) >= 5, CrcVerify(bytes)
    PROVE  \E g : Sendable(g) /\ FrameOf(g) = bytes
<1> DEFINE n == Len(bytes)
           c == SubSeq(bytes, 1, n - 1)
<1>1. c \in Coverable /\ bytes[n] = Checksum(c)
  BY DEF CrcVerify
<1>2. PICK g : Sendable(g) /\ c = Content(g)
  BY <1>1, CoverableIs
<1>3. bytes[n] = Sum(g) /\ FrameOf(g) = Append(Content(g), Sum(g)) /\ Sum(g) \in Sums
  BY <1>1, <1>2, FrameOfIs DEF Sum
<1>4. n \in Nat /\ 1 \in 1 .. n /\ n \in 1 .. n
  BY LenProperties
<1>5. bytes = c \o <<bytes[n]>>
  <2>1. SubSeq(bytes, 1, n) = SubSeq(bytes, 1, n - 1) \o <<bytes[n]>>
    BY <1>4, SubSeqRecursiveSecond
  <2> QED
    BY <2>1, SubSeqFull
<1> HIDE DEF c, n
<1>6. Content(g) \in Seq(Symbol) /\ Sum(g) \in Symbol
  BY <1>2, <1>3, ContentIs, PlainOrSum
<1>7. Append(Content(g), Sum(g)) = Content(g) \o <<Sum(g)>>
  BY <1>6, AppendIsConcat
<1>8. FrameOf(g) = bytes
  BY <1>2, <1>3, <1>5, <1>7, Zenon
<1> QED
  BY <1>2, <1>8

\* So is what the parser takes for a frame.
LEMMA FoundIsSendable ==
    ASSUME received \in Seq(Symbol), NEW q \in Nat, FBP!FrameAt(received, q)
    PROVE  \E g : /\ Sendable(g) /\ StandsAt(g, q)
                  /\ FBP!BytesAt(received, q) = FrameOf(g)
                  /\ FBP!FrameSizeAt(received, q) = Len(FrameOf(g))
<1> DEFINE n == FBP!FrameSizeAt(received, q)
           bytes == FBP!BytesAt(received, q)
<1>1. /\ FBP!HeaderAt(received, q) /\ q + n <= Len(received) /\ CrcVerify(bytes)
      /\ bytes = SubSeq(received, q + 1, q + n)
  BY DEF FBP!FrameAt, FBP!CompleteAt, FBP!BytesAt
<1>2. n \in Nat /\ n >= 5
  BY <1>1, FormatAssumption, PartsOfFrames, FBP!FrameSizeAtType
<1> HIDE DEF n, bytes
<1>3. bytes \in Seq(Symbol) /\ Len(bytes) = n
  <2>1. /\ q + 1 \in Int /\ q + n \in Int /\ q + 1 <= q + n /\ (q + n) - (q + 1) + 1 = n
        /\ \A i \in q + 1 .. q + n : i \in 1 .. Len(received)
    BY <1>1, <1>2
  <2>2. \A i \in q + 1 .. q + n : received[i] \in Symbol
    BY <2>1, ElementOfSeq
  <2>3. /\ SubSeq(received, q + 1, q + n) \in Seq(Symbol)
        /\ Len(SubSeq(received, q + 1, q + n))
             = IF q + 1 <= q + n THEN (q + n) - (q + 1) + 1 ELSE 0
    BY <2>1, <2>2, SubSeqProperties
  <2> QED
    BY <1>1, <2>1, <2>3
<1>4. PICK g : Sendable(g) /\ FrameOf(g) = bytes
  BY <1>1, <1>2, <1>3, VerifiedIsSendable
<1>5. StandsAt(g, q)
  BY <1>1, <1>3, <1>4 DEF StandsAt
<1> QED
  BY <1>3, <1>4, <1>5 DEF bytes, n

\* Two frames in the stream do not overlap.
LEMMA OverlapIsSame ==
    ASSUME received \in Seq(Symbol),
           NEW f, Sendable(f), NEW p \in Nat, StandsAt(f, p),
           NEW g, Sendable(g), NEW q \in Nat, StandsAt(g, q),
           q <= p, p < q + Len(FrameOf(g))
    PROVE  q = p
<1> DEFINE n == 5 + Len(f.payload)
           m == 5 + Len(g.payload)
<1>1. /\ n \in Nat /\ n >= 5
      /\ (\A i \in 1 .. n - 1 : received[p + i] \in Plain) /\ received[p + n] = Sum(f)
  BY StandingElements
<1>2. /\ m \in Nat /\ m >= 5
      /\ (\A i \in 1 .. m - 1 : received[q + i] \in Plain) /\ received[q + m] = Sum(g)
  BY StandingElements
<1>3. p < q + m
  BY FrameElements
<1>4. Sum(f) \in Sums /\ Sum(g) \in Sums /\ Plain \cap Sums = {}
  BY FrameOfIs, PlainOrSum
<1>5. Sum(f) = Sum(g) => n = m
  BY SumsDiffer
<1> HIDE DEF n, m
<1>6. CASE q + m < p + n
  <2> DEFINE i == (q + m) - p
  <2>1. i \in 1 .. n - 1 /\ p + i = q + m
    BY <1>1, <1>2, <1>3, <1>6
  <2>2. received[p + i] \in Plain /\ received[p + i] = Sum(g)
    BY <1>1, <1>2, <2>1, Zenon
  <2> QED
    BY <1>4, <2>2
<1>7. CASE q + m > p + n
  <2> DEFINE i == (p + n) - q
  <2>1. i \in 1 .. m - 1 /\ q + i = p + n
    BY <1>1, <1>2, <1>3, <1>7
  <2>2. received[q + i] \in Plain /\ received[q + i] = Sum(f)
    BY <1>1, <1>2, <2>1, Zenon
  <2> QED
    BY <1>4, <2>2
<1>8. CASE q + m = p + n
  <2>1. Sum(f) = Sum(g)
    BY <1>1, <1>2, <1>8, Zenon
  <2> QED
    BY <1>1, <1>2, <1>5, <1>8, <2>1
<1>9. q + m < p + n \/ q + m > p + n \/ q + m = p + n
  BY <1>1, <1>2
<1> QED
  BY <1>6, <1>7, <1>8, <1>9, Zenon

\* UndamagedIsParsed: damage costs the frames it hits and no other.  A frame
\* that arrives undamaged is handed over when as many bytes as the buffer
\* holds have come since its first, whatever surrounds it: what the parser
\* cuts out of the damaged bytes before it never reaches into it.
THEOREM UndamagedParsed ==
    Spec => []UndamagedIsParsed
<1>1. ASSUME LinkInv, FBP!TypeOK, FBP!DeliveredFromStream, FBP!DeliveredWithinABuffer
      PROVE  UndamagedIsParsed
  <2> SUFFICES ASSUME pc = "idle", NEW k \in DOMAIN posted,
                      NEW p \in 0 .. (Len(received) - FrameSizeMax), StandsAt(posted[k], p)
               PROVE  \E j \in DOMAIN frames : frames[j].at = p
    BY DEF UndamagedIsParsed
  <2>1. received \in Seq(Symbol) /\ Sendable(posted[k]) /\ p \in Nat
    BY <1>1 DEF LinkInv, LineInv, PostedInv
  <2>2. FBP!FrameAt(received, p)
    BY <2>1, FrameStands
  <2>3. PICK j \in DOMAIN frames : /\ frames[j].at <= p
                                   /\ p < frames[j].at + Len(frames[j].bytes)
    BY <1>1, <2>2 DEF FBP!DeliveredWithinABuffer, FBP!Covered
  <2> DEFINE q == frames[j].at
  <2>4. q \in Nat
    BY <1>1, PartsOfFrames, FBP!FrameTypes
  <2>5. FBP!FrameAt(received, q) /\ frames[j].bytes = FBP!BytesAt(received, q)
    BY <1>1 DEF FBP!DeliveredFromStream
  <2> HIDE DEF q
  <2>6. PICK g : Sendable(g) /\ StandsAt(g, q) /\ FBP!BytesAt(received, q) = FrameOf(g)
    BY <2>1, <2>4, <2>5, FoundIsSendable
  <2>7. q <= p /\ p < q + Len(FrameOf(g))
    BY <2>3, <2>5, <2>6 DEF q
  <2>8. q = p
    BY <2>1, <2>4, <2>6, <2>7, OverlapIsSame
  <2> QED
    BY <2>8 DEF q
<1>2. FBP!SafeSpec => [](FBP!TypeOK /\ FBP!DeliveredFromStream /\ FBP!DeliveredWithinABuffer)
  BY PartsOfFrames, FBP!TypeCorrect, FBP!DeliveryCorrect, FBP!DelayBounded, PTL
<1> QED
  BY <1>1, <1>2, LinkInvariance, FramingIsFrameBuffer, PTL

----------------------------------------------------------------------------
\* The queue of frames that the bytes amount to.

\* What of the received bytes the frame parser has still to go through.
Rest == SubSeq(received, FBP!Position + 1, Len(received))

\* How many frames are still on their way.
Coming == Len(Selected(Ahead, Sums))

\* Both names of what the buffer shows stand for the same.
LEMMA ShownAgrees ==
    /\ FB!Position = FBP!Position /\ FB!Position' = FBP!Position'
    /\ FB!FrameBytes = FBP!FrameBytes /\ FB!PayloadSize = FBP!PayloadSize
BY DEF FB!Position, FB!Copied, FB!Available, FB!FrameBytes, FB!FrameSize, FB!PayloadSize,
       FB!Front, FB!U16, FBP!Position, FBP!Copied, FBP!Available, FBP!FrameBytes,
       FBP!FrameSize, FBP!PayloadSize, FBP!Front, FBP!U16

\* Its cursor stands in the stream.
LEMMA CursorInStream ==
    ASSUME FBP!IInv
    PROVE  FBP!Position \in 0 .. Len(received) /\ received \in Seq(Symbol)
<1>1. FBP!TypeOK /\ FBP!CallInv
  BY DEF FBP!IInv
<1>2. /\ FBP!Available \in Nat /\ FBP!Copied \in Nat /\ FBP!Position \in Nat
      /\ FBP!Copied <= Len(received) /\ FBP!Position = FBP!Copied - FBP!Available
  BY <1>1, PartsOfFrames, FBP!CursorTypes
<1>3. received \in Seq(Symbol)
  BY <1>1 DEF FBP!TypeOK
<1>4. Len(received) \in Nat
  BY <1>3
<1> QED
  BY <1>2, <1>3, <1>4

\* Ahead and Wire, as the names above have it.
LEMMA AheadIs ==
    /\ Ahead = Rest \o line /\ Ahead' = Rest' \o line'
    /\ Wire = Ending(posted, Coming) /\ Wire' = Ending(posted', Coming')
<1>1. Ahead = Rest \o line /\ Ahead' = Rest' \o line'
  BY ShownAgrees DEF Ahead, Rest
<1>2. Wire = Ending(posted, Coming) /\ Wire' = Ending(posted', Coming')
  BY DEF Wire, Ending, Coming
<1> QED
  BY <1>1, <1>2

\* As many frames were posted at least as are on their way, and the first of
\* these is the one whose checksum comes first.
LEMMA ComingIs ==
    ASSUME LinkInv, FBP!IInv
    PROVE  /\ Rest \in Seq(Symbol) /\ line \in Seq(Symbol) /\ Ahead \in Seq(Symbol)
           /\ posted \in Seq(Frames) /\ Coming \in 0 .. Len(posted)
           /\ Coming > 0 => Selected(Ahead, Sums)[1] = Sum(posted[Len(posted) - Coming + 1])
<1> DEFINE done == SubSeq(received, 1, FBP!Position)
           Sel(s) == Selected(s, Sums)
           ahead == Rest \o line
           a == Sel(done)
           b == Sel(ahead)
           ss == SumsOf(posted)
<1>1. /\ line \in Seq(Symbol) /\ posted \in Seq(Frames)
      /\ Sel(received \o line) = ss
  BY DEF LinkInv, LineInv, PostedInv
<1>2. done \in Seq(Symbol) /\ Rest \in Seq(Symbol) /\ done \o Rest = received
  BY CursorInStream, SplitAt DEF Rest
<1> HIDE DEF done
<1>3. ahead \in Seq(Symbol)
  BY <1>1, <1>2, ConcatProperties
<1>4. received \o line = done \o ahead
  <2>1. done \in Seq(Symbol) /\ Rest \in Seq(Symbol) /\ line \in Seq(Symbol)
    BY <1>1, <1>2
  <2>2. (done \o Rest) \o line = done \o (Rest \o line)
    BY <2>1, ConcatAssociative
  <2> QED
    BY <1>2, <2>2, Zenon DEF ahead
<1> HIDE DEF ahead
<1>5. Sel(done \o ahead) = a \o b
  BY <1>2, <1>3, SelectedConcat
<1>6. a \in Seq(Symbol \cap Sums) /\ b \in Seq(Symbol \cap Sums)
  BY <1>2, <1>3, SelectedType
<1>7. ss = a \o b
  BY <1>1, <1>4, <1>5, Zenon
<1>8. Ahead = ahead /\ Coming = Len(b)
  BY AheadIs DEF Coming, ahead
<1> HIDE DEF a, b
<1>9. /\ Len(a \o b) = Len(a) + Len(b)
      /\ \A i \in 1 .. Len(a) + Len(b) :
            (a \o b)[i] = IF i <= Len(a) THEN a[i] ELSE b[i - Len(a)]
      /\ Len(a) \in Nat /\ Len(b) \in Nat
  <2>1. Len(a) \in Nat /\ Len(b) \in Nat
    BY <1>6
  <2> QED
    BY <1>6, <2>1, ConcatProperties
<1> DEFINE n == Len(posted)
<1>10. n \in Nat /\ DOMAIN ss = 1 .. n /\ \A k \in 1 .. n : ss[k] = Sum(posted[k])
  BY <1>1 DEF SumsOf
<1> HIDE DEF ss
<1>11. n = Len(a) + Len(b)
  <2>1. a \o b \in Seq(Symbol \cap Sums)
    BY <1>6, ConcatProperties
  <2> DEFINE u == a \o b
  <2>2. DOMAIN u = 1 .. Len(u) /\ Len(u) \in Nat
    <3> HIDE DEF u
    <3> QED
      BY <2>1, LenProperties DEF u
  <2> HIDE DEF n
  <2>3. 1 .. Len(u) = 1 .. n
    BY <1>7, <1>10, <2>2
  <2>4. Len(u) = n
    <3> DEFINE l == Len(u)
    <3>1. l \in Nat /\ n \in Nat /\ 1 .. l = 1 .. n
      BY <1>10, <2>2, <2>3
    <3> HIDE DEF l
    <3>2. ~ (l < n)
      <4>1. l < n => n \in 1 .. n /\ n \notin 1 .. l
        BY <3>1
      <4> QED
        BY <3>1, <4>1
    <3>3. ~ (n < l)
      <4>1. n < l => l \in 1 .. l /\ l \notin 1 .. n
        BY <3>1
      <4> QED
        BY <3>1, <4>1
    <3> QED
      BY <3>1, <3>2, <3>3 DEF l
  <2> QED
    BY <1>9, <2>4
<1> HIDE DEF n
<1>12. ASSUME Len(b) > 0 PROVE b[1] = Sum(posted[n - Len(b) + 1])
  <2> DEFINE i == Len(a) + 1
  <2>1. /\ i \in 1 .. Len(a) + Len(b) /\ ~ (i <= Len(a)) /\ i - Len(a) = 1 /\ i \in 1 .. n
        /\ n - Len(b) + 1 = i
    BY <1>9, <1>11, <1>12
  <2> HIDE DEF i
  <2>2. (a \o b)[i] = b[1]
    BY <1>9, <2>1
  <2>3. ss[i] = Sum(posted[i])
    BY <1>10, <2>1
  <2> QED
    BY <1>7, <2>1, <2>2, <2>3, Zenon
<1>13. Coming \in 0 .. n
  BY <1>8, <1>9, <1>11
<1>14. Coming > 0 => Selected(Ahead, Sums)[1] = Sum(posted[n - Coming + 1])
  BY <1>8, <1>12 DEF b
<1> QED
  BY <1>1, <1>2, <1>3, <1>8, <1>13, <1>14 DEF n

\* While the same is ahead and nothing is posted, the queue stays.
LEMMA WireStays ==
    ASSUME UNCHANGED <<posted, Ahead>>
    PROVE  Wire' = Wire
BY DEF Wire

\* Bytes that reach the frame parser are no longer on the line, ...
LEMMA HandleDataRefines ==
    ASSUME LinkInv, FBP!IInv, NEW n \in ChunkSizes, HandleData(n)
    PROVE  UNCHANGED ML!vars
<1> DEFINE a == SubSeq(line, 1, n)
           b == SubSeq(line, n + 1, Len(line))
<1>1. /\ n <= Len(line) /\ FB!HandleData(a) /\ received' = received \o a /\ line' = b
      /\ posted' = posted /\ UNCHANGED <<sender, parser>>
  BY DEF HandleData, FB!HandleData
<1>2. Rest \in Seq(Symbol) /\ line \in Seq(Symbol)
  BY ComingIs
<1>3. a \in Seq(Symbol) /\ b \in Seq(Symbol) /\ a \o b = line
  <2>1. n \in 0 .. Len(line)
    BY <1>1, <1>2, LineAssumption, LenProperties
  <2> QED
    BY <1>2, <2>1, SplitAt
<1> HIDE DEF a, b
<1>4. FBP!Position' = FBP!Position
  BY <1>1, <1>3, FramingAgrees, PartsOfFrames, FBP!PositionStays
<1>5. Rest' = Rest \o a
  <2>1. SubSeq(received \o a, FBP!Position + 1, Len(received \o a)) = Rest \o a
    BY <1>3, CursorInStream, RestGrows DEF Rest
  <2> QED
    BY <1>1, <1>4, <2>1 DEF Rest
<1>6. (Rest \o a) \o b = Rest \o (a \o b)
  <2>1. Rest \in Seq(Symbol) /\ a \in Seq(Symbol) /\ b \in Seq(Symbol)
    BY <1>2, <1>3
  <2> QED
    BY <2>1, ConcatAssociative
<1>7. Ahead' = Ahead
  BY <1>1, <1>3, <1>5, <1>6, AheadIs, Zenon
<1> QED
  BY <1>1, <1>7, WireStays DEF sender, parser, ML!vars

\* ... a byte passed was none of a frame, or the last of one that the parser
\* does not find, ...
LEMMA SkipByteRefines ==
    ASSUME LinkInv, FBP!IInv, FB!SkipByte, UNCHANGED <<channel, sender, parser>>
    PROVE  ML!Lose \/ UNCHANGED ML!vars
<1> DEFINE p == FBP!Position
           e == received[p + 1]
           one == <<e>>
<1>1. p' = p + 1 /\ p + 1 <= Len(received) /\ received' = received
  BY FramingAgrees, PartsOfFrames, FBP!PositionMoves DEF FB!SkipByte
<1>2. p \in 0 .. Len(received) /\ received \in Seq(Symbol) /\ Len(received) \in Nat
  BY CursorInStream, LenProperties
<1>3. posted' = posted /\ line' = line /\ line \in Seq(Symbol) /\ posted \in Seq(Frames)
  BY ComingIs DEF channel
<1> HIDE DEF p
<1>4. p + 1 \in 1 .. Len(received) /\ Len(received) \in p + 1 .. Len(received) /\ e \in Symbol
  BY <1>1, <1>2
<1>5. Rest = one \o Rest'
  <2>1. SubSeq(received, p + 1, Len(received)) = one \o SubSeq(received, (p + 1) + 1, Len(received))
    BY <1>2, <1>4, SubSeqRecursiveFirst
  <2> QED
    BY <1>1, <2>1 DEF Rest, p
<1>6. one \in Seq(Symbol)
  BY <1>4
<1>7. Rest' \in Seq(Symbol)
  <2>1. p + 1 \in 0 .. Len(received)
    BY <1>1, <1>2
  <2>2. SubSeq(received, (p + 1) + 1, Len(received)) \in Seq(Symbol)
    BY <1>2, <2>1, SplitAt
  <2> QED
    BY <1>1, <2>2 DEF Rest, p
<1>8. Selected(one, Sums) = IF e \in Sums THEN one ELSE << >>
  BY <1>4, SelectedOne
<1>9. Ahead' \in Seq(Symbol) /\ Ahead = one \o Ahead'
  <2> DEFINE rest == Rest'
  <2>1. rest \in Seq(Symbol) /\ Rest = one \o rest
    BY <1>5, <1>7
  <2> HIDE DEF rest, one
  <2>2. rest \o line \in Seq(Symbol)
    BY <1>3, <2>1, ConcatProperties
  <2>3. (one \o rest) \o line = one \o (rest \o line)
    BY <1>3, <1>6, <2>1, ConcatAssociative
  <2>4. Ahead' = rest \o line /\ Ahead = Rest \o line
    BY <1>3, AheadIs DEF rest
  <2> QED
    BY <2>1, <2>2, <2>3, <2>4, Zenon
<1>10. Selected(Ahead, Sums) = Selected(one, Sums) \o Selected(Ahead', Sums)
  <2> DEFINE ahead == Ahead'
  <2>1. ahead \in Seq(Symbol) /\ Ahead = one \o ahead
    BY <1>9
  <2> HIDE DEF ahead, one
  <2>2. Selected(one \o ahead, Sums) = Selected(one, Sums) \o Selected(ahead, Sums)
    BY <1>6, <2>1, SelectedConcat
  <2> QED
    BY <2>1, <2>2 DEF ahead
<1> DEFINE sel == Selected(Ahead', Sums)
<1>11. sel \in Seq(Symbol \cap Sums)
  <2> DEFINE ahead == Ahead'
  <2> HIDE DEF ahead
  <2> QED
    BY <1>9, SelectedType DEF ahead
<1>12. Coming' = Len(sel)
  BY DEF Coming
<1> HIDE DEF sel
<1>13. CASE e \notin Sums
  <2>1. Selected(one, Sums) = << >>
    BY <1>8, <1>13
  <2>2. << >> \o sel = sel
    BY <1>11, ConcatEmptySeq
  <2>3. Coming' = Coming
    BY <1>10, <1>12, <2>1, <2>2 DEF Coming, sel
  <2>4. Wire' = Wire
    BY <1>3, <2>3, AheadIs
  <2> QED
    BY <2>4 DEF sender, parser, ML!vars
<1>14. CASE e \in Sums
  <2>1. Selected(Ahead, Sums) = one \o sel
    BY <1>8, <1>10, <1>14 DEF sel
  <2>2. Len(one \o sel) = 1 + Len(sel) /\ Len(sel) \in Nat
    <3>1. one \in Seq(Symbol \cap Sums) /\ Len(one) = 1
      BY <1>4, <1>14
    <3>2. Len(sel) \in Nat
      BY <1>11
    <3> HIDE DEF one
    <3>3. Len(one \o sel) = Len(one) + Len(sel)
      BY <1>11, <3>1, ConcatProperties
    <3> QED
      BY <3>1, <3>2, <3>3
  <2>3. Coming = Coming' + 1 /\ Coming' \in Nat
    BY <1>12, <2>1, <2>2 DEF Coming
  <2>4. Coming \in 1 .. Len(posted) /\ Coming - 1 = Coming'
    <3> DEFINE c == Coming
               d == Coming'
    <3>1. c = d + 1 /\ d \in Nat /\ c \in 0 .. Len(posted)
      BY <2>3, ComingIs
    <3> HIDE DEF c, d
    <3>2. c \in 1 .. Len(posted) /\ c - 1 = d
      BY <1>3, <3>1, LenProperties
    <3> QED
      BY <3>2 DEF c, d
  <2>5. Wire # << >> /\ Wire' = Tail(Wire)
    <3> DEFINE c == Coming
               d == Coming'
    <3>1. c \in 1 .. Len(posted) /\ c - 1 = d
      BY <2>4
    <3>2. Wire = Ending(posted, c) /\ Wire' = Ending(posted, d)
      BY <1>3, AheadIs
    <3> HIDE DEF c, d
    <3>3. Ending(posted, c) # << >> /\ Tail(Ending(posted, c)) = Ending(posted, c - 1)
      BY <1>3, <3>1, EndingTail
    <3> QED
      BY <3>1, <3>2, <3>3, Zenon
  <2> QED
    BY <2>5 DEF ML!Lose, ML!sender, ML!parser, sender, parser
<1> QED
  BY <1>13, <1>14

\* ... and what else it does to its buffer is no step of the queue's.
LEMMA FrameStepRefines ==
    ASSUME LinkInv, FBP!IInv, FrameStep
    PROVE  ML!Lose \/ UNCHANGED ML!vars
<1>1. UNCHANGED <<channel, sender, parser>> /\ posted' = posted /\ line' = line
  BY DEF FrameStep, channel
<1>2. CASE FB!SkipByte
  BY <1>1, <1>2, SkipByteRefines
<1>3. CASE FB!CopyPiece \/ FB!Compact \/ FB!Return
  <2>1. FBP!Position' = FBP!Position
    BY <1>3, FramingAgrees, PartsOfFrames, FBP!PositionStays
  <2>2. received' = received
    BY <1>3 DEF FB!CopyPiece, FB!Compact, FB!Return
  <2>3. Rest' = Rest
    BY <2>1, <2>2 DEF Rest
  <2>4. Ahead' = Ahead
    BY <1>1, <2>3, AheadIs
  <2> QED
    BY <1>1, <2>4, WireStays DEF sender, parser, ML!vars
<1> QED
  BY <1>2, <1>3 DEF FrameStep

\* What the frame parser hands over is the first frame in the queue.
LEMMA DeliveredIsFirst ==
    ASSUME LinkInv, FBP!IInv, FB!DeliverFrame, UNCHANGED <<posted, line>>
    PROVE  LET f == posted[Len(posted) - Coming + 1]
           IN  /\ Len(posted) - Coming + 1 \in DOMAIN posted
               /\ Coming \in 1 .. Len(posted) /\ Coming' = Coming - 1
               /\ FB!FrameBytes = FrameOf(f) /\ FB!PayloadSize = Len(f.payload)
<1> DEFINE p == FBP!Position
           F == FBP!FrameBytes
           n == FBP!FrameSize
<1>1. /\ p' = p + n /\ FBP!FrameAt(received, p) /\ F = FBP!BytesAt(received, p)
      /\ n = FBP!FrameSizeAt(received, p) /\ received' = received
  BY FramingAgrees, PartsOfFrames, FBP!PositionMoves DEF FB!DeliverFrame
<1>2. p \in 0 .. Len(received) /\ p \in Nat /\ received \in Seq(Symbol) /\ Len(received) \in Nat
  BY CursorInStream, LenProperties
<1>3. posted' = posted /\ line' = line /\ line \in Seq(Symbol) /\ posted \in Seq(Frames)
  BY ComingIs
<1>4. PICK g : /\ Sendable(g) /\ StandsAt(g, p) /\ FBP!BytesAt(received, p) = FrameOf(g)
               /\ FBP!FrameSizeAt(received, p) = Len(FrameOf(g))
  BY <1>1, <1>2, FoundIsSendable
<1>5. /\ F = FrameOf(g) /\ n = Len(FrameOf(g)) /\ F \in Seq(Symbol) /\ n \in Nat /\ n >= 5
      /\ F[n] = Sum(g) /\ n = 5 + Len(g.payload) /\ Len(g.payload) \in Nat
      /\ Selected(F, Sums) = <<Sum(g)>> /\ Sum(g) \in Sums
  BY <1>1, <1>4, FrameElements, FrameOfIs, ContentIs
<1>6. p + n <= Len(received) /\ SubSeq(received, p + 1, p + n) = F
  BY <1>4, <1>5 DEF StandsAt
<1> HIDE DEF p, F, n
<1> DEFINE rest == SubSeq(received, (p + n) + 1, Len(received))
           ahead == rest \o line
<1>7. Rest = F \o rest /\ rest \in Seq(Symbol)
  <2>1. /\ p + 1 \in 1 .. Len(received) + 1 /\ p + n \in (p + 1) - 1 .. Len(received)
        /\ Len(received) \in p + n .. Len(received) /\ p + n \in 0 .. Len(received)
    BY <1>2, <1>5, <1>6
  <2>2. SubSeq(received, p + 1, p + n) \o SubSeq(received, (p + n) + 1, Len(received))
          = SubSeq(received, p + 1, Len(received))
    BY <1>2, <2>1, ConcatAdjacentSubSeq
  <2>3. rest \in Seq(Symbol)
    BY <1>2, <2>1, SplitAt
  <2> QED
    BY <1>6, <2>2, <2>3 DEF Rest, p
<1>8. Rest' = rest
  BY <1>1 DEF Rest, p
<1> HIDE DEF rest
<1>9. Ahead' = ahead /\ Ahead = F \o ahead /\ ahead \in Seq(Symbol)
  <2>1. Ahead' = rest \o line
    BY <1>3, <1>8, AheadIs
  <2>2. (F \o rest) \o line = F \o (rest \o line)
    <3>1. F \in Seq(Symbol) /\ rest \in Seq(Symbol) /\ line \in Seq(Symbol)
      BY <1>3, <1>5, <1>7
    <3> QED
      BY <3>1, ConcatAssociative
  <2>3. Ahead = F \o (rest \o line)
    BY <1>7, <2>2, AheadIs, Zenon
  <2>4. rest \o line \in Seq(Symbol)
    BY <1>3, <1>7, ConcatProperties
  <2> QED
    BY <2>1, <2>3, <2>4
<1> HIDE DEF ahead
<1> DEFINE sel == Selected(ahead, Sums)
           one == <<Sum(g)>>
<1>10. Selected(Ahead, Sums) = one \o sel
  <2>1. F \in Seq(Symbol) /\ ahead \in Seq(Symbol)
    BY <1>5, <1>9
  <2>2. Selected(F \o ahead, Sums) = Selected(F, Sums) \o Selected(ahead, Sums)
    BY <2>1, SelectedConcat
  <2> QED
    BY <1>5, <1>9, <2>2, Zenon
<1>11. sel \in Seq(Symbol \cap Sums)
  BY <1>9, SelectedType
<1>12. Coming = Len(one \o sel) /\ Coming' = Len(sel)
  BY <1>9, <1>10 DEF Coming
<1> HIDE DEF sel
<1>13. Len(one \o sel) = Len(sel) + 1 /\ (one \o sel)[1] = Sum(g) /\ Len(sel) \in Nat
  <2>1. Sum(g) \in Symbol \cap Sums /\ Len(sel) \in Nat
    BY <1>5, <1>11, PlainOrSum
  <2> QED
    BY <1>11, <2>1, NewFirst
<1> DEFINE c == Coming
           d == Coming'
           h == Len(posted) - c + 1
           f == posted[h]
<1>14. c = d + 1 /\ d \in Nat
  BY <1>12, <1>13
<1>15. c \in 0 .. Len(posted) /\ (c > 0 => Selected(Ahead, Sums)[1] = Sum(f))
  BY ComingIs
<1> HIDE DEF c, d
<1>16. c \in 1 .. Len(posted) /\ d = c - 1 /\ h \in DOMAIN posted
  BY <1>3, <1>14, <1>15, LenProperties
<1>17. Sum(f) = Sum(g)
  BY <1>10, <1>13, <1>15, <1>16
<1>18. Sendable(f)
  BY <1>16 DEF LinkInv, PostedInv
<1> HIDE DEF h, f
<1>19. f.cnt = g.cnt /\ f.payload = g.payload
  BY <1>4, <1>17, <1>18, SumsDiffer
<1>20. FrameOf(f) = F
  BY <1>5, <1>19 DEF FrameOf
<1>21. FBP!PayloadSize = Len(f.payload)
  <2>1. FBP!PayloadSize \in Nat
    <3>1. FBP!TypeOK /\ FBP!CallInv /\ FBP!WindowIsStream
      BY DEF FBP!IInv
    <3>2. FBP!HeaderReady
      BY FramingAgrees DEF FBP!DeliverFrame
    <3>3. FBP!Available \in Nat
      BY <3>1, PartsOfFrames, FBP!CursorTypes
    <3>4. 2 \in 0 .. (FBP!Available - 1) /\ 3 \in 0 .. (FBP!Available - 1)
      BY <3>2, <3>3, FormatAssumption DEF FBP!HeaderReady
    <3>5. FBP!Front(2) \in Symbol /\ FBP!Front(3) \in Symbol
      BY <3>1, <3>4, PartsOfFrames, FBP!FrontIsStream
    <3>6. FBP!U16(FBP!Front(2), FBP!Front(3)) \in Nat
      BY <3>5, PartsOfFrames, FBP!U16Type
    <3> QED
      BY <3>6, FormatAssumption DEF FBP!PayloadSize
  <2>2. n = 5 + FBP!PayloadSize
    BY FormatAssumption DEF FBP!FrameSize, n
  <2>3. FBP!PayloadSize = Len(g.payload)
    BY <1>5, <2>1, <2>2
  <2> QED
    BY <1>19, <2>3
<1> QED
  BY <1>16, <1>20, <1>21, ShownAgrees DEF c, d, h, f, F

\* ... a frame handed over is the first in the queue, with its count and
\* payload, ...
LEMMA OnFrameRefines ==
    ASSUME LinkInv, FBP!IInv, OnFrame
    PROVE  ML!OnFrame
<1> DEFINE F == FB!FrameBytes
           h == Len(posted) - Coming + 1
           f == posted[h]
<1>1. /\ windows = << >> /\ FB!DeliverFrame /\ connect_type' = "WIRED"
      /\ frame_cnt' = F[2]
      /\ windows' = <<SubSeq(F, PayloadSizeOffset + 3, PayloadSizeOffset + 2 + FB!PayloadSize)>>
      /\ reports' = << >>
      /\ parsing' = IF Wire # << >> /\ FrameOf(Head(Wire)) = F THEN Head(Wire)
                                                              ELSE ML!NoFrame
      /\ UNCHANGED <<channel, sender>>
  BY DEF OnFrame
<1>2. posted' = posted /\ line' = line
  BY <1>1 DEF channel
<1>3. /\ h \in DOMAIN posted /\ Coming \in 1 .. Len(posted) /\ Coming' = Coming - 1
      /\ F = FrameOf(f) /\ FB!PayloadSize = Len(f.payload)
  BY <1>1, <1>2, DeliveredIsFirst
<1> HIDE DEF F
<1>4. Sendable(f) /\ posted \in Seq(Frames)
  BY <1>3 DEF LinkInv, PostedInv
<1>5. /\ Wire # << >> /\ Wire' = Tail(Wire) /\ Head(Wire) = f
  <2> DEFINE c == Coming
             d == Coming'
  <2>1. c \in 1 .. Len(posted) /\ c - 1 = d
    BY <1>3
  <2>2. Wire = Ending(posted, c) /\ Wire' = Ending(posted, d)
    BY <1>2, AheadIs
  <2>3. f = posted[Len(posted) - c + 1]
    OBVIOUS
  <2> HIDE DEF c, d, f, h
  <2>4. /\ Ending(posted, c) # << >> /\ Tail(Ending(posted, c)) = Ending(posted, c - 1)
        /\ Head(Ending(posted, c)) = posted[Len(posted) - c + 1]
    BY <1>4, <2>1, EndingTail
  <2> QED
    BY <2>1, <2>2, <2>3, <2>4, Zenon
<1> HIDE DEF f, h
<1>6. parsing' = f
  BY <1>1, <1>3, <1>5, Zenon
<1>7. F[2] = f.cnt /\ SubSeq(F, 5, 4 + Len(f.payload)) = f.payload
  <2>1. LET n == 5 + Len(f.payload)
        IN  /\ n \in Nat /\ n >= 5 /\ \A i \in 1 .. n - 1 : F[i] = Content(f)[i]
            /\ SubSeq(F, 5, 4 + Len(f.payload)) = f.payload
    BY <1>3, <1>4, FrameElements
  <2>2. 2 \in 1 .. (5 + Len(f.payload)) - 1
    BY <2>1
  <2>3. Content(f)[2] = f.cnt
    BY <1>4, ContentIs
  <2> QED
    BY <2>1, <2>2, <2>3
<1>8. windows' = <<f.payload>>
  <2>1. PayloadSizeOffset + 3 = 5 /\ PayloadSizeOffset + 2 + FB!PayloadSize = 4 + Len(f.payload)
    BY <1>3, FormatAssumption
  <2> QED
    BY <1>1, <1>7, <2>1
<1>9. ML!Acceptable(f)
  BY <1>4 DEF ML!Acceptable, Sendable
<1>10. UNCHANGED ML!sender
  BY <1>1 DEF sender, ML!sender
<1> QED
  BY <1>1, <1>5, <1>6, <1>7, <1>8, <1>9, <1>10 DEF ML!OnFrame

\* ... and a frame that goes out joins the queue, if its checksum does.
LEMMA EndRefines ==
    ASSUME LinkInv, FBP!IInv, End
    PROVE  ML!End
<1>1. /\ out # ML!NoFrame /\ out' = ML!NoFrame /\ UNCHANGED <<begun, framing, parser>>
      /\ received' = received /\ Rest' = Rest
  <2>1. out # ML!NoFrame /\ out' = ML!NoFrame /\ UNCHANGED <<begun, framing, parser>>
    BY DEF End
  <2>2. UNCHANGED <<received, index_begin, index_end, data, offset>>
    BY <2>1 DEF framing
  <2> QED
    BY <2>1, <2>2 DEF Rest, FBP!Position, FBP!Copied, FBP!Available
<1>2. OutInv /\ PostedInv
  BY DEF LinkInv
<1>3. out \in Frames
  BY <1>2, EndOnLine
<1>4. PICK bytes \in Seq(Symbol) :
          /\ line' = line \o bytes
          /\ \/ Selected(bytes, Sums) = << >> /\ posted' = posted
             \/ Selected(bytes, Sums) = <<Sum(out)>> /\ posted' = Append(posted, out)
  BY <1>2, EndOnLine
<1>5. /\ Rest \in Seq(Symbol) /\ line \in Seq(Symbol) /\ Ahead \in Seq(Symbol)
      /\ posted \in Seq(Frames) /\ Coming \in 0 .. Len(posted)
  BY ComingIs
<1> DEFINE sel == Selected(bytes, Sums)
           got == Selected(Ahead, Sums)
<1>6. Ahead' = Ahead \o bytes
  <2>1. (Rest \o line) \o bytes = Rest \o (line \o bytes)
    <3>1. Rest \in Seq(Symbol) /\ line \in Seq(Symbol) /\ bytes \in Seq(Symbol)
      BY <1>5
    <3> QED
      BY <3>1, ConcatAssociative
  <2> QED
    BY <1>1, <1>4, <2>1, AheadIs, Zenon
<1>7. Selected(Ahead', Sums) = got \o sel
  <2>1. Ahead \in Seq(Symbol) /\ bytes \in Seq(Symbol)
    BY <1>5
  <2>2. Selected(Ahead \o bytes, Sums) = Selected(Ahead, Sums) \o Selected(bytes, Sums)
    BY <2>1, SelectedConcat
  <2> QED
    BY <1>6, <2>2, Zenon
<1>8. got \in Seq(Symbol \cap Sums) /\ sel \in Seq(Symbol \cap Sums)
  BY <1>5, SelectedType
<1>9. Coming = Len(got) /\ Coming' = Len(got \o sel)
  BY <1>7 DEF Coming
<1> HIDE DEF got
<1>10. CASE sel = << >> /\ posted' = posted
  <2>1. got \o << >> = got
    BY <1>8, ConcatEmptySeq
  <2>2. Coming' = Coming
    BY <1>9, <1>10, <2>1, Zenon
  <2>3. Wire' = Wire
    BY <1>10, <2>2, AheadIs
  <2> QED
    BY <1>1, <2>3 DEF ML!End, ML!Send, ML!parser, parser
<1>11. CASE sel = <<Sum(out)>> /\ posted' = Append(posted, out)
  <2>1. Len(sel) = 1
    BY <1>11
  <2> HIDE DEF sel
  <2>2. Len(got \o sel) = Len(got) + Len(sel)
    BY <1>8, ConcatProperties
  <2> DEFINE c == Coming
             d == Coming'
  <2>3. d = c + 1 /\ c \in 0 .. Len(posted)
    BY <1>5, <1>9, <2>1, <2>2
  <2>4. Wire = Ending(posted, c) /\ Wire' = Ending(Append(posted, out), d)
    BY <1>11, AheadIs
  <2> HIDE DEF c, d
  <2>5. Ending(Append(posted, out), c + 1) = Append(Ending(posted, c), out)
    BY <1>3, <1>5, <2>3, EndingAppend
  <2>6. Wire' = Append(Wire, out)
    BY <2>3, <2>4, <2>5, Zenon
  <2> QED
    BY <1>1, <2>6 DEF ML!End, ML!Send, ML!parser, parser
<1> QED
  BY <1>4, <1>10, <1>11

\* Each step is one of the queue of frames, or none.
LEMMA LinkStepRefines ==
    LinkInv /\ FBP!IInv /\ [Next]_vars => [ML!Next]_(ML!vars)
<1> SUFFICES ASSUME LinkInv, FBP!IInv, [Next]_vars
             PROVE  ML!Next \/ UNCHANGED ML!vars
  OBVIOUS
<1>1. CASE Build
  BY <1>1 DEF Build, ML!Next
<1>2. CASE End
  BY <1>2, EndRefines DEF ML!Next
<1>3. ASSUME NEW n \in ChunkSizes, HandleData(n) PROVE UNCHANGED ML!vars
  BY <1>3, HandleDataRefines
<1>4. CASE FrameStep
  BY <1>4, FrameStepRefines DEF ML!Next
<1>5. CASE OnFrame
  BY <1>5, OnFrameRefines DEF ML!Next, ML!ParserStep
<1>6. CASE MsgStep
  BY <1>6 DEF MsgStep, ML!Next, ML!ParserStep
<1>7. CASE UNCHANGED vars
  <2>1. UNCHANGED <<channel, framing, sender, parser>>
    BY <1>7 DEF vars
  <2>2. UNCHANGED <<posted, line, received, index_begin, index_end, data, offset>>
    BY <2>1 DEF channel, framing
  <2>3. Rest' = Rest
    BY <2>2 DEF Rest, FBP!Position, FBP!Copied, FBP!Available
  <2>4. Ahead' = Ahead
    BY <2>2, <2>3, AheadIs
  <2> QED
    BY <2>1, <2>2, <2>4, WireStays DEF sender, parser, ML!vars
<1> QED
  BY <1>1, <1>2, <1>3, <1>4, <1>5, <1>6, <1>7 DEF Next

\* ImplementsMsgLink: whatever the line loses, adds or alters, however the
\* bytes are cut into calls of handle_data, the device's callbacks get what a
\* queue that may lose frames would give them: frames that were sent, whole,
\* in order and once each, with their counts and messages.
THEOREM LinkImplementsQueue ==
    Spec => ImplementsMsgLink
<1>1. Init => ML!Init
  BY DEF Init
<1>2. Spec => [](LinkInv /\ FBP!IInv)
  BY LinkInvariance, FramingIsFrameBuffer, PartsOfFrames, FBP!Invariance, PTL
<1> QED
  BY <1>1, <1>2, LinkStepRefines, PTL DEF Spec, ImplementsMsgLink, ML!SafeSpec

----------------------------------------------------------------------------
\* What is proved of the queue holds of the link.

\* Both names of its steps stand for the same.
LEMMA QueueAgrees ==
    /\ ML!Init => MLP!Init
    /\ ML!Next => MLP!Next
    /\ UNCHANGED ML!vars => UNCHANGED MLP!vars
<1> USE DEF ML!NoFrame, MLP!NoFrame, ML!sender, MLP!sender, ML!parser, MLP!parser,
            ML!vars, MLP!vars
<1>1. ML!Init => MLP!Init
  BY DEF ML!Init, MLP!Init
<1>2. /\ \A m : ML!Built(m) = MLP!Built(m)
      /\ \A m : ML!BuiltSize(m) = MLP!BuiltSize(m)
  BY LayoutsAgree
<1>3. \A f : ML!FrameBytes(f) = MLP!FrameBytes(f) /\ ML!Acceptable(f) = MLP!Acceptable(f)
  BY DEF ML!FrameBytes, MLP!FrameBytes, ML!Acceptable, MLP!Acceptable
<1>4. /\ \A cap : ML!NewFrame(cap) = MLP!NewFrame(cap)
      /\ \A f : ML!Send(f) = MLP!Send(f)
  BY DEF ML!NewFrame, MLP!NewFrame, ML!Send, MLP!Send
<1>5. /\ \A w : ML!MsgReady(w) = MLP!MsgReady(w) /\ ML!MsgId(w) = MLP!MsgId(w)
      /\ \A w : ML!AfterMsg(w) = MLP!AfterMsg(w) /\ ML!UserData(w) = MLP!UserData(w)
      /\ \A w : ML!MsgPayload(w) = MLP!MsgPayload(w)
      /\ ML!Window = MLP!Window
  BY DEF ML!MsgReady, MLP!MsgReady, ML!MsgSize, MLP!MsgSize, ML!MsgHeaderSize,
         MLP!MsgHeaderSize, ML!MsgId, MLP!MsgId, ML!AfterMsg, MLP!AfterMsg, ML!UserData,
         MLP!UserData, ML!UserDataHeader, MLP!UserDataHeader, ML!UserDataSize,
         MLP!UserDataSize, ML!MsgPayload, MLP!MsgPayload, ML!Window, MLP!Window
<1>6. /\ \A c, id : ML!Reported(c, id) = MLP!Reported(c, id)
      /\ \A id, raw : ML!Decoded(id, raw) = MLP!Decoded(id, raw)
      /\ \A n, p : ML!CopyPayload(n, p) = MLP!CopyPayload(n, p)
  BY DEF ML!Reported, MLP!Reported, ML!Decoded, MLP!Decoded, ML!SizedIds,
         MLP!SizedIds, ML!CopyPayload, MLP!CopyPayload
<1>7. /\ \A cap : ML!Begin(cap) => MLP!Begin(cap)
      /\ \A m : ML!AppendMsg(m) => MLP!AppendMsg(m)
      /\ \A m : ML!AppendFails(m) => MLP!AppendFails(m)
      /\ \A cap, m : ML!Prepare(cap, m) => MLP!Prepare(cap, m)
  BY <1>2, <1>3, <1>4
     DEF ML!Begin, MLP!Begin, ML!AppendMsg, MLP!AppendMsg, ML!AppendFails,
         MLP!AppendFails, ML!Prepare, MLP!Prepare
<1>8. (ML!End => MLP!End) /\ (ML!Lose => MLP!Lose)
  BY <1>4 DEF ML!End, MLP!End, ML!Lose, MLP!Lose
<1>9. ML!OnFrame => MLP!OnFrame
  BY <1>3 DEF ML!OnFrame, MLP!OnFrame
<1>10. ML!OnMsg => MLP!OnMsg
  BY <1>5, <1>6 DEF ML!OnMsg, MLP!OnMsg
<1>11. /\ ML!EnterWrapper => MLP!EnterWrapper
       /\ ML!IgnoreMsg => MLP!IgnoreMsg
       /\ ML!LeaveWrapper => MLP!LeaveWrapper
       /\ ML!OnFrameEnd => MLP!OnFrameEnd
  BY <1>5 DEF ML!EnterWrapper, MLP!EnterWrapper, ML!IgnoreMsg, MLP!IgnoreMsg,
              ML!LeaveWrapper, MLP!LeaveWrapper, ML!OnFrameEnd, MLP!OnFrameEnd
<1>12. ML!Next => MLP!Next
  BY <1>7, <1>8, <1>9, <1>10, <1>11 DEF ML!Next, MLP!Next, ML!ParserStep, MLP!ParserStep
<1> QED
  BY <1>1, <1>12

\* AllReported of MsgLink, end to end: when the device is through with a
\* frame, it has reported the messages that the user appended to it and that
\* it knows, and no others, whatever the line has done to the bytes.
THEOREM DeviceReportsWhatWasSent ==
    Spec => []ML!AllReported
<1>1. Spec => MLP!SafeSpec
  <2>1. [ML!Next]_(ML!vars) => [MLP!Next]_(MLP!vars)
    BY QueueAgrees
  <2>2. ML!Init => MLP!Init
    BY QueueAgrees
  <2> QED
    BY <2>1, <2>2, LinkImplementsQueue, PTL DEF ImplementsMsgLink, ML!SafeSpec, MLP!SafeSpec
<1>2. MLP!AllReported => ML!AllReported
  BY DEF MLP!AllReported, ML!AllReported, MLP!NoFrame, ML!NoFrame, MLP!Expected,
         ML!Expected, MLP!Selected, ML!Selected, MLP!SelectedUpTo, ML!SelectedUpTo,
         MLP!ToReport, ML!ToReport, MLP!Fitted, ML!Fitted, MLP!SizedIds, ML!SizedIds,
         MLP!Reported, ML!Reported
<1> QED
  BY <1>1, <1>2, PartsOfMessages, MLP!MessagesReported, PTL
=============================================================================
