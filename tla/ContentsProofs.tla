--------------------------- MODULE ContentsProofs ---------------------------
(***************************************************************************)
(* What a frame carries.  The contents of a message survive any way over   *)
(* any nodes, whatever the sizes of names and payloads; what is sent as    *)
(* hundredths loses four of them at most, whatever its value.  The         *)
(* checksum over them is the remainder of a division, whatever the bytes,  *)
(* and no burst of errors that its register is as wide as gets by it.      *)
(***************************************************************************)
EXTENDS Fields, Crc, SequenceLemmas

----------------------------------------------------------------------------
\* The members.  Of an integer those bits survive that are sent.
IsMember(m) ==
    /\ m.type \in {"int", "hundredths", "name", "payload"}
    /\ m.type = "int" => m.app \in Nat /\ m.bits \in 1 .. m.app /\ Kept(m) = m.bits
    /\ m.type = "hundredths" => m.signed \in BOOLEAN

Message(ms) ==
    /\ Len(ms) \in Nat \ {0} /\ ms \in Seq({ms[i] : i \in DOMAIN ms})
    /\ \A i \in 1 .. Len(ms) : IsMember(ms[i]) /\ (ms[i].type = "payload" => i = 1)

Special == {"local_time", "year", "month", "day", "reserved"}

\* A member that has the same width in the struct and on the line.
LEMMA WholeMember ==
    ASSUME NEW name, name \notin Special, NEW n \in Nat \ {0}
    PROVE  IsMember(Whole(name, n)) /\ Whole(name, n).type = "int"
BY DEF IsMember, Whole, Narrowed, Kept, Special

\* The members that lose bits on the line.
LEMMA NarrowedMembers ==
    /\ IsMember(Narrowed("reserved", 8, 1)) /\ IsMember(Narrowed("local_time", 64, 56))
    /\ IsMember(Narrowed("year", 8, 7)) /\ IsMember(Narrowed("month", 8, 4))
    /\ IsMember(Narrowed("day", 8, 5))
    /\ \A name, app, bits : Narrowed(name, app, bits).type = "int"
BY DEF IsMember, Narrowed, Kept

\* The members that are no integers.
LEMMA OtherMembers ==
    /\ IsMember(Name) /\ Name.type = "name" /\ IsMember(Payload)
    /\ \A name : \A signed \in BOOLEAN :
           IsMember(Hundredths(name, signed)) /\ Hundredths(name, signed).type = "hundredths"
BY DEF IsMember, Name, Payload, Hundredths

\* So is what is made of floats.
LEMMA FloatsMember ==
    ASSUME NEW name, name \notin Special, NEW n \in {1, 3}
    PROVE  IsMember(Floats(name, n)) /\ Floats(name, n).type = "int"
<1>1. 32 * n \in Nat \ {0}
  OBVIOUS
<1> QED
  BY <1>1, WholeMember DEF Floats

\* Members behind members.
LEMMA MoreMembers ==
    ASSUME NEW a, NEW b, Message(a), Message(b), b[1].type # "payload"
    PROVE  Message(a \o b)
<1> DEFINE c == a \o b
           A == {a[i] : i \in DOMAIN a} \cup {b[i] : i \in DOMAIN b}
<1>1. a \in Seq(A) /\ b \in Seq(A)
  BY DEF Message
<1>2. Len(a) \in Nat \ {0} /\ Len(b) \in Nat \ {0}
  BY DEF Message
<1> HIDE DEF A
<1>3. /\ c \in Seq(A) /\ Len(c) = Len(a) + Len(b)
      /\ \A i \in 1 .. Len(c) : c[i] = IF i <= Len(a) THEN a[i] ELSE b[i - Len(a)]
  BY <1>1, ConcatProperties
<1> HIDE DEF c
<1>4. \A i \in 1 .. Len(c) : IsMember(c[i]) /\ (c[i].type = "payload" => i = 1)
  <2> SUFFICES ASSUME NEW i \in 1 .. Len(c)
               PROVE  IsMember(c[i]) /\ (c[i].type = "payload" => i = 1)
    OBVIOUS
  <2>1. CASE i <= Len(a)
    <3>1. i \in 1 .. Len(a)
      BY <1>2, <2>1
    <3> QED
      BY <1>3, <2>1, <3>1 DEF Message
  <2>2. CASE ~ (i <= Len(a))
    <3>1. i - Len(a) \in 1 .. Len(b)
      BY <1>2, <1>3, <2>2
    <3> QED
      BY <1>3, <2>2, <3>1 DEF Message
  <2> QED
    BY <2>1, <2>2
<1>5. c \in Seq({c[i] : i \in DOMAIN c})
  BY <1>3
<1>6. Len(c) \in Nat \ {0}
  BY <1>2, <1>3
<1> QED
  BY <1>4, <1>5, <1>6 DEF Message, c

\* Four members that are no payloads.
LEMMA FourMembers ==
    ASSUME NEW a, IsMember(a), a.type # "payload", NEW b, IsMember(b), b.type # "payload",
           NEW c, IsMember(c), c.type # "payload", NEW d, IsMember(d), d.type # "payload"
    PROVE  Message(<<a, b, c, d>>) /\ <<a, b, c, d>>[1].type # "payload"
<1> DEFINE s == <<a, b, c, d>>
<1>1. /\ s[1] = a /\ s[2] = b /\ s[3] = c /\ s[4] = d
      /\ Len(s) = 4 /\ DOMAIN s = 1 .. 4 /\ s \in Seq({a, b, c, d})
  OBVIOUS
<1> HIDE DEF s
<1>2. \A i \in 1 .. 4 : i = 1 \/ i = 2 \/ i = 3 \/ i = 4
  OBVIOUS
<1>3. \A i \in 1 .. 4 : IsMember(s[i]) /\ s[i].type # "payload"
  BY <1>1, <1>2
<1>4. s \in Seq({s[i] : i \in DOMAIN s})
  BY <1>1
<1>5. Message(s)
  BY <1>1, <1>3, <1>4 DEF Message
<1> QED
  BY <1>1, <1>5 DEF s

\* Every message has members, and they are as they should be.
LEMMA Messages == \A id \in DOMAIN Members : Message(Members[id])
<1>1. Message(Echo) /\ Message(UserToUser)
  BY OtherMembers DEF Echo, UserToUser, Message
<1>2. Message(Param)
  BY WholeMember, NarrowedMembers, FloatsMember DEF Param, Message, Special
<1>3. Message(Heartbeat)
  BY WholeMember, NarrowedMembers, OtherMembers DEF Heartbeat, Message, Special
<1>4. Message(Stamped)
  BY WholeMember, NarrowedMembers DEF Stamped, Message, Special
<1>5. Message(Result)
  <2> DEFINE rest == <<Floats("pos", 3), Hundredths("vel", TRUE),
                       Hundredths("pos_noise", FALSE), Hundredths("vel_noise", FALSE)>>
  <2>1. /\ IsMember(Hundredths("vel", TRUE)) /\ IsMember(Hundredths("pos_noise", FALSE))
        /\ IsMember(Hundredths("vel_noise", FALSE)) /\ IsMember(Floats("pos", 3))
        /\ Hundredths("vel", TRUE).type # "payload"
        /\ Hundredths("pos_noise", FALSE).type # "payload"
        /\ Hundredths("vel_noise", FALSE).type # "payload" /\ Floats("pos", 3).type # "payload"
    BY OtherMembers, FloatsMember DEF Special
  <2>2. Message(rest) /\ rest[1].type # "payload"
    BY <2>1, FourMembers, Zenon
  <2> HIDE DEF rest
  <2>3. Message(Stamped \o rest)
    BY <1>4, <2>2, MoreMembers
  <2> QED
    BY <2>3 DEF Result, rest
<1>6. Message(PrevResult)
  BY WholeMember, FloatsMember DEF PrevResult, Message, Special
<1>7. Message(Spherical) /\ Spherical[1].type # "payload"
  BY FloatsMember DEF Spherical, Message, Special
<1>8. Message(SphericalResult)
  BY <1>4, <1>7, MoreMembers DEF SphericalResult
<1>9. Message(SphericalPrevResult)
  <2> DEFINE cnt == <<Whole("cnt", 8)>>
  <2>1. Message(cnt)
    BY WholeMember DEF Message, Special
  <2> HIDE DEF cnt
  <2>2. Message(cnt \o Spherical)
    BY <1>7, <2>1, MoreMembers
  <2> QED
    BY <2>2 DEF SphericalPrevResult, cnt
<1>10. Message(Dis)
  <2> DEFINE rest == <<Floats("dis", 1), Whole("rx_rate", 8)>>
  <2>1. Message(rest) /\ rest[1].type # "payload"
    BY WholeMember, FloatsMember DEF Message, Special
  <2> HIDE DEF rest
  <2>2. Message(Stamped \o rest)
    BY <1>4, <2>1, MoreMembers
  <2> QED
    BY <2>2 DEF Dis, rest
<1>11. Message(Find) /\ Message(Restart) /\ Message(BeginPair) /\ Message(CancelPair)
  BY WholeMember DEF Find, Restart, BeginPair, CancelPair, Message, Special
<1>12. SUFFICES ASSUME NEW id \in DOMAIN Members PROVE Message(Members[id])
  OBVIOUS
<1>13. Members[id] \in {Echo, Find, Restart, Param, Heartbeat, Result, PrevResult,
                       SphericalResult, SphericalPrevResult, Dis, BeginPair, CancelPair,
                       UserToUser}
  BY DEF Members
<1> QED
  BY <1>1, <1>2, <1>3, <1>5, <1>6, <1>8, <1>9, <1>10, <1>11, <1>13

----------------------------------------------------------------------------
\* Names and payloads.

\* The end of a name is where the first zero stands.
LEMMA StrLenIs ==
    ASSUME NEW s \in Seq(Int), NEW n \in 0 .. Len(s), \A i \in 1 .. n : s[i] # 0,
           n < Len(s) => s[n + 1] = 0
    PROVE  StrLen(s) = n
<1> DEFINE P(l) == (\A i \in 1 .. l : s[i] # 0) /\ (l < Len(s) => s[l + 1] = 0)
<1>1. P(n) /\ Len(s) \in Nat
  OBVIOUS
<1>2. ASSUME NEW l \in 0 .. Len(s), P(l) PROVE l = n
  <2>1. ~ (l < n)
    BY <1>1, <1>2
  <2>2. ~ (n < l)
    BY <1>1, <1>2
  <2> QED
    BY <2>1, <2>2
<1>3. StrLen(s) = CHOOSE l \in 0 .. Len(s) : P(l)
  BY DEF StrLen
<1> HIDE DEF P
<1> QED
  BY <1>1, <1>2, <1>3

\* What an array can be given as a name: it ends before the array does.
Names == {t \in Seq(Nat \ {0}) : Len(t) < NameSize}

\* A name is found again in the memory that it was copied to, whether the
\* rest is zero or has never been set.
LEMMA NameRead ==
    ASSUME NEW t \in Names
    PROVE  /\ UpToNul(t) = t
           /\ UpToNul(Zeroed(NameSize, t)) = t
           /\ UpToNul(Memory(NameSize, Append(t, 0))) = t
<1>1. /\ t \in Seq(Nat \ {0}) /\ t \in Seq(Int) /\ Len(t) \in Nat /\ Len(t) < NameSize
      /\ NameSize \in Nat
  BY SizeAssumption DEF Names
<1>2. \A i \in 1 .. Len(t) : t[i] \in Nat \ {0}
  BY <1>1
<1>3. ASSUME NEW z \in Seq(Int), Len(t) <= Len(z), \A i \in 1 .. Len(t) : z[i] = t[i],
             Len(t) < Len(z) => z[Len(t) + 1] = 0
      PROVE  UpToNul(z) = t
  <2>1. StrLen(z) = Len(t)
    <3>1. Len(t) \in 0 .. Len(z)
      BY <1>1, <1>3
    <3>2. \A i \in 1 .. Len(t) : z[i] # 0
      BY <1>2, <1>3
    <3> QED
      BY <1>3, <3>1, <3>2, StrLenIs
  <2>2. /\ SubSeq(z, 1, Len(t)) \in Seq(Int) /\ Len(SubSeq(z, 1, Len(t))) = Len(t)
        /\ \A i \in 1 .. Len(t) : SubSeq(z, 1, Len(t))[i] = z[i]
    BY <1>1, <1>3
  <2>3. SubSeq(z, 1, Len(t)) = t
    BY <1>1, <1>3, <2>2, SeqEqual
  <2> QED
    BY <2>1, <2>3 DEF UpToNul
<1>4. UpToNul(t) = t
  BY <1>1, <1>3
<1>5. UpToNul(Zeroed(NameSize, t)) = t
  <2> DEFINE z == Zeroed(NameSize, t)
  <2>1. /\ z \in Seq(Int) /\ Len(z) = NameSize
        /\ \A i \in 1 .. NameSize : z[i] = IF i <= Len(t) THEN t[i] ELSE 0
    BY <1>1, <1>2 DEF Zeroed
  <2> HIDE DEF z
  <2>2. /\ Len(t) <= Len(z) /\ \A i \in 1 .. Len(t) : z[i] = t[i]
        /\ z[Len(t) + 1] = 0
    BY <1>1, <2>1
  <2> QED
    BY <1>3, <2>1, <2>2 DEF z
<1>6. UpToNul(Memory(NameSize, Append(t, 0))) = t
  <2> DEFINE a == Append(t, 0)
             z == Memory(NameSize, a)
  <2>1. /\ Len(a) = Len(t) + 1 /\ a[Len(t) + 1] = 0
        /\ \A i \in 1 .. Len(t) : a[i] = t[i]
    BY <1>1
  <2> HIDE DEF a
  <2>2. \A i \in 1 .. Len(a) : a[i] \in Int
    BY <1>1, <1>2, <2>1
  <2>3. /\ z \in Seq(Int) /\ Len(z) = NameSize
        /\ \A i \in 1 .. NameSize : z[i] = IF i <= Len(a) THEN a[i] ELSE -1
    BY <1>1, <2>1, <2>2 DEF Memory, Unset
  <2> HIDE DEF z
  <2>4. /\ Len(t) <= Len(z) /\ \A i \in 1 .. Len(t) : z[i] = t[i]
        /\ z[Len(t) + 1] = 0
    BY <1>1, <2>1, <2>3
  <2> QED
    BY <1>3, <2>3, <2>4 DEF z, a
<1> QED
  BY <1>4, <1>5, <1>6

\* What an array can be given as a payload.
Fitting == {t \in Seq(Nat) : Len(t) <= PayloadMax}

\* A payload is found again in the memory that it was copied to.
LEMMA CutOfMemory ==
    ASSUME NEW t \in Fitting
    PROVE  /\ SubSeq(Memory(PayloadMax, t), 1, Len(t)) = t
           /\ SubSeq(Zeroed(PayloadMax, t), 1, Len(t)) = t
           /\ VectorCut(t) = t
<1>1. /\ t \in Seq(Nat) /\ t \in Seq(Int) /\ Len(t) \in Nat /\ Len(t) <= PayloadMax
      /\ PayloadMax \in Nat /\ \A i \in 1 .. Len(t) : t[i] \in Nat
  BY SizeAssumption DEF Fitting
<1>2. ASSUME NEW z \in Seq(Int), Len(t) <= Len(z), \A i \in 1 .. Len(t) : z[i] = t[i]
      PROVE  SubSeq(z, 1, Len(t)) = t
  <2>1. /\ SubSeq(z, 1, Len(t)) \in Seq(Int) /\ Len(SubSeq(z, 1, Len(t))) = Len(t)
        /\ \A i \in 1 .. Len(t) : SubSeq(z, 1, Len(t))[i] = z[i]
    BY <1>1, <1>2
  <2> QED
    BY <1>1, <1>2, <2>1, SeqEqual
<1>3. /\ Memory(PayloadMax, t) \in Seq(Int) /\ Len(Memory(PayloadMax, t)) = PayloadMax
      /\ \A i \in 1 .. Len(t) : Memory(PayloadMax, t)[i] = t[i]
  BY <1>1 DEF Memory, Unset
<1>4. /\ Zeroed(PayloadMax, t) \in Seq(Int) /\ Len(Zeroed(PayloadMax, t)) = PayloadMax
      /\ \A i \in 1 .. Len(t) : Zeroed(PayloadMax, t)[i] = t[i]
  BY <1>1 DEF Zeroed
<1>5. SubSeq(t, 1, Len(t)) = t
  BY <1>1, <1>2
<1>6. (IF Len(t) < PayloadMax THEN Len(t) ELSE PayloadMax) = Len(t)
  BY <1>1
<1>7. VectorCut(t) = t
  BY <1>5, <1>6 DEF VectorCut
<1> QED
  BY <1>1, <1>2, <1>3, <1>4, <1>7

\* A vector of any length is cut to one that fits.
LEMMA CutFits ==
    ASSUME NEW t \in Seq(Nat)
    PROVE  VectorCut(t) \in Fitting
<1>1. PayloadMax \in Nat /\ Len(t) \in Nat
  BY SizeAssumption
<1> DEFINE n == IF Len(t) < PayloadMax THEN Len(t) ELSE PayloadMax
<1>2. n \in Nat /\ n <= Len(t) /\ n <= PayloadMax
  BY <1>1
<1> HIDE DEF n
<1>3. SubSeq(t, 1, n) \in Seq(Nat) /\ Len(SubSeq(t, 1, n)) = n
  BY <1>1, <1>2
<1> QED
  BY <1>2, <1>3 DEF VectorCut, Fitting, n

\* Payload t on the line.
Sized(t) == <<Len(t)>> \o t

\* A payload is read, sent on and published as it came.
LEMMA PayloadRead ==
    ASSUME NEW t \in Fitting
    PROVE  /\ Sized(t) \in Seq(Nat)
           /\ PayloadFromRaw(Sized(t)) = [size |-> Len(t), bytes |-> Memory(PayloadMax, t)]
           /\ PayloadToRaw([size |-> Len(t), bytes |-> Memory(PayloadMax, t)]) = Sized(t)
           /\ PayloadToRaw([size |-> Len(t), bytes |-> Zeroed(PayloadMax, t)]) = Sized(t)
<1>1. /\ t \in Seq(Nat) /\ Len(t) \in Nat /\ Len(t) <= PayloadMax
      /\ PayloadMax \in Nat /\ \A i \in 1 .. Len(t) : t[i] \in Nat
  BY SizeAssumption DEF Fitting
<1> DEFINE r == Sized(t)
           copy == Zeroed(1 + PayloadMax, r)
<1>2. /\ r \in Seq(Nat) /\ Len(r) = Len(t) + 1 /\ r[1] = Len(t)
      /\ \A i \in 1 .. Len(t) : r[i + 1] = t[i]
  BY <1>1, NewFirst DEF Sized
<1> HIDE DEF r
<1>3. \A i \in 1 .. Len(r) : r[i] \in Nat
  BY <1>2
<1>4. /\ copy \in Seq(Nat) /\ Len(copy) = 1 + PayloadMax
      /\ \A i \in 1 .. 1 + PayloadMax : copy[i] = IF i <= Len(r) THEN r[i] ELSE 0
  BY <1>1, <1>2, <1>3 DEF Zeroed
<1> HIDE DEF copy
<1>5. copy[1] = Len(t)
  BY <1>1, <1>2, <1>4
<1>6. SubSeq(copy, 2, 1 + Len(t)) = t
  <2> DEFINE cut == SubSeq(copy, 2, 1 + Len(t))
  <2>1. /\ cut \in Seq(Nat) /\ Len(cut) = Len(t)
        /\ \A i \in 1 .. Len(t) : cut[i] = copy[i + 1]
    BY <1>1, <1>4
  <2>2. \A i \in 1 .. Len(t) : cut[i] = t[i]
    BY <1>1, <1>2, <1>4, <2>1
  <2> HIDE DEF cut
  <2>3. cut = t
    BY <1>1, <2>1, <2>2, SeqEqual
  <2> QED
    BY <2>3 DEF cut
<1>7. PayloadFromRaw(r) = [size |-> Len(t), bytes |-> Memory(PayloadMax, t)]
  BY <1>5, <1>6 DEF PayloadFromRaw, copy
<1>8. /\ PayloadToRaw([size |-> Len(t), bytes |-> Memory(PayloadMax, t)]) = Sized(t)
      /\ PayloadToRaw([size |-> Len(t), bytes |-> Zeroed(PayloadMax, t)]) = Sized(t)
  BY CutOfMemory DEF PayloadToRaw, Sized
<1> QED
  BY <1>2, <1>7, <1>8 DEF r

----------------------------------------------------------------------------
\* One member on its way.

\* What a member can be given.
Given(m, t) ==
    CASE m.type = "int" -> t \subseteq Bits(m.app)
      [] m.type = "hundredths" -> t \in [k : Int, more : BOOLEAN]
      [] m.type = "name" -> t \in Names
      [] m.type = "payload" -> t \in Seq(Nat)

\* How member m stands on the line that was given as t, when all nodes knew
\* it, and when one did not.
OnLine(m, t, r, all) ==
    CASE m.type = "int" -> r = IF all THEN t \cap Bits(Kept(m)) ELSE {}
      [] m.type = "hundredths" -> all \/ r = 0
      [] m.type = "name" -> r = Zeroed(NameSize, IF all THEN t ELSE << >>)
      [] m.type = "payload" -> r = Sized(IF all THEN VectorCut(t) ELSE << >>)

\* How it is read.
ReadAs(m, t, topic, all) ==
    CASE m.type = "int" -> topic = IF all THEN t \cap Bits(Kept(m)) ELSE {}
      [] m.type = "hundredths" -> all \/ topic.k = 0
      [] m.type = "name" -> topic = IF all THEN t ELSE << >>
      [] m.type = "payload" -> topic = IF all THEN VectorCut(t) ELSE << >>

\* The bits that survive are those that are there on both sides.
LEMMA KeptBits ==
    ASSUME NEW m, IsMember(m), m.type = "int"
    PROVE  Bits(Kept(m)) = Bits(m.app) \cap Bits(m.bits)
BY DEF IsMember, Bits

\* Nothing is a name and a payload.
LEMMA EmptyFits == << >> \in Names /\ << >> \in Fitting /\ Sized(<< >>) = <<0>>
<1>1. << >> \in Seq(Nat \ {0}) /\ << >> \in Seq(Nat) /\ Len(<< >>) = 0
  OBVIOUS
<1>2. <<0>> \o << >> = <<0>>
  BY ShortTuples
<1> QED
  BY <1>1, <1>2, SizeAssumption DEF Names, Fitting, Sized

\* A member is put on the line by a program with the driver, if there is
\* room for it, and by a ROS node.
LEMMA FirstOnLine ==
    ASSUME NEW m, IsMember(m), NEW t, Given(m, t)
    PROVE  /\ (m.type = "payload" => Len(t) <= PayloadMax) =>
                 OnLine(m, t, ToRaw(m, FilledIn(m, t)), TRUE)
           /\ OnLine(m, t, ToRaw(m, FromTopic(m, t)), TRUE)
<1>1. CASE m.type = "int"
  BY <1>1, KeptBits DEF OnLine, ToRaw, FilledIn, FromTopic, Given
<1>2. CASE m.type = "hundredths"
  BY <1>2 DEF OnLine
<1>3. CASE m.type = "name"
  BY <1>3, NameRead DEF OnLine, ToRaw, FilledIn, FromTopic, Given, NameToRaw
<1>4. CASE m.type = "payload"
  <2>1. t \in Seq(Nat) /\ VectorCut(t) \in Fitting
    BY <1>4, CutFits DEF Given
  <2>2. Len(t) <= PayloadMax => t \in Fitting /\ VectorCut(t) = t
    BY <2>1, CutOfMemory DEF Fitting
  <2>3. ToRaw(m, FromTopic(m, t)) = Sized(VectorCut(t))
    BY <1>4, <2>1, PayloadRead DEF ToRaw, FromTopic
  <2>4. Len(t) <= PayloadMax => ToRaw(m, FilledIn(m, t)) = Sized(t)
    BY <1>4, <2>2, PayloadRead DEF ToRaw, FilledIn
  <2> QED
    BY <1>4, <2>2, <2>3, <2>4 DEF OnLine
<1> QED
  BY <1>1, <1>2, <1>3, <1>4 DEF IsMember

\* A member that was not sent is read as one that a node did not know.
LEMMA NotSentOnLine ==
    ASSUME NEW m, IsMember(m), NEW t
    PROVE  OnLine(m, t, NotSent(m), FALSE)
BY EmptyFits DEF OnLine, NotSent, IsMember

\* A node reads what was given, ...
LEMMA ReadRight ==
    ASSUME NEW m, IsMember(m), NEW t, Given(m, t), NEW all \in BOOLEAN,
           NEW r, OnLine(m, t, r, all)
    PROVE  ReadAs(m, t, ToTopic(m, FromRaw(m, r)), all)
<1>1. CASE m.type = "int"
  BY <1>1, KeptBits DEF OnLine, ReadAs, ToTopic, FromRaw
<1>2. CASE m.type = "hundredths"
  BY <1>2 DEF OnLine, ReadAs, ToTopic, FromRaw, HundredthsFromRaw
<1>3. CASE m.type = "name"
  <2> DEFINE n == IF all THEN t ELSE << >>
  <2>1. n \in Names
    BY <1>3, EmptyFits DEF Given
  <2>2. r = Zeroed(NameSize, n)
    BY <1>3 DEF OnLine
  <2> HIDE DEF n
  <2>3. UpToNul(NameFromRaw(r)) = n
    BY <2>1, <2>2, NameRead DEF NameFromRaw
  <2> QED
    BY <1>3, <2>3 DEF ReadAs, ToTopic, FromRaw, n
<1>4. CASE m.type = "payload"
  <2> DEFINE p == IF all THEN VectorCut(t) ELSE << >>
  <2>1. p \in Fitting
    BY <1>4, EmptyFits, CutFits DEF Given
  <2>2. r = Sized(p)
    BY <1>4 DEF OnLine
  <2> HIDE DEF p
  <2>3. FromRaw(m, r) = [size |-> Len(p), bytes |-> Memory(PayloadMax, p)]
    BY <1>4, <2>1, <2>2, PayloadRead DEF FromRaw
  <2>4. ToTopic(m, FromRaw(m, r)) = p
    BY <1>4, <2>1, <2>3, CutOfMemory DEF ToTopic
  <2> QED
    BY <1>4, <2>4 DEF ReadAs, p
<1> QED
  BY <1>1, <1>2, <1>3, <1>4 DEF IsMember

\* ... and sends it on as it came, a program with the driver and a ROS node.
LEMMA SentOnRight ==
    ASSUME NEW m, IsMember(m), NEW t, Given(m, t), NEW all \in BOOLEAN,
           NEW r, OnLine(m, t, r, all)
    PROVE  /\ OnLine(m, t, ToRaw(m, FromRaw(m, r)), all)
           /\ OnLine(m, t, ToRaw(m, FromTopic(m, ToTopic(m, FromRaw(m, r)))), all)
<1>1. CASE m.type = "int"
  BY <1>1, KeptBits DEF OnLine, ToRaw, FromRaw, FromTopic, ToTopic
<1>2. CASE m.type = "hundredths"
  <2>1. CASE all
    BY <1>2, <2>1 DEF OnLine
  <2>2. CASE ~all
    <3>1. r = 0
      BY <1>2, <2>2 DEF OnLine
    <3>2. FromRaw(m, r) = [k |-> 0, more |-> FALSE]
      BY <1>2, <3>1 DEF FromRaw, HundredthsFromRaw
    <3>3. ToRaw(m, [k |-> 0, more |-> FALSE]) = 0
      BY <1>2 DEF ToRaw, HundredthsToRaw, Reencoded
    <3> QED
      BY <1>2, <3>2, <3>3 DEF OnLine, FromTopic, ToTopic
  <2> QED
    BY <2>1, <2>2
<1>3. CASE m.type = "name"
  <2> DEFINE n == IF all THEN t ELSE << >>
  <2>1. n \in Names
    BY <1>3, EmptyFits DEF Given
  <2>2. r = Zeroed(NameSize, n)
    BY <1>3 DEF OnLine
  <2> HIDE DEF n
  <2>3. /\ UpToNul(NameFromRaw(r)) = n
        /\ NameToRaw(NameFromRaw(r)) = r /\ NameToRaw(n) = r
    BY <2>1, <2>2, NameRead DEF NameFromRaw, NameToRaw
  <2> QED
    BY <1>3, <2>2, <2>3 DEF OnLine, ToRaw, FromRaw, FromTopic, ToTopic, n
<1>4. CASE m.type = "payload"
  <2> DEFINE p == IF all THEN VectorCut(t) ELSE << >>
  <2>1. p \in Fitting
    BY <1>4, EmptyFits, CutFits DEF Given
  <2>2. r = Sized(p)
    BY <1>4 DEF OnLine
  <2> HIDE DEF p
  <2>3. FromRaw(m, r) = [size |-> Len(p), bytes |-> Memory(PayloadMax, p)]
    BY <1>4, <2>1, <2>2, PayloadRead DEF FromRaw
  <2>4. ToTopic(m, FromRaw(m, r)) = p /\ VectorCut(p) = p
    BY <1>4, <2>1, <2>3, CutOfMemory DEF ToTopic
  <2>5. FromTopic(m, p) = [size |-> Len(p), bytes |-> Zeroed(PayloadMax, p)]
    BY <1>4, <2>4 DEF FromTopic
  <2>6. ToRaw(m, FromRaw(m, r)) = r /\ ToRaw(m, FromTopic(m, p)) = r
    BY <1>4, <2>1, <2>2, <2>3, <2>5, PayloadRead DEF ToRaw
  <2> QED
    BY <1>4, <2>2, <2>4, <2>6 DEF OnLine, p
<1> QED
  BY <1>1, <1>2, <1>3, <1>4 DEF IsMember

----------------------------------------------------------------------------
\* The inductive invariant: what has been given for each member, and how it
\* stands on the line.  That it is read as given is not enough to know, a
\* node that sends it on looks at all of the raw message.
FieldsInv ==
    /\ kind \in DOMAIN Members
    /\ oldest \in 1 .. Len(M) /\ known \in oldest .. Len(M)
    /\ \A i \in 1 .. Len(M) : Given(M[i], origin[i])
    /\ \E n \in known .. Len(M) :
           /\ DOMAIN raw = 1 .. n /\ Len(raw) = n
           /\ \A i \in 1 .. n : OnLine(M[i], origin[i], raw[i], i <= known)

\* The members of the message, ...
LEMMA TheMembers ==
    ASSUME kind \in DOMAIN Members
    PROVE  /\ Len(M) \in Nat \ {0} /\ DOMAIN M = 1 .. Len(M)
           /\ \A i \in 1 .. Len(M) : IsMember(M[i]) /\ (M[i].type = "payload" => i = 1)
<1>1. Message(M)
  BY Messages DEF M
<1> HIDE DEF M
<1>2. DOMAIN M = 1 .. Len(M)
  BY <1>1 DEF Message
<1> QED
  BY <1>1, <1>2 DEF Message

\* ... all of which can be given what is tried.
LEMMA TriedGiven ==
    ASSUME NEW m, IsMember(m)
    PROVE  /\ \A t \in Tried(m) : Given(m, t)
           /\ \A full \in BOOLEAN : Given(m, Other(m, full))
<1>1. CASE m.type = "int"
  <2>1. m.app \in Nat /\ m.bits \in 1 .. m.app
    BY <1>1 DEF IsMember
  <2>2. {0, m.bits - 1, m.app - 1} \subseteq Bits(m.app)
    BY <2>1 DEF Bits
  <2>3. \A t \in Tried(m) : t \subseteq Bits(m.app)
    BY <1>1, <2>2 DEF Tried
  <2>4. \A full \in BOOLEAN : Other(m, full) \subseteq Bits(m.app)
    BY <1>1 DEF Other
  <2> QED
    BY <1>1, <2>3, <2>4 DEF Given
<1>2. CASE m.type = "hundredths"
  <2>1. \A t \in Tried(m) : t \in [k : Int, more : BOOLEAN]
    <3>1. Tried(m) = {[k |-> k, more |-> TRUE] : k \in Sweep}
      BY <1>2 DEF Tried
    <3>2. SUFFICES ASSUME NEW t \in Tried(m) PROVE t \in [k : Int, more : BOOLEAN]
      OBVIOUS
    <3>3. PICK x \in Sweep : t = [k |-> x, more |-> TRUE]
      BY <3>1
    <3>4. x \in Int
      BY SweepAssumption
    <3> QED
      BY <3>3, <3>4
  <2>2. \A full \in BOOLEAN : Other(m, full) \in [k : Int, more : BOOLEAN]
    BY <1>2 DEF Other
  <2> QED
    BY <1>2, <2>1, <2>2 DEF Given
<1>3. CASE m.type = "name"
  <2>1. ASSUME NEW n \in Bits(NameSize) PROVE [i \in 1 .. n |-> i] \in Names
    <3>1. n \in Nat /\ n < NameSize
      BY <2>1, SizeAssumption DEF Bits
    <3>2. /\ [i \in 1 .. n |-> i] \in Seq(Nat \ {0})
          /\ Len([i \in 1 .. n |-> i]) = n
      BY <3>1
    <3> QED
      BY <3>1, <3>2 DEF Names
  <2> QED
    BY <1>3, <2>1, EmptyFits DEF Tried, Other, Given
<1>4. CASE m.type = "payload"
  <2>1. ASSUME NEW n \in 0 .. (PayloadMax + 1), NEW b \in {0, 1}
        PROVE  [i \in 1 .. n |-> b * i] \in Seq(Nat)
    <3>1. n \in Nat
      BY SizeAssumption
    <3>2. \A i \in 1 .. n : b * i \in Nat
      BY <2>1, <3>1
    <3> HIDE <2>1
    <3> QED
      BY <3>1, <3>2
  <2>2. << >> \in Seq(Nat)
    BY EmptyFits DEF Fitting
  <2>3. \A t \in Tried(m) : t \in Seq(Nat)
    <3>1. Tried(m) = {[i \in 1 .. n |-> b * i] : n \in 0 .. (PayloadMax + 1), b \in {0, 1}}
      BY <1>4 DEF Tried
    <3> QED
      BY <2>1, <3>1
  <2>4. \A full \in BOOLEAN : Other(m, full) = << >>
    BY <1>4 DEF Other
  <2> QED
    BY <1>4, <2>2, <2>3, <2>4 DEF Given
<1> QED
  BY <1>1, <1>2, <1>3, <1>4 DEF IsMember

\* What a node has of each member in its raw message.
LEMMA ReadFrom ==
    ASSUME FieldsInv, NEW i \in 1 .. Len(M)
    PROVE  \E r : Read(i) = FromRaw(M[i], r) /\ OnLine(M[i], origin[i], r, i <= known)
<1>1. PICK n \in known .. Len(M) :
           /\ Len(raw) = n
           /\ \A j \in 1 .. n : OnLine(M[j], origin[j], raw[j], j <= known)
  BY DEF FieldsInv
<1>2. Len(M) \in Nat /\ IsMember(M[i]) /\ known \in Nat
  BY TheMembers DEF FieldsInv
<1>3. CASE i <= n
  BY <1>1, <1>2, <1>3 DEF Read
<1>4. CASE ~ (i <= n)
  <2>1. ~ (i <= known)
    BY <1>1, <1>2, <1>4
  <2>2. OnLine(M[i], origin[i], NotSent(M[i]), FALSE)
    BY <1>2, NotSentOnLine
  <2>3. (i <= known) = FALSE
    BY <2>1
  <2> QED
    BY <1>1, <1>4, <2>2, <2>3 DEF Read
<1> QED
  BY <1>3, <1>4

\* What stands on the line when members 1 to n were put there.
LEMMA LineOf ==
    ASSUME NEW n \in Nat, NEW r, NEW f, DOMAIN f = 1 .. n, r = [i \in 1 .. n |-> f[i]]
    PROVE  DOMAIN r = 1 .. n /\ Len(r) = n
<1>1. r \in Seq({f[i] : i \in 1 .. n})
  OBVIOUS
<1> QED
  BY <1>1

\* The invariant holds at the start.
LEMMA FieldsInit == Init => FieldsInv
<1> SUFFICES ASSUME Init PROVE FieldsInv
  OBVIOUS
<1>1. /\ kind \in DOMAIN Members /\ oldest \in 1 .. Len(M) /\ known = Len(M) /\ raw = first
  BY DEF Init
<1>2. Len(M) \in Nat \ {0} /\ DOMAIN M = 1 .. Len(M) /\ \A i \in 1 .. Len(M) : IsMember(M[i])
  BY <1>1, TheMembers
<1>3. \A i \in 1 .. Len(M) : Given(M[i], origin[i])
  <2>1. PICK j \in DOMAIN M, full \in BOOLEAN : \E t \in Tried(M[j]) :
             origin = [i \in DOMAIN M |-> IF i = j THEN t ELSE Other(M[i], full)]
    BY DEF Init
  <2>2. PICK t \in Tried(M[j]) :
             origin = [i \in DOMAIN M |-> IF i = j THEN t ELSE Other(M[i], full)]
    BY <2>1
  <2> QED
    BY <1>2, <2>2, TriedGiven
<1>4. /\ DOMAIN raw = 1 .. Len(M) /\ Len(raw) = Len(M)
      /\ \A i \in 1 .. Len(M) : OnLine(M[i], origin[i], raw[i], TRUE)
  <2>1. CASE /\ HasRoom(origin)
             /\ first = [i \in DOMAIN M |-> ToRaw(M[i], FilledIn(M[i], origin[i]))]
    <3>1. \A i \in 1 .. Len(M) : OnLine(M[i], origin[i], raw[i], TRUE)
      BY <1>1, <1>2, <1>3, <2>1, FirstOnLine DEF HasRoom
    <3>2. DOMAIN raw = 1 .. Len(M) /\ raw = [i \in 1 .. Len(M) |-> raw[i]]
      BY <1>1, <1>2, <2>1
    <3> QED
      BY <1>2, <3>1, <3>2, LineOf
  <2>2. CASE first = [i \in DOMAIN M |-> ToRaw(M[i], FromTopic(M[i], origin[i]))]
    <3>1. \A i \in 1 .. Len(M) : OnLine(M[i], origin[i], raw[i], TRUE)
      BY <1>1, <1>2, <1>3, <2>2, FirstOnLine
    <3>2. DOMAIN raw = 1 .. Len(M) /\ raw = [i \in 1 .. Len(M) |-> raw[i]]
      BY <1>1, <1>2, <2>2
    <3> QED
      BY <1>2, <3>1, <3>2, LineOf
  <2> QED
    BY <2>1, <2>2 DEF Init
<1>5. \A i \in 1 .. Len(M) : (i <= known) = TRUE
  BY <1>1, <1>2
<1>6. Len(M) \in known .. Len(M) /\ known \in oldest .. Len(M)
  BY <1>1, <1>2
<1> QED
  BY <1>1, <1>3, <1>4, <1>5, <1>6 DEF FieldsInv

\* What a node does.
LEMMA RelayIs ==
    ASSUME NEW n, Relay(n)
    PROVE  /\ raw' = [i \in 1 .. n |-> ToRaw(M[i], Read(i))]
           /\ known' = (IF n < known THEN n ELSE known)
           /\ kind' = kind /\ origin' = origin /\ oldest' = oldest /\ M' = M
<1>1. /\ raw' = [i \in 1 .. n |-> ToRaw(M[i], Read(i))]
      /\ known' = (IF n < known THEN n ELSE known)
  BY Zenon DEF Relay
<1>2. kind' = kind /\ origin' = origin /\ oldest' = oldest
  BY SMT DEF Relay
<1>3. M' = M
  BY <1>2, Zenon DEF M
<1> QED
  BY <1>1, <1>2, <1>3, Zenon

\* ... and every step keeps the invariant: a program with the driver ...
LEMMA RelayKeeps ==
    ASSUME FieldsInv, NEW n \in {oldest, Len(M)}, Relay(n)
    PROVE  FieldsInv'
<1>1. /\ raw' = [i \in 1 .. n |-> ToRaw(M[i], Read(i))]
      /\ known' = (IF n < known THEN n ELSE known)
      /\ kind' = kind /\ origin' = origin /\ oldest' = oldest /\ M' = M
  BY RelayIs, Zenon
<1>2. /\ Len(M) \in Nat \ {0} /\ \A i \in 1 .. Len(M) : IsMember(M[i])
      /\ oldest \in 1 .. Len(M) /\ known \in oldest .. Len(M)
      /\ \A i \in 1 .. Len(M) : Given(M[i], origin[i])
  BY TheMembers DEF FieldsInv
<1>3. n \in Nat /\ n <= Len(M) /\ known' \in oldest .. Len(M) /\ known' <= n
      /\ \A i \in 1 .. n : i <= known' <=> i <= known
  BY <1>1, <1>2
<1>4. ASSUME NEW i \in 1 .. n PROVE OnLine(M[i], origin[i], raw'[i], i <= known')
  <2>1. i \in 1 .. Len(M) /\ raw'[i] = ToRaw(M[i], Read(i)) /\ (i <= known') = (i <= known)
    BY <1>1, <1>2, <1>3
  <2>2. PICK r : Read(i) = FromRaw(M[i], r) /\ OnLine(M[i], origin[i], r, i <= known)
    BY <2>1, ReadFrom
  <2>3. IsMember(M[i]) /\ Given(M[i], origin[i]) /\ (i <= known) \in BOOLEAN
    BY <1>2, <2>1
  <2>4. OnLine(M[i], origin[i], ToRaw(M[i], FromRaw(M[i], r)), i <= known)
    BY <2>2, <2>3, SentOnRight, Zenon
  <2> QED
    BY <2>1, <2>2, <2>4
<1>5. DOMAIN raw' = 1 .. n /\ raw' = [i \in 1 .. n |-> raw'[i]]
  BY <1>1
<1>6. DOMAIN raw' = 1 .. n /\ Len(raw') = n
  BY <1>3, <1>5, LineOf
<1>7. n \in known' .. Len(M)
  BY <1>2, <1>3
<1> QED
  BY <1>1, <1>2, <1>3, <1>4, <1>6, <1>7 DEF FieldsInv

\* ... and a ROS node.
LEMMA BridgeKeeps ==
    ASSUME FieldsInv, Bridge
    PROVE  FieldsInv'
<1> DEFINE n == Len(M)
<1>1. /\ raw' = [i \in DOMAIN M |-> ToRaw(M[i], FromTopic(M[i], ToTopic(M[i], Read(i))))]
      /\ UNCHANGED <<kind, origin, oldest, known>> /\ M' = M
  BY DEF Bridge, M
<1>2. /\ n \in Nat \ {0} /\ DOMAIN M = 1 .. n /\ \A i \in 1 .. n : IsMember(M[i])
      /\ oldest \in 1 .. n /\ known \in oldest .. n
      /\ \A i \in 1 .. n : Given(M[i], origin[i])
  BY TheMembers DEF FieldsInv
<1>3. ASSUME NEW i \in 1 .. n PROVE OnLine(M[i], origin[i], raw'[i], i <= known)
  <2>1. raw'[i] = ToRaw(M[i], FromTopic(M[i], ToTopic(M[i], Read(i))))
    BY <1>1, <1>2
  <2>2. PICK r : Read(i) = FromRaw(M[i], r) /\ OnLine(M[i], origin[i], r, i <= known)
    BY ReadFrom
  <2>3. IsMember(M[i]) /\ Given(M[i], origin[i]) /\ (i <= known) \in BOOLEAN
    BY <1>2
  <2>4. OnLine(M[i], origin[i],
               ToRaw(M[i], FromTopic(M[i], ToTopic(M[i], FromRaw(M[i], r)))), i <= known)
    BY <2>2, <2>3, SentOnRight
  <2> QED
    BY <2>1, <2>2, <2>4
<1>4. DOMAIN raw' = 1 .. n /\ raw' = [i \in 1 .. n |-> raw'[i]]
  BY <1>1, <1>2
<1>5. DOMAIN raw' = 1 .. n /\ Len(raw') = n
  BY <1>2, <1>4, LineOf
<1>6. n \in known .. n
  BY <1>2
<1> QED
  <2>1. \E l \in known' .. Len(M') :
            /\ DOMAIN raw' = 1 .. l /\ Len(raw') = l
            /\ \A i \in 1 .. l : OnLine(M'[i], origin'[i], raw'[i], i <= known')
    BY <1>1, <1>3, <1>5, <1>6, Zenon
  <2>2. /\ kind' \in DOMAIN Members
        /\ oldest' \in 1 .. Len(M') /\ known' \in oldest' .. Len(M')
        /\ \A i \in 1 .. Len(M') : Given(M'[i], origin'[i])
    BY <1>1, <1>2 DEF FieldsInv
  <2> QED
    BY <2>1, <2>2, Zenon DEF FieldsInv

\* Every step keeps the invariant.
LEMMA FieldsStep == FieldsInv /\ [Next]_vars => FieldsInv'
<1> SUFFICES ASSUME FieldsInv, [Next]_vars PROVE FieldsInv'
  OBVIOUS
<1>1. CASE UNCHANGED vars
  BY <1>1 DEF FieldsInv, vars, M
<1> QED
  BY <1>1, RelayKeeps, BridgeKeeps DEF Next

----------------------------------------------------------------------------
\* What the invariant says of a node that reads, ...
LEMMA ReadsRight ==
    ASSUME FieldsInv, NEW i \in 1 .. Len(M)
    PROVE  ReadAs(M[i], origin[i], ToTopic(M[i], Read(i)), i <= known)
<1>1. PICK r : Read(i) = FromRaw(M[i], r) /\ OnLine(M[i], origin[i], r, i <= known)
  BY ReadFrom
<1>2. IsMember(M[i]) /\ Given(M[i], origin[i]) /\ (i <= known) \in BOOLEAN
  BY TheMembers DEF FieldsInv
<1> QED
  BY <1>1, <1>2, ReadRight

\* ... and of what is on the line.
LEMMA LineIsSet ==
    ASSUME NEW m, NEW t, Given(m, t), NEW all \in BOOLEAN, NEW r, OnLine(m, t, r, all),
           m.type \in {"name", "payload"}
    PROVE  \A j \in DOMAIN r : r[j] # Unset
<1>1. CASE m.type = "name"
  <2> DEFINE n == IF all THEN t ELSE << >>
  <2>1. n \in Names /\ r = Zeroed(NameSize, n)
    BY <1>1, EmptyFits DEF Given, OnLine
  <2> HIDE DEF n
  <2>2. \A j \in 1 .. Len(n) : n[j] \in Nat
    BY <2>1 DEF Names
  <2>3. \A j \in DOMAIN r : r[j] \in Nat
    BY <2>1, <2>2, SizeAssumption DEF Zeroed, Names
  <2> QED
    BY <2>3 DEF Unset
<1>2. CASE m.type = "payload"
  <2> DEFINE p == IF all THEN VectorCut(t) ELSE << >>
  <2>1. p \in Fitting /\ r = Sized(p)
    BY <1>2, EmptyFits, CutFits DEF Given, OnLine
  <2> HIDE DEF p
  <2>2. r \in Seq(Nat)
    BY <2>1, PayloadRead
  <2> QED
    BY <2>2 DEF Unset
<1> QED
  BY <1>1, <1>2

\* The inductive invariant holds throughout.
THEOREM FieldsInvariance == Spec => []FieldsInv
<1>1. Init => FieldsInv
  BY FieldsInit
<1>2. FieldsInv /\ [Next]_vars => FieldsInv'
  BY FieldsStep
<1> QED
  BY <1>1, <1>2, PTL DEF Spec

\* Whatever versions and kinds of node a message passes, and whatever the sizes
\* of names and payloads are, each member is read as it was given, if all nodes
\* know it, and as zero if one does not.
THEOREM ContentsSurvive == Spec => []FieldsSurvive
<1>1. FieldsInv => FieldsSurvive
  <2> SUFFICES ASSUME FieldsInv PROVE FieldsSurvive
    OBVIOUS
  <2>1. DOMAIN M = 1 .. Len(M) /\ \A i \in 1 .. Len(M) : IsMember(M[i]) /\ M[i].type \in
             {"int", "hundredths", "name", "payload"}
    BY TheMembers DEF FieldsInv, IsMember
  <2>2. Len(M) \in Nat /\ known \in Nat
    BY TheMembers DEF FieldsInv
  <2>3. ASSUME NEW i \in 1 .. Len(M)
        PROVE  LET read == ToTopic(M[i], Read(i)) IN
               CASE M[i].type = "hundredths" -> i > known => read.k = 0
                 [] M[i].type = "int" ->
                       read = IF i <= known THEN origin[i] \cap Bits(Kept(M[i])) ELSE {}
                 [] M[i].type = "name" -> read = IF i <= known THEN origin[i] ELSE << >>
                 [] M[i].type = "payload" -> read = VectorCut(origin[i])
    <3> DEFINE read == ToTopic(M[i], Read(i))
    <3>1. ReadAs(M[i], origin[i], read, i <= known)
      BY ReadsRight
    <3> HIDE DEF read
    <3>2. M[i].type = "payload" => i <= known
      BY TheMembers DEF FieldsInv
    <3>3. (i > known) = ~ (i <= known)
      BY <2>1, <2>2
    <3>4. CASE M[i].type = "hundredths"
      BY <3>1, <3>3, <3>4 DEF ReadAs, read
    <3>5. CASE M[i].type = "int"
      BY <3>1, <3>5 DEF ReadAs, read
    <3>6. CASE M[i].type = "name"
      BY <3>1, <3>6 DEF ReadAs, read
    <3>7. CASE M[i].type = "payload"
      BY <3>1, <3>2, <3>7 DEF ReadAs, read
    <3> QED
      BY <2>1, <3>4, <3>5, <3>6, <3>7
  <2> QED
    BY <2>1, <2>3 DEF FieldsSurvive
<1> QED
  BY <1>1, FieldsInvariance, PTL

\* What was never set is never sent.
THEOREM NothingUnset == Spec => []NoGarbageOnTheLine
<1>1. FieldsInv => NoGarbageOnTheLine
  <2> SUFFICES ASSUME FieldsInv PROVE NoGarbageOnTheLine
    OBVIOUS
  <2>1. PICK n \in known .. Len(M) :
             /\ DOMAIN raw = 1 .. n
             /\ \A i \in 1 .. n : OnLine(M[i], origin[i], raw[i], i <= known)
    BY DEF FieldsInv
  <2>2. /\ Len(M) \in Nat /\ known \in Nat
        /\ \A i \in 1 .. Len(M) : Given(M[i], origin[i])
    BY TheMembers DEF FieldsInv
  <2>3. ASSUME NEW i \in DOMAIN raw, M[i].type \in {"name", "payload"}
        PROVE  \A j \in DOMAIN raw[i] : raw[i][j] # Unset
    <3>1. /\ OnLine(M[i], origin[i], raw[i], i <= known) /\ Given(M[i], origin[i])
          /\ (i <= known) \in BOOLEAN
      BY <2>1, <2>2
    <3> QED
      BY <2>3, <3>1, LineIsSet
  <2> QED
    BY <2>3 DEF NoGarbageOnTheLine
<1> QED
  BY <1>1, FieldsInvariance, PTL

----------------------------------------------------------------------------
\* Hundredths, one hop.

\* The recursion that defines the powers of two has a solution.
LEMMA TwoToDef ==
    /\ TwoTo[0] = 1
    /\ \A n \in 1 .. 30 : TwoTo[n] = 2 * TwoTo[n - 1]
<1> DEFINE Eq(g) == g = [n \in 0 .. 30 |-> IF n = 0 THEN 1 ELSE 2 * g[n - 1]]
           F == [k \in 1 .. 30 |-> [v \in Nat |-> 2 * v]]
<1>1. F \in [1 .. 30 -> [Nat -> Nat]]
  OBVIOUS
<1>2. PICK g : g \in Solutions(30, Nat, 1, F)
  BY <1>1, RecursionExists
<1>3. g \in [0 .. 30 -> Nat] /\ g[0] = 1 /\ \A k \in 1 .. 30 : g[k] = 2 * g[k - 1]
  BY <1>2 DEF Solutions
<1>4. Eq(g)
  <2>1. \A n \in 0 .. 30 : n = 0 \/ n \in 1 .. 30
    OBVIOUS
  <2>2. \A n \in 0 .. 30 : g[n] = IF n = 0 THEN 1 ELSE 2 * g[n - 1]
    BY <1>3, <2>1
  <2>3. g = [n \in 0 .. 30 |-> g[n]]
    BY <1>3
  <2> QED
    BY <2>2, <2>3
<1>5. TwoTo = CHOOSE h : Eq(h)
  BY DEF TwoTo
<1> HIDE DEF Eq
<1>6. Eq(TwoTo)
  BY <1>4, <1>5
<1> QED
  BY <1>6 DEF Eq

\* The powers of two that occur.
LEMMA PowersAre ==
    /\ TwoTo[0] = 1 /\ TwoTo[1] = 2 /\ TwoTo[2] = 4 /\ TwoTo[3] = 8
    /\ TwoTo[4] = 16 /\ TwoTo[5] = 32 /\ TwoTo[6] = 64 /\ TwoTo[7] = 128
    /\ TwoTo[8] = 256 /\ TwoTo[9] = 512 /\ TwoTo[10] = 1024 /\ TwoTo[11] = 2048
    /\ TwoTo[12] = 4096 /\ TwoTo[13] = 8192 /\ TwoTo[14] = 16384 /\ TwoTo[15] = 32768
    /\ TwoTo[16] = 65536 /\ TwoTo[17] = 131072 /\ TwoTo[18] = 262144 /\ TwoTo[19] = 524288
    /\ TwoTo[20] = 1048576 /\ TwoTo[21] = 2097152 /\ TwoTo[22] = 4194304 /\ TwoTo[23] = 8388608
    /\ TwoTo[24] = 16777216 /\ TwoTo[25] = 33554432 /\ TwoTo[26] = 67108864 /\ TwoTo[27] = 134217728
    /\ TwoTo[28] = 268435456 /\ TwoTo[29] = 536870912 /\ TwoTo[30] = 1073741824
<1>0. TwoTo[0] = 1
  BY TwoToDef
<1>1. TwoTo[1] = 2
  BY <1>0, TwoToDef
<1>2. TwoTo[2] = 4
  BY <1>1, TwoToDef
<1>3. TwoTo[3] = 8
  BY <1>2, TwoToDef
<1>4. TwoTo[4] = 16
  BY <1>3, TwoToDef
<1>5. TwoTo[5] = 32
  BY <1>4, TwoToDef
<1>6. TwoTo[6] = 64
  BY <1>5, TwoToDef
<1>7. TwoTo[7] = 128
  BY <1>6, TwoToDef
<1>8. TwoTo[8] = 256
  BY <1>7, TwoToDef
<1>9. TwoTo[9] = 512
  BY <1>8, TwoToDef
<1>10. TwoTo[10] = 1024
  BY <1>9, TwoToDef
<1>11. TwoTo[11] = 2048
  BY <1>10, TwoToDef
<1>12. TwoTo[12] = 4096
  BY <1>11, TwoToDef
<1>13. TwoTo[13] = 8192
  BY <1>12, TwoToDef
<1>14. TwoTo[14] = 16384
  BY <1>13, TwoToDef
<1>15. TwoTo[15] = 32768
  BY <1>14, TwoToDef
<1>16. TwoTo[16] = 65536
  BY <1>15, TwoToDef
<1>17. TwoTo[17] = 131072
  BY <1>16, TwoToDef
<1>18. TwoTo[18] = 262144
  BY <1>17, TwoToDef
<1>19. TwoTo[19] = 524288
  BY <1>18, TwoToDef
<1>20. TwoTo[20] = 1048576
  BY <1>19, TwoToDef
<1>21. TwoTo[21] = 2097152
  BY <1>20, TwoToDef
<1>22. TwoTo[22] = 4194304
  BY <1>21, TwoToDef
<1>23. TwoTo[23] = 8388608
  BY <1>22, TwoToDef
<1>24. TwoTo[24] = 16777216
  BY <1>23, TwoToDef
<1>25. TwoTo[25] = 33554432
  BY <1>24, TwoToDef
<1>26. TwoTo[26] = 67108864
  BY <1>25, TwoToDef
<1>27. TwoTo[27] = 134217728
  BY <1>26, TwoToDef
<1>28. TwoTo[28] = 268435456
  BY <1>27, TwoToDef
<1>29. TwoTo[29] = 536870912
  BY <1>28, TwoToDef
<1>30. TwoTo[30] = 1073741824
  BY <1>29, TwoToDef
<1> QED
  BY <1>0, <1>1, <1>2, <1>3, <1>4, <1>5, <1>6, <1>7, <1>8, <1>9, <1>10, <1>11,
     <1>12, <1>13, <1>14, <1>15, <1>16, <1>17, <1>18, <1>19, <1>20, <1>21, <1>22, <1>23,
     <1>24, <1>25, <1>26, <1>27, <1>28, <1>29, <1>30, SMT

\* Those that are too small to leave a value of 16 bits 24 of them.
LEMMA Powers == \A e \in 0 .. 13 : TwoTo[e] \in Nat /\ TwoTo[e] <= 8192
BY PowersAre, SMT

\* What RoundDiv returns is within half of the divisor, and even if just there.
LEMMA RoundDivIs ==
    ASSUME NEW a \in Nat, NEW b \in {64, 100, 128}
    PROVE  LET q == RoundDiv(a, b) IN
           /\ q \in Nat
           /\ 2 * a - b <= 2 * (q * b) /\ 2 * (q * b) <= 2 * a + b
           /\ 2 * (q * b) = 2 * a - b => q % 2 = 0
<1> DEFINE d == a \div b
           r == a % b
           q == RoundDiv(a, b)
<1>1. q = IF 2 * r > b \/ (2 * r = b /\ d % 2 = 1) THEN d + 1 ELSE d
  BY DEF RoundDiv
<1> HIDE DEF q
<1>2. CASE b = 64
  <2>1. /\ d \in Nat /\ r \in Nat /\ r < 64 /\ a = 64 * d + r
        /\ q = IF 2 * r > 64 \/ (2 * r = 64 /\ d % 2 = 1) THEN d + 1 ELSE d
    BY <1>1, <1>2, SMT
  <2> HIDE DEF d, r
  <2>2. /\ q \in Nat
        /\ 2 * a - 64 <= 2 * (q * 64) /\ 2 * (q * 64) <= 2 * a + 64
        /\ 2 * (q * 64) = 2 * a - 64 => q % 2 = 0
    BY <2>1, SMT
  <2> QED
    BY <1>2, <2>2 DEF q
<1>3. CASE b = 100
  <2>1. /\ d \in Nat /\ r \in Nat /\ r < 100 /\ a = 100 * d + r
        /\ q = IF 2 * r > 100 \/ (2 * r = 100 /\ d % 2 = 1) THEN d + 1 ELSE d
    BY <1>1, <1>3, SMT
  <2> HIDE DEF d, r
  <2>2. /\ q \in Nat
        /\ 2 * a - 100 <= 2 * (q * 100) /\ 2 * (q * 100) <= 2 * a + 100
        /\ 2 * (q * 100) = 2 * a - 100 => q % 2 = 0
    BY <2>1, SMT
  <2> QED
    BY <1>3, <2>2 DEF q
<1>4. CASE b = 128
  <2>1. /\ d \in Nat /\ r \in Nat /\ r < 128 /\ a = 128 * d + r
        /\ q = IF 2 * r > 128 \/ (2 * r = 128 /\ d % 2 = 1) THEN d + 1 ELSE d
    BY <1>1, <1>4, SMT
  <2> HIDE DEF d, r
  <2>2. /\ q \in Nat
        /\ 2 * a - 128 <= 2 * (q * 128) /\ 2 * (q * 128) <= 2 * a + 128
        /\ 2 * (q * 128) = 2 * a - 128 => q % 2 = 0
    BY <2>1, SMT
  <2> QED
    BY <1>4, <2>2 DEF q
<1> QED
  BY <1>2, <1>3, <1>4

\* Each value has a power of two that leaves it 24 bits.
LEMMA ScaleExists ==
    ASSUME NEW k \in Int, 1 <= k, k <= 65535
    PROVE  \E e \in 14 .. 30 : 838860800 <= k * TwoTo[e] /\ k * TwoTo[e] <= 1677721599
<1> DEFINE Fits(e) == 838860800 <= k * TwoTo[e] /\ k * TwoTo[e] <= 1677721599
<1>1. \E e \in 14 .. 30 : Fits(e)
  <2>14. ASSUME 51200 <= k, k <= 65535 PROVE Fits(14)
    BY <2>14, PowersAre, SMT
  <2>15. ASSUME 25600 <= k, k <= 51199 PROVE Fits(15)
    BY <2>15, PowersAre, SMT
  <2>16. ASSUME 12800 <= k, k <= 25599 PROVE Fits(16)
    BY <2>16, PowersAre, SMT
  <2>17. ASSUME 6400 <= k, k <= 12799 PROVE Fits(17)
    BY <2>17, PowersAre, SMT
  <2>18. ASSUME 3200 <= k, k <= 6399 PROVE Fits(18)
    BY <2>18, PowersAre, SMT
  <2>19. ASSUME 1600 <= k, k <= 3199 PROVE Fits(19)
    BY <2>19, PowersAre, SMT
  <2>20. ASSUME 800 <= k, k <= 1599 PROVE Fits(20)
    BY <2>20, PowersAre, SMT
  <2>21. ASSUME 400 <= k, k <= 799 PROVE Fits(21)
    BY <2>21, PowersAre, SMT
  <2>22. ASSUME 200 <= k, k <= 399 PROVE Fits(22)
    BY <2>22, PowersAre, SMT
  <2>23. ASSUME 100 <= k, k <= 199 PROVE Fits(23)
    BY <2>23, PowersAre, SMT
  <2>24. ASSUME 50 <= k, k <= 99 PROVE Fits(24)
    BY <2>24, PowersAre, SMT
  <2>25. ASSUME 25 <= k, k <= 49 PROVE Fits(25)
    BY <2>25, PowersAre, SMT
  <2>26. ASSUME 13 <= k, k <= 24 PROVE Fits(26)
    BY <2>26, PowersAre, SMT
  <2>27. ASSUME 7 <= k, k <= 12 PROVE Fits(27)
    BY <2>27, PowersAre, SMT
  <2>28. ASSUME 4 <= k, k <= 6 PROVE Fits(28)
    BY <2>28, PowersAre, SMT
  <2>29. ASSUME 2 <= k, k <= 3 PROVE Fits(29)
    BY <2>29, PowersAre, SMT
  <2>30. ASSUME 1 <= k, k <= 1 PROVE Fits(30)
    BY <2>30, PowersAre, SMT
  <2> HIDE DEF Fits
  <2> QED
    BY <2>14, <2>15, <2>16, <2>17, <2>18, <2>19, <2>20, <2>21, <2>22,
       <2>23, <2>24, <2>25, <2>26, <2>27, <2>28, <2>29, <2>30, SMT
<1> QED
  BY <1>1

\* They come in sixes and sevens: what MultiplyBy100 divides by, and a rest.
LEMMA PowersSplit ==
    ASSUME NEW e \in 14 .. 30
    PROVE  /\ TwoTo[e - 7] \in Nat /\ TwoTo[e - 7] >= 1
           /\ TwoTo[e - 6] = 2 * TwoTo[e - 7] /\ TwoTo[e] = 128 * TwoTo[e - 7]
<1>1. \A n \in 0 .. 30 : TwoTo[n] \in Nat /\ TwoTo[n] >= 1
  BY PowersAre, SMT
<1>2. /\ TwoTo[e] = 2 * TwoTo[e - 1] /\ TwoTo[e - 1] = 2 * TwoTo[e - 2]
      /\ TwoTo[e - 2] = 2 * TwoTo[e - 3] /\ TwoTo[e - 3] = 2 * TwoTo[e - 4]
  BY TwoToDef, SMT
<1>3. /\ TwoTo[e - 4] = 2 * TwoTo[e - 5] /\ TwoTo[e - 5] = 2 * TwoTo[e - 6]
      /\ TwoTo[e - 6] = 2 * TwoTo[e - 7]
  BY TwoToDef, SMT
<1>4. TwoTo[e - 7] \in Nat /\ TwoTo[e - 7] >= 1
  BY <1>1, SMT
<1> QED
  BY <1>2, <1>3, <1>4, SMT

\* The float for k / 100: k scaled to 24 bits, divided by 100 and rounded.
LEMMA ScaleIs ==
    ASSUME NEW k \in Int, 1 <= k, k <= 65535
    PROVE  LET f == DivideBy100(k)  p == TwoTo[f.e] IN
           /\ f.e \in 14 .. 30 /\ p \in Nat
           /\ 838860800 <= k * p /\ k * p <= 1677721599
           /\ f.m = RoundDiv(k * p, 100)
<1> DEFINE Fits(x) == k * TwoTo[x] >= 100 * TwoTo[23] /\ (k * TwoTo[x]) \div 100 < TwoTo[24]
           e == CHOOSE x \in 0 .. 30 : Fits(x)
           p == TwoTo[e]
<1>1. \E x \in 0 .. 30 : Fits(x)
  <2>1. PICK x \in 14 .. 30 : 838860800 <= k * TwoTo[x] /\ k * TwoTo[x] <= 1677721599
    BY ScaleExists
  <2> DEFINE b == k * TwoTo[x]
  <2>2. b \in Int /\ 838860800 <= b /\ b <= 1677721599
    <3>1. TwoTo[x] \in Int
      BY PowersSplit, SMT
    <3> QED
      BY <2>1, <3>1, SMT
  <2>3. TwoTo[23] = 8388608 /\ TwoTo[24] = 16777216
    BY PowersAre
  <2> HIDE DEF b
  <2>4. b >= 100 * 8388608 /\ b \div 100 < 16777216
    BY <2>2, SMT
  <2>5. x \in 0 .. 30
    OBVIOUS
  <2> QED
    BY <2>3, <2>4, <2>5, SMT DEF b
<1>2. e \in 0 .. 30 /\ Fits(e)
  <2> HIDE DEF Fits
  <2> QED
    BY <1>1
<1>3. DivideBy100(k) = [m |-> RoundDiv(k * p, 100), e |-> e]
  BY DEF DivideBy100
<1> HIDE DEF e
<1>4. p \in Nat
  <2>1. \A n \in 0 .. 13 : TwoTo[n] \in Nat
    BY Powers
  <2>2. \A n \in 14 .. 30 : TwoTo[n] \in Nat
    BY PowersSplit, SMT
  <2> QED
    BY <1>2, <2>1, <2>2, SMT
<1> DEFINE b == k * p
<1>5. b \in Int /\ 838860800 <= b /\ b <= 1677721599
  <2>1. b \in Int /\ b >= 100 * 8388608 /\ b \div 100 < 16777216
    BY <1>2, <1>4, PowersAre, SMT
  <2> HIDE DEF b
  <2> QED
    BY <2>1, SMT
<1>6. e \in 14 .. 30
  <2>1. SUFFICES ASSUME e \in 0 .. 13 PROVE FALSE
    BY <1>2, SMT
  <2>2. p \in Nat /\ p <= 8192
    BY <2>1, Powers
  <2> HIDE DEF p
  <2>3. k * p <= 65535 * p /\ 65535 * p <= 536862720
    BY <2>2, SMT
  <2> QED
    BY <1>5, <2>2, <2>3, SMT
<1> QED
  BY <1>3, <1>4, <1>5, <1>6

\* Division of what is next to a multiple.
LEMMA NextToMultiple ==
    ASSUME NEW k \in Nat, k >= 1, NEW d \in Nat, d >= 1
    PROVE  /\ (k * d) \div d = k
           /\ d >= 2 => (k * d + 1) \div d = k /\ (k * d - 1) \div d = k - 1
<1>1. \A j \in Int, r \in Nat : r < d => (j * d + r) \div d = j
  BY SMT
<1>2. k * d - 1 = (k - 1) * d + (d - 1)
  BY SMT
<1>3. ((k - 1) * d + (d - 1)) \div d = k - 1
  BY <1>1, SMT
<1>4. (k * d + 0) \div d = k /\ (d >= 2 => (k * d + 1) \div d = k)
  BY <1>1, SMT
<1> QED
  BY <1>2, <1>3, <1>4, SMT

\* The values that may lose a hundredth: scaled to 24 bits they lie in the lower
\* part of the octave, where the multiplication divides by 64, and the division
\* by 100 rounds down by a third of a unit or more.
Loses(k) == LET b == k * TwoTo[DivideBy100(k).e]
            IN  33 <= b % 100 /\ b % 100 <= 50 /\ b < 1073741874

\* The lower part of the octave: what is rounded to one less was rounded down
\* before by a third at least.
LEMMA RoundedTwice ==
    ASSUME NEW y \in Int, y >= 1, NEW m \in Nat, y % 2 = 0,
           64 * y - 50 <= 100 * m, 100 * m <= 64 * y + 50
    PROVE  LET q == RoundDiv(m * 100, 64)  b == 64 * y IN
           /\ q = y - 1 \/ q = y \/ q = y + 1
           /\ q = y - 1 => 33 <= b % 100 /\ b % 100 <= 50
<1> DEFINE q == RoundDiv(m * 100, 64)
<1>1. /\ q \in Nat
      /\ 2 * (m * 100) - 64 <= 2 * (q * 64) /\ 2 * (q * 64) <= 2 * (m * 100) + 64
      /\ 2 * (q * 64) = 2 * (m * 100) - 64 => q % 2 = 0
  BY RoundDivIs, m * 100 \in Nat
<1> HIDE DEF q
<1>2. q = y - 1 \/ q = y \/ q = y + 1
  BY <1>1, SMT
<1>3. ASSUME q = y - 1 PROVE 33 <= (64 * y) % 100 /\ (64 * y) % 100 <= 50
  <2>1. 100 * m <= 64 * y - 33
    BY <1>1, <1>3, SMT
  <2>2. (64 * y) % 100 = 64 * y - 100 * m
    BY <2>1, SMT
  <2> QED
    BY <2>1, <2>2, SMT
<1> QED
  BY <1>2, <1>3 DEF q

\* The upper part: the rounding of the division is rounded away.
LEMMA RoundedBack ==
    ASSUME NEW y \in Int, y >= 1, NEW m \in Nat,
           128 * y - 50 <= 100 * m, 100 * m <= 128 * y + 50
    PROVE  RoundDiv(m * 100, 128) = y
<1> DEFINE q == RoundDiv(m * 100, 128)
<1>1. /\ q \in Nat
      /\ 2 * (m * 100) - 128 <= 2 * (q * 128) /\ 2 * (q * 128) <= 2 * (m * 100) + 128
  BY RoundDivIs, m * 100 \in Nat
<1> HIDE DEF q
<1> QED
  BY <1>1, SMT DEF q

\* A value is divided by 100, multiplied and cut to itself or to one less.
LEMMA TruncateIs ==
    ASSUME NEW k \in Int, 1 <= k, k <= 65535
    PROVE  LET t == Truncate(MultiplyBy100(DivideBy100(k))) IN
           t = k \/ (t = k - 1 /\ Loses(k))
<1> DEFINE f == DivideBy100(k)
           p == TwoTo[f.e]
           r == TwoTo[f.e - 7]
           b == k * p
           y == k * r
<1>1. f.e \in 14 .. 30 /\ p \in Nat /\ f.m = RoundDiv(b, 100) /\ 838860800 <= b
  BY ScaleIs
<1>2. r \in Nat /\ r >= 1 /\ p = 128 * r /\ TwoTo[f.e - 6] = 2 * r
  <2> DEFINE e == f.e
  <2>1. e \in 14 .. 30
    BY <1>1
  <2> HIDE DEF e
  <2>2. /\ TwoTo[e - 7] \in Nat /\ TwoTo[e - 7] >= 1
        /\ TwoTo[e] = 128 * TwoTo[e - 7] /\ TwoTo[e - 6] = 2 * TwoTo[e - 7]
    BY <2>1, PowersSplit
  <2> QED
    BY <2>2 DEF e
<1>3. y \in Int /\ y >= 1 /\ b = 128 * y
  <2> HIDE DEF p, r
  <2> QED
    BY <1>2, SMT
<1>4. f.m \in Nat /\ b - 50 <= 100 * f.m /\ 100 * f.m <= b + 50
  <2> HIDE DEF b, f
  <2>1. b \in Nat
    BY <1>1, <1>3, SMT
  <2>2. LET q == RoundDiv(b, 100) IN
        q \in Nat /\ 2 * b - 100 <= 2 * (q * 100) /\ 2 * (q * 100) <= 2 * b + 100
    BY <2>1, RoundDivIs
  <2> QED
    BY <1>1, <2>1, <2>2, SMT
<1>5. Loses(k) <=> (33 <= b % 100 /\ b % 100 <= 50 /\ b < 1073741874)
  BY DEF Loses
<1>6. TwoTo[30] = 1073741824 /\ TwoTo[6] = 64 /\ TwoTo[7] = 128
  BY PowersAre
<1> DEFINE a == f.m * 100
           s == IF a < TwoTo[30] THEN 6 ELSE 7
           t == Truncate(MultiplyBy100(f))
<1>7. t = RoundDiv(a, TwoTo[s]) \div TwoTo[f.e - s]
  BY DEF MultiplyBy100, Truncate
<1> HIDE DEF t, b
<1>8. k \in Nat /\ 2 * r \in Nat /\ 2 * r >= 2
  BY <1>2, SMT
<1>9. CASE a < TwoTo[30]
  <2> DEFINE z == k * (2 * r)
             q == RoundDiv(a, 64)
  <2>1. t = q \div (2 * r)
    BY <1>2, <1>6, <1>7, <1>9
  <2>2. z = 2 * y
    <3> HIDE DEF r
    <3> QED
      BY <1>2, SMT
  <2> HIDE DEF z, y
  <2>3. z \in Int /\ z >= 1 /\ z % 2 = 0 /\ b = 64 * z
    BY <1>3, <2>2, SMT
  <2>4. /\ q = z - 1 \/ q = z \/ q = z + 1
        /\ q = z - 1 => 33 <= b % 100 /\ b % 100 <= 50
    <3> HIDE DEF f
    <3>1. 64 * z - 50 <= 100 * f.m /\ 100 * f.m <= 64 * z + 50 /\ f.m \in Nat
      BY <1>4, <2>3, SMT
    <3> QED
      BY <2>3, <3>1, RoundedTwice
  <2>5. z \div (2 * r) = k /\ (z + 1) \div (2 * r) = k /\ (z - 1) \div (2 * r) = k - 1
    <3> HIDE DEF r
    <3> QED
      BY <1>8, NextToMultiple DEF z
  <2>6. b < 1073741874
    <3> HIDE DEF f
    <3> QED
      BY <1>3, <1>4, <1>6, <1>9, SMT
  <2> HIDE DEF q
  <2>7. q = z - 1 => t = k - 1 /\ Loses(k)
    BY <1>5, <2>1, <2>4, <2>5, <2>6
  <2>8. q = z \/ q = z + 1 => t = k
    BY <2>1, <2>5
  <2> QED
    BY <2>4, <2>7, <2>8 DEF t
<1>10. CASE ~ (a < TwoTo[30])
  <2>1. RoundDiv(a, 128) = y
    <3> HIDE DEF f, y
    <3> QED
      BY <1>3, <1>4, RoundedBack
  <2>2. t = y \div r
    BY <1>6, <1>7, <1>10, <2>1
  <2>3. y \div r = k
    <3> HIDE DEF r
    <3> QED
      BY <1>2, <1>8, NextToMultiple
  <2> QED
    BY <2>2, <2>3 DEF t
<1> QED
  BY <1>9, <1>10

\* A greater power of two is twice as great at least.
LEMMA PowersGrow ==
    ASSUME NEW i \in 0 .. 30, NEW j \in 0 .. 30, i < j
    PROVE  2 * TwoTo[i] <= TwoTo[j]
<1> DEFINE N == 29 - i
           T == {d \in 0 .. N : 2 * TwoTo[i] <= TwoTo[i + 1 + d]}
<1>1. \A n \in 0 .. 30 : TwoTo[n] \in Nat
  BY PowersAre, SMT
<1>2. N \in Nat /\ j - i - 1 \in 0 .. N /\ i + 1 + (j - i - 1) = j
  OBVIOUS
<1>3. 0 \in T
  <2>1. i + 1 \in 1 .. 30 /\ (i + 1) - 1 = i /\ i + 1 + 0 = i + 1
    BY <1>2
  <2>2. TwoTo[i + 1] = 2 * TwoTo[(i + 1) - 1]
    BY <2>1, TwoToDef, Zenon
  <2> QED
    BY <1>1, <1>2, <2>1, <2>2
<1>4. ASSUME NEW n \in 0 .. (N - 1), n \in T PROVE n + 1 \in T
  <2>0. /\ i + 1 + (n + 1) \in 1 .. 30 /\ (i + 1 + (n + 1)) - 1 = i + 1 + n
        /\ i + 1 + n \in 0 .. 30
    BY <1>2
  <2>1. TwoTo[i + 1 + (n + 1)] = 2 * TwoTo[i + 1 + n] /\ TwoTo[i + 1 + n] \in Nat
    BY <1>1, <2>0, TwoToDef
  <2>2. 2 * TwoTo[i] <= TwoTo[i + 1 + (n + 1)]
    BY <1>1, <1>4, <2>1
  <2> QED
    BY <1>2, <2>2
<1> HIDE DEF N
<1>5. \A n \in 0 .. N : n \in T
  <2> HIDE DEF T
  <2> QED
    BY <1>2, <1>3, <1>4, Induction
<1> QED
  BY <1>2, <1>5

\* A value and the one below it, which both may lose, have the same exponent.
LEMMA SameExponent ==
    ASSUME NEW k \in Int, 3 <= k, k <= 65535, Loses(k), Loses(k - 1)
    PROVE  DivideBy100(k - 1).e = DivideBy100(k).e
<1> DEFINE e == DivideBy100(k).e
           f == DivideBy100(k - 1).e
           p == TwoTo[e]
           q == TwoTo[f]
<1>1. e \in 14 .. 30 /\ p \in Nat /\ 838860800 <= k * p
  BY ScaleIs
<1>2. f \in 14 .. 30 /\ q \in Nat /\ 838860800 <= (k - 1) * q
  <2>1. 1 <= k - 1 /\ k - 1 <= 65535 /\ k - 1 \in Int
    OBVIOUS
  <2> QED
    BY <2>1, ScaleIs
<1>3. k * p < 1073741874 /\ (k - 1) * q < 1073741874
  BY DEF Loses
<1>4. (e < f => 2 * p <= q) /\ (f < e => 2 * q <= p)
  BY <1>1, <1>2, PowersGrow
<1> HIDE DEF e, f, p, q
<1>5. ~ (2 * p <= q)
  <2> SUFFICES ASSUME 2 * p <= q PROVE FALSE
    OBVIOUS
  <2>1. (k - 1) * (2 * p) <= (k - 1) * q
    BY <1>1, <1>2, SMT
  <2>2. 4 * (k * p) <= 3 * ((k - 1) * (2 * p))
    BY <1>1, SMT
  <2> DEFINE a == k * p
             b == (k - 1) * (2 * p)
             c == (k - 1) * q
  <2>3. a \in Int /\ b \in Int /\ c \in Int
    BY <1>1, <1>2, SMT
  <2>4. b <= c /\ 4 * a <= 3 * b /\ 838860800 <= a /\ c < 1073741874
    BY <1>1, <1>3, <2>1, <2>2
  <2> HIDE DEF a, b, c
  <2> QED
    BY <2>3, <2>4, SMT
<1>6. ~ (2 * q <= p)
  <2> SUFFICES ASSUME 2 * q <= p PROVE FALSE
    OBVIOUS
  <2>1. (k - 1) * (2 * q) <= (k - 1) * p /\ (k - 1) * p <= k * p
    BY <1>1, <1>2, SMT
  <2>2. (k - 1) * (2 * q) = 2 * ((k - 1) * q)
    BY <1>2, SMT
  <2> DEFINE a == k * p
             b == (k - 1) * q
             c == (k - 1) * p
  <2>3. a \in Int /\ b \in Int /\ c \in Int
    BY <1>1, <1>2, SMT
  <2>4. 2 * b <= c /\ c <= a /\ 838860800 <= b /\ a < 1073741874
    BY <1>2, <1>3, <2>1, <2>2
  <2> HIDE DEF a, b, c
  <2> QED
    BY <2>3, <2>4, SMT
<1> QED
  BY <1>1, <1>2, <1>4, <1>5, <1>6 DEF e, f

\* The least value loses nothing.
LEMMA OneIsSafe == ~ Loses(1)
<1> DEFINE e == DivideBy100(1).e
           p == TwoTo[e]
<1>1. e \in 14 .. 30 /\ p \in Nat /\ 838860800 <= 1 * p
  BY ScaleIs
<1>2. TwoTo[30] = 1073741824 /\ TwoTo[29] = 536870912
  BY PowersAre
<1>3. e < 29 => 2 * p <= TwoTo[29]
  BY <1>1, PowersGrow
<1>4. e = 30
  <2> HIDE DEF e
  <2> QED
    BY <1>1, <1>2, <1>3, SMT
<1>5. 1 * p = 1073741824
  BY <1>2, <1>4
<1>6. (1 * p) % 100 = 24
  BY <1>5, SMT
<1> QED
  BY <1>6 DEF Loses

\* No power of two is divisible by 100, those that occur are by 4.
LEMMA PowersRest ==
    ASSUME NEW e \in 14 .. 30
    PROVE  \E s \in Nat : TwoTo[e] = 4 * s /\ (4 * s) % 100 # 0
<1>1. TwoTo[e] = 2 * TwoTo[e - 1] /\ TwoTo[e - 1] = 2 * TwoTo[e - 2]
  BY TwoToDef, SMT
<1>2. TwoTo[e - 2] \in Nat
  BY PowersSplit, PowersAre, SMT
<1>3. \A n \in 14 .. 30 : TwoTo[n] % 100 # 0
  BY PowersAre, SMT
<1>4. TwoTo[e] = 4 * TwoTo[e - 2]
  BY <1>1, <1>2, SMT
<1> QED
  BY <1>2, <1>3, <1>4

\* A number that 100 does not divide, and what it is off the nearest multiple.
LEMMA OffTheMultiple ==
    ASSUME NEW v \in Int, v % 100 # 0
    PROVE  \E t \in Int, z \in Int : v = t + 100 * z /\ -50 <= t /\ t <= 49 /\ t # 0
<1> DEFINE r == v % 100
           d == v \div 100
<1>1. r \in Int /\ d \in Int /\ v = r + 100 * d /\ 1 <= r /\ r <= 99
  BY SMT
<1> HIDE DEF r, d
<1>2. CASE r <= 49
  BY <1>1, <1>2, SMT
<1>3. CASE r > 49
  <2>1. /\ r - 100 \in Int /\ d + 1 \in Int /\ v = (r - 100) + 100 * (d + 1)
        /\ -50 <= r - 100 /\ r - 100 <= 49 /\ r - 100 # 0
    BY <1>1, <1>3, SMT
  <2> QED
    BY <2>1, SMT
<1> QED
  BY <1>1, <1>2, <1>3, SMT

\* Five values at equal distances, all divisible by 4 but the distance not by
\* 100, do not all leave a rest of 33 to 50.
LEMMA NoFiveRests ==
    ASSUME NEW b \in Int, NEW s \in Int, b % 4 = 0, (4 * s) % 100 # 0,
           \A i \in 0 .. 4 : 33 <= (b - i * (4 * s)) % 100 /\ (b - i * (4 * s)) % 100 <= 50
    PROVE  FALSE
<1>1. PICK t \in Int, z \in Int : 4 * s = t + 100 * z /\ -50 <= t /\ t <= 49 /\ t # 0
  <2>1. 4 * s \in Int
    OBVIOUS
  <2> QED
    BY <2>1, OffTheMultiple
<1> DEFINE c(i) == b - i * (4 * s)
<1>2. c(0) \in Int /\ c(0) % 4 = 0
  BY SMT
<1>3. ASSUME NEW a \in Int, a % 4 = 0, 33 <= a % 100, a % 100 <= 50,
             33 <= (a - 4 * s) % 100, (a - 4 * s) % 100 <= 50
      PROVE  /\ a - 4 * s \in Int /\ (a - 4 * s) % 4 = 0
             /\ (a - 4 * s) % 100 = (a % 100) - t
             /\ 36 <= a % 100 /\ a % 100 <= 48
             /\ 36 <= (a - 4 * s) % 100 /\ (a - 4 * s) % 100 <= 48
  <2>1. a - 4 * s \in Int /\ (a - 4 * s) % 4 = 0
    BY <1>3, SMT
  <2>2. /\ 36 <= a % 100 /\ a % 100 <= 48
        /\ 36 <= (a - 4 * s) % 100 /\ (a - 4 * s) % 100 <= 48
    BY <1>3, <2>1, SMT
  <2>3. (a - 4 * s) % 100 = (a % 100) - t
    BY <1>1, <2>2, SMT
  <2> QED
    BY <2>1, <2>2, <2>3
<1>4. t % 4 = 0
  BY <1>1, SMT
<1>5. c(1) = c(0) - 4 * s /\ c(2) = c(1) - 4 * s /\ c(3) = c(2) - 4 * s /\ c(4) = c(3) - 4 * s
  BY SMT
<1>6. \A i \in 0 .. 4 : 33 <= c(i) % 100 /\ c(i) % 100 <= 50
  BY Zenon
<1> HIDE DEF c
<1> DEFINE Steps(i, j) == /\ c(j) \in Int /\ c(j) % 4 = 0 /\ c(j) % 100 = (c(i) % 100) - t
                          /\ 36 <= c(i) % 100 /\ c(i) % 100 <= 48
                          /\ 36 <= c(j) % 100 /\ c(j) % 100 <= 48
<1>7. Steps(0, 1)
  BY <1>2, <1>3, <1>5, <1>6, SMT
<1>8. Steps(1, 2)
  BY <1>3, <1>5, <1>6, <1>7, SMT
<1>9. Steps(2, 3)
  BY <1>3, <1>5, <1>6, <1>8, SMT
<1>10. Steps(3, 4)
  BY <1>3, <1>5, <1>6, <1>9, SMT
<1> DEFINE u == c(0) % 100
           v == c(4) % 100
<1>11. u \in Int /\ v \in Int /\ u <= 48 /\ v <= 48 /\ 36 <= u /\ 36 <= v /\ v = u - 4 * t
  BY <1>1, <1>2, <1>7, <1>8, <1>9, <1>10, SMT
<1> HIDE DEF u, v
<1> QED
  BY <1>1, <1>4, <1>11, SMT

\* However values follow each other, no five in a row lose.
LEMMA NoFiveInARow ==
    ASSUME NEW k \in Int, 5 <= k, k <= 65535
    PROVE  \E i \in 0 .. 4 : ~ Loses(k - i)
<1> SUFFICES ASSUME \A i \in 0 .. 4 : Loses(k - i) PROVE FALSE
  BY SMT
<1>1. Loses(k) /\ Loses(k - 1) /\ Loses(k - 2) /\ Loses(k - 3) /\ Loses(k - 4)
  <2>1. k - 0 = k
    BY SMT
  <2> QED
    BY <2>1, SMT
<1>2. k - 4 # 1
  <2> SUFFICES ASSUME k - 4 = 1 PROVE FALSE
    BY SMT
  <2> QED
    BY <1>1, OneIsSafe, SMT
<1> DEFINE e == DivideBy100(k).e
           p == TwoTo[e]
<1>3. \A j \in Int : 3 <= j /\ j <= 65535 /\ Loses(j) /\ Loses(j - 1)
                       => DivideBy100(j - 1).e = DivideBy100(j).e
  BY SameExponent, SMT
<1>4. \A i \in 0 .. 4 : DivideBy100(k - i).e = e
  <2>1. DivideBy100(k - 1).e = e
    BY <1>1, <1>2, <1>3, SMT
  <2>2. DivideBy100(k - 2).e = e
    <3>1. k - 1 \in Int /\ 3 <= k - 1 /\ k - 1 <= 65535 /\ (k - 1) - 1 = k - 2
      BY <1>2, SMT
    <3> QED
      BY <1>1, <1>3, <2>1, <3>1, SMT
  <2>3. DivideBy100(k - 3).e = e
    <3>1. k - 2 \in Int /\ 3 <= k - 2 /\ k - 2 <= 65535 /\ (k - 2) - 1 = k - 3
      BY <1>2, SMT
    <3> QED
      BY <1>1, <1>3, <2>2, <3>1, SMT
  <2>4. DivideBy100(k - 4).e = e
    <3>1. k - 3 \in Int /\ 3 <= k - 3 /\ k - 3 <= 65535 /\ (k - 3) - 1 = k - 4
      BY <1>2, SMT
    <3> QED
      BY <1>1, <1>3, <2>3, <3>1, SMT
  <2>5. \A i \in 0 .. 4 : i = 0 \/ i = 1 \/ i = 2 \/ i = 3 \/ i = 4
    BY SMT
  <2>6. k - 0 = k
    BY SMT
  <2> QED
    BY <2>1, <2>2, <2>3, <2>4, <2>5, <2>6, SMT
<1>5. e \in 14 .. 30
  <2>1. 1 <= k
    BY SMT
  <2> QED
    BY <2>1, ScaleIs, SMT
<1>6. PICK s \in Nat : p = 4 * s /\ (4 * s) % 100 # 0
  BY <1>5, PowersRest, SMT
<1>7. ASSUME NEW i \in 0 .. 4
      PROVE  33 <= ((k - i) * p) % 100 /\ ((k - i) * p) % 100 <= 50
  BY <1>4, SMT DEF Loses
<1> HIDE DEF p
<1> DEFINE b == k * (4 * s)
<1>8. b \in Int /\ b % 4 = 0
  BY <1>6, SMT
<1>9. ASSUME NEW i \in 0 .. 4
      PROVE  33 <= (b - i * (4 * s)) % 100 /\ (b - i * (4 * s)) % 100 <= 50
  <2>1. (k - i) * (4 * s) = b - i * (4 * s)
    BY <1>6, SMT
  <2> QED
    BY <1>6, <1>7, <2>1, SMT
<1> HIDE DEF b
<1> QED
  BY <1>6, <1>8, <1>9, NoFiveRests, SMT

\* What a hop makes of a value in range: the value, or one less of the same
\* sign, if it is one that may lose.
LEMMA ReencodedIs ==
    ASSUME NEW signed \in BOOLEAN, NEW k \in Int, Lowest(signed) <= k, k <= Highest(signed)
    PROVE  LET r == Reencoded(signed, k) IN
           /\ r \in Int /\ Lowest(signed) <= r /\ r <= Highest(signed)
           /\ Abs(r) = Abs(k) \/ (Abs(r) = Abs(k) - 1 /\ Loses(Abs(k)))
           /\ r > 0 => k > 0
           /\ r < 0 => k < 0
<1> DEFINE n == Abs(k)
           t == Truncate(MultiplyBy100(DivideBy100(n)))
           c == IF k < 0 THEN -t ELSE t
           r == Reencoded(signed, k)
<1>1. /\ Lowest(signed) \in Int /\ Highest(signed) \in Int
      /\ signed => Lowest(signed) = -32768 /\ Highest(signed) = 32767
      /\ ~ signed => Lowest(signed) = 0 /\ Highest(signed) = 65535
  BY DEF Lowest, Highest
<1>2. CASE k = 0
  <2>1. r = 0
    BY <1>2 DEF Reencoded
  <2> QED
    BY <1>1, <1>2, <2>1 DEF Abs
<1>3. CASE k # 0
  <2>1. n \in Int /\ 1 <= n /\ n <= 65535
    BY <1>1, <1>3, SMT DEF Abs
  <2>2. t = n \/ (t = n - 1 /\ Loses(n))
    <3> HIDE DEF n
    <3> QED
      BY <2>1, TruncateIs
  <2>3. t \in Int /\ t <= n /\ n - 1 <= t
    <3> HIDE DEF n, t
    <3> QED
      BY <2>1, <2>2, SMT
  <2>4. c \in Int /\ Lowest(signed) <= c /\ c <= Highest(signed)
    <3> DEFINE low == Lowest(signed)
               high == Highest(signed)
    <3>1. /\ low \in Int /\ high \in Int /\ low <= k /\ k <= high
          /\ low <= 0 /\ 0 <= high
      BY <1>1, SMT
    <3>2. (k < 0 => n = -k) /\ (~ (k < 0) => n = k)
      BY DEF Abs
    <3> HIDE DEF t, n, low, high
    <3>3. CASE k < 0
      BY <2>1, <2>3, <3>1, <3>2, <3>3, SMT DEF low, high
    <3>4. CASE ~ (k < 0)
      BY <2>1, <2>3, <3>1, <3>2, <3>4, SMT DEF low, high
    <3> QED
      BY <3>3, <3>4
  <2>5. r = Clamped(signed, c)
    BY <1>3 DEF Reencoded, ClampCast
  <2>6. r = c
    <3> HIDE DEF c, r
    <3> QED
      BY <1>1, <2>4, <2>5, SMT DEF Clamped
  <2>7. Abs(c) = t
    <3> HIDE DEF t, n
    <3> QED
      BY <2>1, <2>3, SMT DEF Abs
  <2>8. (c > 0 => k > 0) /\ (c < 0 => k < 0)
    <3> HIDE DEF t
    <3> QED
      BY <2>1, <2>3, SMT DEF Abs
  <2> HIDE DEF r, c, t, n
  <2>9. Abs(r) = n \/ (Abs(r) = n - 1 /\ Loses(n))
    BY <2>2, <2>6, <2>7
  <2> QED
    BY <2>4, <2>6, <2>8, <2>9 DEF n, r
<1> QED
  BY <1>2, <1>3

----------------------------------------------------------------------------
\* Hundredths, any number of hops.

\* The second inductive invariant: between what a member of the message is and
\* what it was first, in range, are only values that may lose.  Without that
\* each hop could lose one more.
Drifted(signed, given, r) ==
    /\ r \in Int /\ Lowest(signed) <= r /\ r <= Highest(signed)
    /\ Abs(r) <= Abs(given)
    /\ \A j \in Abs(r) + 1 .. Abs(given) : Loses(j)

DriftInv ==
    \A i \in HundredthsKnown :
        Drifted(M[i].signed, Clamped(M[i].signed, origin[i].k), raw[i])

\* What is clamped is in range.
LEMMA ClampedIs ==
    ASSUME NEW signed \in BOOLEAN, NEW n \in Int
    PROVE  LET c == Clamped(signed, n) IN
           /\ c \in Int /\ Lowest(signed) <= c /\ c <= Highest(signed)
           /\ Abs(c) \in Nat /\ Abs(c) <= 65535
           /\ n \in {0, 100} => c = n
<1>1. CASE signed
  BY <1>1, SMT DEF Clamped, Lowest, Highest, Abs
<1>2. CASE ~ signed
  BY <1>2, SMT DEF Clamped, Lowest, Highest, Abs
<1> QED
  BY <1>1, <1>2

\* What is read is what was put on the line.
LEMMA HopIs ==
    ASSUME NEW m, m.type = "hundredths", NEW r
    PROVE  /\ ToRaw(m, FromRaw(m, r)) = Reencoded(m.signed, r)
           /\ ToRaw(m, FromTopic(m, ToTopic(m, FromRaw(m, r)))) = Reencoded(m.signed, r)
BY DEF ToRaw, FromRaw, FromTopic, ToTopic, HundredthsFromRaw, HundredthsToRaw

\* The first node clamps, or loses the first hundredth.
LEMMA DriftStarts ==
    ASSUME NEW m, m.type = "hundredths", m.signed \in BOOLEAN,
           NEW t \in [k : Int, more : BOOLEAN], t.more \/ t.k \in {0, 100}
    PROVE  /\ Drifted(m.signed, Clamped(m.signed, t.k), ToRaw(m, FilledIn(m, t)))
           /\ Drifted(m.signed, Clamped(m.signed, t.k), ToRaw(m, FromTopic(m, t)))
<1> DEFINE c == Clamped(m.signed, t.k)
           r == HundredthsToRaw(m, t)
<1>1. ToRaw(m, FilledIn(m, t)) = r /\ ToRaw(m, FromTopic(m, t)) = r
  BY DEF ToRaw, FilledIn, FromTopic
<1>2. t.k \in Int /\ t.more \in BOOLEAN
  OBVIOUS
<1>3. /\ c \in Int /\ Lowest(m.signed) <= c /\ c <= Highest(m.signed)
      /\ Abs(c) \in Nat /\ (t.k \in {0, 100} => c = t.k)
  BY <1>2, ClampedIs
<1> SUFFICES Drifted(m.signed, c, r)
  BY <1>1
<1>4. CASE t.more
  <2>1. r = c
    BY <1>4 DEF HundredthsToRaw
  <2> HIDE DEF c, r
  <2>2. Abs(r) + 1 .. Abs(c) = {}
    BY <1>3, <2>1
  <2> QED
    BY <1>3, <2>1, <2>2 DEF Drifted
<1>5. CASE ~ t.more
  <2>1. r = Reencoded(m.signed, c)
    BY <1>3, <1>5 DEF HundredthsToRaw
  <2> HIDE DEF c, r
  <2>2. /\ r \in Int /\ Lowest(m.signed) <= r /\ r <= Highest(m.signed)
        /\ Abs(r) = Abs(c) \/ (Abs(r) = Abs(c) - 1 /\ Loses(Abs(c)))
    BY <1>3, <2>1, ReencodedIs
  <2>3. \A j \in Abs(r) + 1 .. Abs(c) : j = Abs(c) /\ Abs(r) = Abs(c) - 1
    BY <1>3, <2>2
  <2>4. \A j \in Abs(r) + 1 .. Abs(c) : Loses(j)
    BY <2>2, <2>3
  <2>5. Abs(r) <= Abs(c)
    BY <1>3, <2>2
  <2> QED
    BY <2>2, <2>4, <2>5 DEF Drifted
<1> QED
  BY <1>2, <1>4, <1>5

\* A hop changes a value by one at most, and keeps the invariant.
LEMMA DriftGoesOn ==
    ASSUME NEW signed \in BOOLEAN, NEW given \in Int, NEW r, Drifted(signed, given, r)
    PROVE  LET s == Reencoded(signed, r) IN
           /\ Drifted(signed, given, s)
           /\ Abs(s) \in {Abs(r), Abs(r) - 1}
           /\ s # 0 => (s > 0 <=> r > 0)
<1> DEFINE s == Reencoded(signed, r)
<1>1. /\ r \in Int /\ Lowest(signed) <= r /\ r <= Highest(signed)
      /\ Abs(r) <= Abs(given) /\ \A j \in Abs(r) + 1 .. Abs(given) : Loses(j)
  BY DEF Drifted
<1>2. /\ s \in Int /\ Lowest(signed) <= s /\ s <= Highest(signed)
      /\ Abs(s) = Abs(r) \/ (Abs(s) = Abs(r) - 1 /\ Loses(Abs(r)))
      /\ (s > 0 => r > 0) /\ (s < 0 => r < 0)
  BY <1>1, ReencodedIs
<1> HIDE DEF s
<1>3. s # 0 => (s > 0 <=> r > 0)
  BY <1>1, <1>2
<1>4. Abs(given) \in Int /\ Abs(r) \in Int
  BY <1>1 DEF Abs
<1>5. Drifted(signed, given, s)
  <2>1. \A j \in Abs(s) + 1 .. Abs(given) :
            j \in Abs(r) + 1 .. Abs(given) \/ (j = Abs(r) /\ Abs(s) = Abs(r) - 1)
    BY <1>2, <1>4
  <2>2. \A j \in Abs(s) + 1 .. Abs(given) : Loses(j)
    <3> SUFFICES ASSUME NEW j \in Abs(s) + 1 .. Abs(given) PROVE Loses(j)
      OBVIOUS
    <3>1. CASE j \in Abs(r) + 1 .. Abs(given)
      BY <1>1, <3>1
    <3>2. CASE j = Abs(r) /\ Abs(s) = Abs(r) - 1
      <4>1. Abs(s) # Abs(r)
        BY <1>4, <3>2
      <4> QED
        BY <1>2, <3>2, <4>1
    <3> QED
      BY <2>1, <3>1, <3>2
  <2>3. Abs(s) <= Abs(given)
    BY <1>1, <1>2, <1>4
  <2> QED
    BY <1>2, <2>2, <2>3 DEF Drifted
<1> QED
  BY <1>2, <1>3, <1>5 DEF s

\* No more than DriftMax values that may lose follow each other.
LEMMA DriftEnds ==
    ASSUME NEW signed \in BOOLEAN, NEW n \in Int, NEW r, Drifted(signed, Clamped(signed, n), r)
    PROVE  Abs(Clamped(signed, n)) - Abs(r) \in 0 .. DriftMax
<1> DEFINE k == Abs(Clamped(signed, n))
           a == Abs(r)
<1>1. k \in Int /\ k <= 65535
  BY ClampedIs
<1>2. a \in Int /\ 0 <= a /\ a <= k /\ \A j \in a + 1 .. k : Loses(j)
  BY DEF Drifted, Abs
<1> HIDE DEF k, a
<1>3. SUFFICES ASSUME 5 <= k - a PROVE FALSE
  BY <1>1, <1>2, SMT DEF DriftMax, k, a
<1>4. 5 <= k /\ \A i \in 0 .. 4 : k - i \in a + 1 .. k
  BY <1>1, <1>2, <1>3, SMT
<1>5. \A i \in 0 .. 4 : Loses(k - i)
  BY <1>2, <1>4
<1> QED
  BY <1>1, <1>4, <1>5, NoFiveInARow

\* Both invariants hold at the start, ...
LEMMA DriftInit == Init => DriftInv
<1> SUFFICES ASSUME Init PROVE DriftInv
  OBVIOUS
<1>1. kind \in DOMAIN Members /\ known = Len(M) /\ raw = first
  BY DEF Init
<1>2. Len(M) \in Nat \ {0} /\ DOMAIN M = 1 .. Len(M) /\ \A i \in 1 .. Len(M) : IsMember(M[i])
  BY <1>1, TheMembers
<1>3. ASSUME NEW i \in 1 .. Len(M), M[i].type = "hundredths"
      PROVE  /\ origin[i] \in [k : Int, more : BOOLEAN]
             /\ origin[i].more \/ origin[i].k \in {0, 100}
  <2>1. PICK j \in DOMAIN M, full \in BOOLEAN : \E t \in Tried(M[j]) :
             origin = [l \in DOMAIN M |-> IF l = j THEN t ELSE Other(M[l], full)]
    BY DEF Init
  <2>2. PICK t \in Tried(M[j]) :
             origin = [l \in DOMAIN M |-> IF l = j THEN t ELSE Other(M[l], full)]
    BY <2>1
  <2>3. (origin[i] = t /\ i = j) \/ origin[i] = Other(M[i], full)
    BY <1>2, <2>2
  <2>4. CASE origin[i] = t /\ i = j
    <3>1. PICK x \in Sweep : t = [k |-> x, more |-> TRUE]
      BY <1>3, <2>2, <2>4 DEF Tried
    <3> QED
      BY <2>4, <3>1, SweepAssumption
  <2>5. CASE origin[i] = Other(M[i], full)
    BY <1>3, <2>5 DEF Other
  <2> QED
    BY <2>3, <2>4, <2>5
<1>4. ASSUME NEW i \in HundredthsKnown
      PROVE  Drifted(M[i].signed, Clamped(M[i].signed, origin[i].k), raw[i])
  <2>1. i \in 1 .. Len(M) /\ i \in DOMAIN M /\ M[i].type = "hundredths" /\ M[i].signed \in BOOLEAN
    BY <1>1, <1>2 DEF HundredthsKnown, IsMember
  <2>2. \/ raw[i] = ToRaw(M[i], FilledIn(M[i], origin[i]))
        \/ raw[i] = ToRaw(M[i], FromTopic(M[i], origin[i]))
    BY <1>1, <2>1 DEF Init
  <2> QED
    BY <1>3, <2>1, <2>2, DriftStarts
<1> QED
  BY <1>4 DEF DriftInv

\* ... and each step does to a member that all know what a hop does.
LEMMA DriftHop ==
    ASSUME FieldsInv, Next, NEW i \in HundredthsKnown'
    PROVE  /\ i \in HundredthsKnown /\ M' = M /\ origin' = origin
           /\ M[i].type = "hundredths" /\ M[i].signed \in BOOLEAN
           /\ Given(M[i], origin[i])
           /\ raw'[i] = Reencoded(M[i].signed, raw[i])
<1>0. known \in Nat /\ oldest \in Nat /\ Len(M) \in Nat
  BY TheMembers DEF FieldsInv
<1>1. M' = M /\ origin' = origin /\ known' \in Nat /\ known' <= known
  BY <1>0 DEF Next, Relay, Bridge, M
<1>2. i \in 1 .. known' /\ M[i].type = "hundredths"
  BY <1>1 DEF HundredthsKnown
<1>3. /\ Len(M) \in Nat \ {0} /\ DOMAIN M = 1 .. Len(M)
      /\ \A j \in 1 .. Len(M) : IsMember(M[j]) /\ Given(M[j], origin[j])
      /\ known \in Nat /\ known <= Len(M) /\ oldest \in Nat
      /\ Len(raw) \in Nat /\ known <= Len(raw)
  BY TheMembers DEF FieldsInv
<1>4. i \in 1 .. known /\ i \in 1 .. Len(M) /\ i <= Len(raw)
  BY <1>1, <1>2, <1>3
<1>5. Read(i) = FromRaw(M[i], raw[i])
  BY <1>4 DEF Read
<1>6. \/ raw'[i] = ToRaw(M[i], Read(i))
      \/ raw'[i] = ToRaw(M[i], FromTopic(M[i], ToTopic(M[i], Read(i))))
  <2>1. ASSUME NEW n \in {oldest, Len(M)}, Relay(n)
        PROVE  raw'[i] = ToRaw(M[i], Read(i))
    <3>1. /\ raw' = [j \in 1 .. n |-> ToRaw(M[j], Read(j))]
          /\ known' = (IF n < known THEN n ELSE known)
      BY <2>1, RelayIs, Zenon
    <3>2. n \in Nat /\ known \in Nat
      BY <1>0, Zenon
    <3>3. known' <= n
      BY <3>1, <3>2
    <3>4. i \in 1 .. n
      BY <1>1, <1>2, <3>2, <3>3
    <3> QED
      BY <3>1, <3>4, Zenon
  <2>2. ASSUME Bridge
        PROVE  raw'[i] = ToRaw(M[i], FromTopic(M[i], ToTopic(M[i], Read(i))))
    BY <1>3, <1>4, <2>2 DEF Bridge
  <2> QED
    BY <2>1, <2>2 DEF Next
<1>7. raw'[i] = Reencoded(M[i].signed, raw[i])
  BY <1>2, <1>5, <1>6, HopIs
<1> QED
  BY <1>1, <1>2, <1>3, <1>4, <1>7 DEF HundredthsKnown, IsMember

\* Both invariants together hold throughout.
THEOREM DriftInvariance == Spec => [](FieldsInv /\ DriftInv)
<1>1. Init => FieldsInv /\ DriftInv
  BY FieldsInit, DriftInit
<1>2. FieldsInv /\ DriftInv /\ [Next]_vars => (FieldsInv /\ DriftInv)'
  <2> SUFFICES ASSUME FieldsInv, DriftInv, [Next]_vars PROVE (FieldsInv /\ DriftInv)'
    OBVIOUS
  <2>1. FieldsInv'
    BY FieldsStep
  <2>2. CASE UNCHANGED vars
    BY <2>1, <2>2 DEF DriftInv, HundredthsKnown, vars, M
  <2>3. CASE Next
    <3>1. ASSUME NEW i \in HundredthsKnown'
          PROVE  Drifted(M'[i].signed, Clamped(M'[i].signed, origin'[i].k), raw'[i])
      <4>1. /\ i \in HundredthsKnown /\ M' = M /\ origin' = origin
            /\ M[i].type = "hundredths" /\ M[i].signed \in BOOLEAN
            /\ Given(M[i], origin[i])
            /\ raw'[i] = Reencoded(M[i].signed, raw[i])
        BY <2>3, DriftHop
      <4>2. Drifted(M[i].signed, Clamped(M[i].signed, origin[i].k), raw[i])
        BY <4>1 DEF DriftInv
      <4>3. Clamped(M[i].signed, origin[i].k) \in Int
        BY <4>1, ClampedIs DEF Given
      <4> QED
        BY <4>1, <4>2, <4>3, DriftGoesOn
    <3> QED
      BY <2>1, <3>1 DEF DriftInv
  <2> QED
    BY <2>2, <2>3
<1> QED
  BY <1>1, <1>2, PTL DEF Spec

\* A hop changes a value by at most one hundredth, towards zero, and never its
\* sign, whatever the value and however many hops were before.
THEOREM HopLosesLittle == Spec => HopLosesAtMostOne
<1> DEFINE Little == \A i \in HundredthsKnown' :
                         /\ Abs(raw'[i]) \in {Abs(raw[i]), Abs(raw[i]) - 1}
                         /\ raw'[i] # 0 => (raw'[i] > 0 <=> raw[i] > 0)
<1>1. FieldsInv /\ DriftInv /\ [Next]_vars => [Little]_vars
  <2> SUFFICES ASSUME FieldsInv, DriftInv, Next, NEW i \in HundredthsKnown'
               PROVE  /\ Abs(raw'[i]) \in {Abs(raw[i]), Abs(raw[i]) - 1}
                      /\ raw'[i] # 0 => (raw'[i] > 0 <=> raw[i] > 0)
    OBVIOUS
  <2>1. /\ i \in HundredthsKnown /\ M[i].signed \in BOOLEAN
        /\ M[i].type = "hundredths" /\ Given(M[i], origin[i])
        /\ raw'[i] = Reencoded(M[i].signed, raw[i])
    BY DriftHop
  <2>2. Drifted(M[i].signed, Clamped(M[i].signed, origin[i].k), raw[i])
    BY <2>1 DEF DriftInv
  <2>3. Clamped(M[i].signed, origin[i].k) \in Int
    BY <2>1, ClampedIs DEF Given
  <2> QED
    BY <2>1, <2>2, <2>3, DriftGoesOn
<1>2. Spec => [][Little]_vars
  BY <1>1, DriftInvariance, PTL DEF Spec
<1> QED
  BY <1>2 DEF HopLosesAtMostOne

\* However long the way, a value comes within DriftMax hundredths of the nearest
\* in range to what was given, towards zero, whatever hundredths are given.
THEOREM DriftStaysBounded == Spec => []DriftBounded
<1>1. FieldsInv /\ DriftInv => DriftBounded
  <2> SUFFICES ASSUME FieldsInv, DriftInv, NEW i \in HundredthsKnown
               PROVE  Abs(Clamped(M[i].signed, origin[i].k)) - Abs(raw[i]) \in 0 .. DriftMax
    BY DEF DriftBounded
  <2>1. /\ Len(M) \in Nat \ {0} /\ known \in Nat /\ known <= Len(M)
        /\ \A j \in 1 .. Len(M) : IsMember(M[j]) /\ Given(M[j], origin[j])
    BY TheMembers DEF FieldsInv
  <2>2. i \in 1 .. Len(M) /\ M[i].type = "hundredths"
    BY <2>1 DEF HundredthsKnown
  <2>3. M[i].signed \in BOOLEAN /\ origin[i].k \in Int
    BY <2>1, <2>2 DEF IsMember, Given
  <2>4. Drifted(M[i].signed, Clamped(M[i].signed, origin[i].k), raw[i])
    BY DEF DriftInv
  <2> QED
    BY <2>3, <2>4, DriftEnds
<1> QED
  BY <1>1, DriftInvariance, PTL

----------------------------------------------------------------------------
\* The checksum over the contents, whose model has a state of its own.  Its
\* loops are taken for what they do to one set of bits, the register and the
\* bits to come behind it: one step of a division, which is linear.

Variants == DOMAIN Parameters

\* The bit of the register that stands i places from where bits leave it, and
\* a register seen from there.
Mirror(v, i) == IF Parameters[v].left THEN Width(v) - 1 - i ELSE i
Canon(v, S) == {i \in Register(v) : Mirror(v, i) \in S}

\* The constant seen from there.
Taps(v) == Canon(v, Parameters[v].poly)

\* What is common to the three functions.
LEMMA VariantFacts ==
    ASSUME NEW v \in Variants
    PROVE  /\ Width(v) \in {8, 16, 32}
           /\ Parameters[v].left \in BOOLEAN /\ Parameters[v].ones \in BOOLEAN
           /\ Parameters[v].inverted \in BOOLEAN
           /\ Parameters[v].left => Width(v) = 8
           /\ Parameters[v].poly \subseteq Register(v)
           /\ Width(v) - 1 \in Taps(v)
<1>1. v \in {"crc8", "crc16", "crc32"}
  BY DEF Variants, Parameters
<1>2. CASE v = "crc8"
  <2>1. /\ Width(v) = 8 /\ Parameters[v].left = TRUE
        /\ Parameters[v].ones = FALSE /\ Parameters[v].inverted = FALSE
        /\ Parameters[v].poly = {0, 1, 2}
    BY <1>2, Zenon DEF Parameters, Width
  <2>2. Parameters[v].poly \subseteq Register(v)
    BY <2>1 DEF Register
  <2>3. Width(v) - 1 \in Taps(v)
    BY <2>1 DEF Register, Taps, Canon, Mirror
  <2> QED
    BY <2>1, <2>2, <2>3, Zenon
<1>3. CASE v = "crc16"
  <2>1. /\ Width(v) = 16 /\ Parameters[v].left = FALSE
        /\ Parameters[v].ones = TRUE /\ Parameters[v].inverted = FALSE
        /\ Parameters[v].poly = {0, 13, 15}
    BY <1>3, Zenon DEF Parameters, Width
  <2>2. Parameters[v].poly \subseteq Register(v)
    BY <2>1 DEF Register
  <2>3. Width(v) - 1 \in Taps(v)
    BY <2>1 DEF Register, Taps, Canon, Mirror
  <2> QED
    BY <2>1, <2>2, <2>3, Zenon
<1>4. CASE v = "crc32"
  <2>1. /\ Width(v) = 32 /\ Parameters[v].left = FALSE
        /\ Parameters[v].ones = TRUE /\ Parameters[v].inverted = TRUE
        /\ Parameters[v].poly = {5, 8, 9, 15, 19, 20, 21, 23, 24, 26, 27, 29, 30, 31}
    BY <1>4, Zenon DEF Parameters, Width
  <2>2. Parameters[v].poly \subseteq Register(v)
    BY <2>1 DEF Register
  <2>3. Width(v) - 1 \in Taps(v)
    BY <2>1 DEF Register, Taps, Canon, Mirror
  <2> QED
    BY <2>1, <2>2, <2>3, Zenon
<1> QED
  BY <1>1, <1>2, <1>3, <1>4

\* The divisor is the constant with a one above it.
LEMMA DivisorIs ==
    ASSUME NEW v \in Variants, NEW e \in Int
    PROVE  e \in Divisor[v] <=> \/ e = Width(v)
                                \/ e < Width(v) /\ Width(v) - 1 - e \in Taps(v)
<1>1. v \in {"crc8", "crc16", "crc32"}
  BY DEF Variants, Parameters
<1>2. CASE v = "crc8"
  BY <1>2 DEF Parameters, Divisor, Width, Register, Taps, Canon, Mirror
<1>3. CASE v = "crc16"
  BY <1>3 DEF Parameters, Divisor, Width, Register, Taps, Canon, Mirror
<1>4. CASE v = "crc32"
  BY <1>4 DEF Parameters, Divisor, Width, Register, Taps, Canon, Mirror
<1> QED
  BY <1>1, <1>2, <1>3, <1>4

----------------------------------------------------------------------------
\* A step of the division: everything moves by one place; a one that leaves
\* brings in the taps.
Step(v, S) == {i \in Nat : ~ (i + 1 \in S <=> (0 \in S /\ i \in Taps(v)))}

\* The members of a symmetric difference.
LEMMA InDiff ==
    ASSUME NEW A, NEW B, NEW x
    PROVE  x \in SymDiff(A, B) <=> ~ (x \in A <=> x \in B)
BY DEF SymDiff

\* The inner loop's body is such a step.
LEMMA ShiftIsStep ==
    ASSUME NEW v \in Variants, NEW S, S \subseteq Register(v)
    PROVE  /\ Shift(v, S) \subseteq Register(v)
           /\ Canon(v, Shift(v, S)) = Step(v, Canon(v, S))
<1> DEFINE w == Width(v)
           left == Parameters[v].left
           poly == Parameters[v].poly
           T == Shift(v, S)
<1>1. /\ w \in {8, 16, 32} /\ left \in BOOLEAN /\ poly \subseteq 0 .. w - 1
      /\ Register(v) = 0 .. w - 1
  BY VariantFacts DEF Register
<1>2. \A i \in Int : i \in Taps(v) <=> 0 <= i /\ i < w /\ (IF left THEN w - 1 - i ELSE i) \in poly
  BY <1>1 DEF Taps, Canon, Mirror
<1>3. \A X : \A i \in Int :
          i \in Canon(v, X) <=> 0 <= i /\ i < w /\ (IF left THEN w - 1 - i ELSE i) \in X
  BY <1>1 DEF Canon, Mirror
<1>4. T = IF left THEN SymDiff({i + 1 : i \in S} \cap Register(v),
                               IF w - 1 \in S THEN poly ELSE {})
                  ELSE SymDiff({i - 1 : i \in S \ {0}}, IF 0 \in S THEN poly ELSE {})
  BY DEF Shift
<1> HIDE DEF w, left, poly, T
<1>5. CASE left
  <2>1. \A j : j \in T <=> ~ ((j \in {i + 1 : i \in S} /\ j \in 0 .. w - 1)
                                   <=> (w - 1 \in S /\ j \in poly))
    BY <1>1, <1>4, <1>5, InDiff
  <2>2. \A j \in Int : j \in {i + 1 : i \in S} <=> j - 1 \in S
    BY <1>1
  <2>3. \A j \in T : j \in 0 .. w - 1
    BY <1>1, <2>1
  <2>4. \A j \in 0 .. w - 1 : j \in T <=> ~ (j - 1 \in S <=> (w - 1 \in S /\ j \in poly))
    BY <1>1, <2>1, <2>2
  <2>5. ASSUME NEW i
        PROVE  i \in Canon(v, T) <=> i \in Step(v, Canon(v, S))
    <3>1. CASE i \in 0 .. w - 1
      <4>1. i \in Canon(v, T) <=> w - 1 - i \in T
        BY <1>1, <1>3, <1>5, <3>1
      <4>2. w - 1 - i \in T <=> ~ (w - 1 - i - 1 \in S <=> (w - 1 \in S /\ w - 1 - i \in poly))
        BY <1>1, <2>4, <3>1
      <4>3. i + 1 \in Canon(v, S) <=> w - 1 - i - 1 \in S
        BY <1>1, <1>3, <1>5, <3>1
      <4>4. 0 \in Canon(v, S) <=> w - 1 \in S
        BY <1>1, <1>3, <1>5
      <4>5. i \in Taps(v) <=> w - 1 - i \in poly
        BY <1>1, <1>2, <1>5, <3>1
      <4> QED
        BY <1>1, <3>1, <4>1, <4>2, <4>3, <4>4, <4>5 DEF Step
    <3>2. CASE i \notin 0 .. w - 1
      <4>1. i \notin Canon(v, T)
        BY <1>1, <3>2 DEF Canon
      <4>2. i \in Nat => i + 1 \notin Canon(v, S) /\ i \notin Taps(v)
        BY <1>1, <1>2, <1>3, <3>2
      <4> QED
        BY <4>1, <4>2 DEF Step
    <3> QED
      BY <3>1, <3>2
  <2> QED
    BY <1>1, <2>3, <2>5 DEF T
<1>6. CASE ~ left
  <2>1. \A j : j \in T <=> ~ (j \in {i - 1 : i \in S \ {0}} <=> (0 \in S /\ j \in poly))
    BY <1>4, <1>6, InDiff
  <2>2. \A j \in Int : j \in {i - 1 : i \in S \ {0}} <=> j + 1 \in S /\ j # -1
    BY <1>1
  <2>3. \A j \in T : j \in 0 .. w - 1
    <3>1. \A j \in {i - 1 : i \in S \ {0}} : j \in 0 .. w - 1
      BY <1>1
    <3> QED
      BY <1>1, <2>1, <3>1
  <2>4. \A j \in 0 .. w - 1 : j \in T <=> ~ (j + 1 \in S <=> (0 \in S /\ j \in poly))
    BY <1>1, <2>1, <2>2
  <2>5. ASSUME NEW i
        PROVE  i \in Canon(v, T) <=> i \in Step(v, Canon(v, S))
    <3>1. CASE i \in 0 .. w - 1
      <4>1. i \in Canon(v, T) <=> i \in T
        BY <1>1, <1>3, <1>6, <3>1
      <4>2. i + 1 \in Canon(v, S) <=> i + 1 \in S
        BY <1>1, <1>3, <1>6, <3>1
      <4>3. 0 \in Canon(v, S) <=> 0 \in S
        BY <1>1, <1>3, <1>6
      <4>4. i \in Taps(v) <=> i \in poly
        BY <1>1, <1>2, <1>6, <3>1
      <4> QED
        BY <1>1, <2>4, <3>1, <4>1, <4>2, <4>3, <4>4 DEF Step
    <3>2. CASE i \notin 0 .. w - 1
      <4>1. i \notin Canon(v, T)
        BY <1>1, <3>2 DEF Canon
      <4>2. i \in Nat => i + 1 \notin Canon(v, S) /\ i \notin Taps(v)
        BY <1>1, <1>2, <1>3, <3>2
      <4> QED
        BY <4>1, <4>2 DEF Step
    <3> QED
      BY <3>1, <3>2
  <2> QED
    BY <1>1, <2>3, <2>5 DEF T
<1> QED
  BY <1>1, <1>5, <1>6

\* Steps are linear.
LEMMA StepLinear ==
    ASSUME NEW v, NEW A, NEW B
    PROVE  Step(v, SymDiff(A, B)) = SymDiff(Step(v, A), Step(v, B))
<1>1. ASSUME NEW i
      PROVE  i \in Step(v, SymDiff(A, B)) <=> i \in SymDiff(Step(v, A), Step(v, B))
  BY InDiff DEF Step
<1> QED
  BY <1>1

\* A division that goes on for N steps.
IsRun(v, e, N) == /\ e \in [0 .. N -> SUBSET Nat]
                  /\ \A t \in 1 .. N : e[t] = Step(v, e[t - 1])

\* There is one from any dividend.
LEMMA RunExists ==
    ASSUME NEW v, NEW S, S \subseteq Nat, NEW N \in Nat
    PROVE  \E e : IsRun(v, e, N) /\ e[0] = S
<1> DEFINE V == SUBSET Nat
           F == [k \in 1 .. N |-> [A \in V |-> Step(v, A)]]
<1>1. \A A : Step(v, A) \in V
  BY DEF Step
<1>2. F \in [1 .. N -> [V -> V]]
  BY <1>1
<1>3. S \in V
  OBVIOUS
<1>4. PICK e : e \in Solutions(N, V, S, F)
  <2> HIDE DEF F, V
  <2> QED
    BY <1>2, <1>3, RecursionExists
<1>5. e \in [0 .. N -> V] /\ e[0] = S /\ \A k \in 1 .. N : e[k] = F[k][e[k - 1]]
  BY <1>4, Zenon DEF Solutions
<1>6. ASSUME NEW k \in 1 .. N PROVE e[k] = Step(v, e[k - 1])
  <2>1. k - 1 \in 0 .. N
    OBVIOUS
  <2> QED
    BY <1>5, <2>1
<1> QED
  BY <1>5, <1>6 DEF IsRun

\* The sum of two is one.
LEMMA RunSum ==
    ASSUME NEW v, NEW N \in Nat, NEW e, IsRun(v, e, N), NEW f, IsRun(v, f, N)
    PROVE  IsRun(v, [t \in 0 .. N |-> SymDiff(e[t], f[t])], N)
<1> DEFINE g == [t \in 0 .. N |-> SymDiff(e[t], f[t])]
<1>1. g \in [0 .. N -> SUBSET Nat]
  BY DEF IsRun, SymDiff
<1>2. ASSUME NEW t \in 1 .. N PROVE g[t] = Step(v, g[t - 1])
  <2>1. t \in 0 .. N /\ t - 1 \in 0 .. N
    OBVIOUS
  <2>2. g[t] = SymDiff(e[t], f[t]) /\ g[t - 1] = SymDiff(e[t - 1], f[t - 1])
    BY <2>1
  <2>3. e[t] = Step(v, e[t - 1]) /\ f[t] = Step(v, f[t - 1])
    BY <1>2 DEF IsRun
  <2> QED
    BY <2>2, <2>3, StepLinear
<1> QED
  BY <1>1, <1>2 DEF IsRun

----------------------------------------------------------------------------
\* The loops.

Octets == SUBSET (0 .. 7)

\* The recursion for a byte has a solution, ...
LEMMA FeedingDef ==
    ASSUME NEW v \in Variants, NEW crc, crc \subseteq Register(v), NEW b \in Octets
    PROVE  LET r == Feeding(v, crc, b) IN
           /\ r[0] = SymDiff(crc, b)
           /\ \A n \in 1 .. 8 : r[n] = Shift(v, r[n - 1])
           /\ \A n \in 0 .. 8 : r[n] \subseteq Register(v)
<1> DEFINE V == SUBSET Register(v)
           base == SymDiff(crc, b)
           F == [k \in 1 .. 8 |-> [A \in V |-> Shift(v, A)]]
           Eq(g) == g = [n \in 0 .. 8 |-> IF n = 0 THEN base ELSE Shift(v, g[n - 1])]
<1>1. \A A \in V : Shift(v, A) \in V
  BY ShiftIsStep
<1>2. F \in [1 .. 8 -> [V -> V]]
  <2> HIDE DEF V
  <2> QED
    BY <1>1
<1>3. base \in V
  <2>1. 0 .. 7 \subseteq Register(v)
    BY VariantFacts DEF Register
  <2> QED
    BY <2>1 DEF SymDiff, Octets
<1> HIDE DEF V, base
<1>4. PICK g : g \in Solutions(8, V, base, F)
  <2> HIDE DEF F
  <2> QED
    BY <1>2, <1>3, RecursionExists
<1>5. g \in [0 .. 8 -> V] /\ g[0] = base /\ \A k \in 1 .. 8 : g[k] = F[k][g[k - 1]]
  BY <1>4, Zenon DEF Solutions
<1>6. ASSUME NEW k \in 1 .. 8 PROVE g[k] = Shift(v, g[k - 1])
  <2>1. k - 1 \in 0 .. 8
    OBVIOUS
  <2> QED
    BY <1>5, <2>1
<1>7. Eq(g)
  <2>1. \A n \in 0 .. 8 : n = 0 \/ n \in 1 .. 8
    OBVIOUS
  <2>2. g = [n \in 0 .. 8 |-> g[n]]
    BY <1>5
  <2> QED
    BY <1>5, <1>6, <2>1, <2>2
<1> DEFINE r == Feeding(v, crc, b)
<1>8. r = CHOOSE h : Eq(h)
  BY DEF Feeding, base
<1> HIDE DEF Eq, r
<1>9. Eq(r)
  BY <1>7, <1>8
<1>10. /\ r[0] = base
       /\ \A n \in 1 .. 8 : r[n] = Shift(v, r[n - 1])
  BY <1>9 DEF Eq
<1>11. \A n \in 0 .. 8 : r[n] \in V
  <2> DEFINE T == {n \in 0 .. 8 : r[n] \in V}
  <2>1. 0 \in T
    BY <1>3, <1>10
  <2>2. ASSUME NEW n \in 0 .. (8 - 1), n \in T PROVE n + 1 \in T
    <3>1. n + 1 \in 1 .. 8 /\ (n + 1) - 1 = n
      OBVIOUS
    <3>2. r[n + 1] = Shift(v, r[n])
      BY <1>10, <3>1
    <3> QED
      BY <1>1, <2>2, <3>1, <3>2
  <2> HIDE DEF T
  <2>3. \A n \in 0 .. 8 : n \in T
    BY <2>1, <2>2, Induction
  <2> QED
    BY <2>3 DEF T
<1> QED
  BY <1>10, <1>11 DEF V, base, r

\* The register before the first byte.
Start(v) == IF Parameters[v].ones THEN Register(v) ELSE {}

\* ... and so has the one for a buffer.
LEMMA RunningDef ==
    ASSUME NEW v \in Variants, NEW d \in Seq(Octets)
    PROVE  LET a == Running(v, d) IN
           /\ a[0] = Start(v)
           /\ \A n \in 1 .. Len(d) : a[n] = Feeding(v, a[n - 1], d[n])[8]
           /\ \A n \in 0 .. Len(d) : a[n] \subseteq Register(v)
<1> DEFINE V == SUBSET Register(v)
           N == Len(d)
           F == [k \in 1 .. N |-> [A \in V |-> Feeding(v, A, d[k])[8]]]
           Eq(g) == g = [n \in 0 .. N |-> IF n = 0 THEN Start(v)
                                          ELSE Feeding(v, g[n - 1], d[n])[8]]
<1>1. N \in Nat /\ \A k \in 1 .. N : d[k] \in Octets
  OBVIOUS
<1>2. ASSUME NEW k \in 1 .. N, NEW A \in V PROVE Feeding(v, A, d[k])[8] \in V
  <2>1. d[k] \in Octets /\ A \subseteq Register(v) /\ 8 \in 0 .. 8
    BY <1>1
  <2>2. \A n \in 0 .. 8 : Feeding(v, A, d[k])[n] \subseteq Register(v)
    <3> HIDE DEF N, V
    <3> QED
      BY <2>1, FeedingDef
  <2> QED
    BY <2>1, <2>2
<1>3. F \in [1 .. N -> [V -> V]]
  <2> HIDE DEF V, N
  <2> QED
    BY <1>2
<1>4. Start(v) \in V
  BY DEF Start
<1> HIDE DEF V, N
<1>5. PICK g : g \in Solutions(N, V, Start(v), F)
  <2> HIDE DEF F
  <2> QED
    BY <1>1, <1>3, <1>4, RecursionExists
<1>6. g \in [0 .. N -> V] /\ g[0] = Start(v) /\ \A k \in 1 .. N : g[k] = F[k][g[k - 1]]
  BY <1>5, Zenon DEF Solutions
<1>7. ASSUME NEW k \in 1 .. N PROVE g[k] = Feeding(v, g[k - 1], d[k])[8]
  <2>1. k - 1 \in 0 .. N
    BY <1>1
  <2> QED
    BY <1>6, <2>1
<1>8. Eq(g)
  <2>1. \A n \in 0 .. N : n = 0 \/ n \in 1 .. N
    BY <1>1
  <2>2. g = [n \in 0 .. N |-> g[n]]
    BY <1>6
  <2> QED
    BY <1>6, <1>7, <2>1, <2>2
<1> DEFINE a == Running(v, d)
<1>9. a = CHOOSE h : Eq(h)
  BY DEF Running, Start, N
<1> HIDE DEF Eq, a
<1>10. Eq(a)
  BY <1>8, <1>9
<1>11. /\ a[0] = Start(v)
       /\ \A n \in 1 .. N : a[n] = Feeding(v, a[n - 1], d[n])[8]
  BY <1>1, <1>10 DEF Eq
<1>12. \A n \in 0 .. N : a[n] \in V
  <2> DEFINE T == {n \in 0 .. N : a[n] \in V}
  <2>1. 0 \in T
    BY <1>1, <1>4, <1>11
  <2>2. ASSUME NEW n \in 0 .. (N - 1), n \in T PROVE n + 1 \in T
    <3>1. n + 1 \in 1 .. N /\ (n + 1) - 1 = n /\ n + 1 \in 0 .. N
      BY <1>1
    <3>2. a[n + 1] = Feeding(v, a[n], d[n + 1])[8]
      BY <1>11, <3>1
    <3> QED
      BY <1>2, <2>2, <3>1, <3>2
  <2> HIDE DEF T
  <2>3. \A n \in 0 .. N : n \in T
    BY <1>1, <2>1, <2>2, Induction
  <2> QED
    BY <2>3 DEF T
<1> QED
  BY <1>11, <1>12 DEF V, N, a

----------------------------------------------------------------------------
\* The dividend.

\* The place of a bit of a byte in the order in which they go in.
Order(v, i) == IF Parameters[v].left THEN 7 - i ELSE i

\* A buffer as one set of bits, those that go in first first.
Stream(v, d) == {p \in Nat : \E k \in 1 .. Len(d), i \in 0 .. 7 :
                                 p = 8 * (k - 1) + i /\ Order(v, i) \in d[k]}

\* What is left of it t bits on.
Rest(v, d, t) == {i \in Nat : i + t \in Stream(v, d)}

\* Which bits a stream has.
LEMMA InStream ==
    ASSUME NEW v, NEW d \in Seq(Octets)
    PROVE  /\ \A k \in 1 .. Len(d), i \in 0 .. 7 :
                  8 * (k - 1) + i \in Stream(v, d) <=> Order(v, i) \in d[k]
           /\ \A p \in Stream(v, d) : p \in Nat /\ p < 8 * Len(d)
<1>1. Len(d) \in Nat
  OBVIOUS
<1>2. ASSUME NEW k \in 1 .. Len(d), NEW i \in 0 .. 7
      PROVE  8 * (k - 1) + i \in Stream(v, d) <=> Order(v, i) \in d[k]
  <2>1. 8 * (k - 1) + i \in Nat
    BY <1>1
  <2>2. \A l \in 1 .. Len(d), j \in 0 .. 7 : 8 * (k - 1) + i = 8 * (l - 1) + j => l = k /\ j = i
    BY <1>1, SMT
  <2> QED
    BY <2>1, <2>2, Zenon DEF Stream
<1>3. ASSUME NEW p \in Stream(v, d) PROVE p \in Nat /\ p < 8 * Len(d)
  <2>1. PICK k \in 1 .. Len(d), i \in 0 .. 7 : p = 8 * (k - 1) + i
    BY DEF Stream
  <2> QED
    BY <1>1, <2>1
<1> QED
  BY <1>2, <1>3

\* The register together with the bits to come is what the division has left.
LEMMA ByteIsEightSteps ==
    ASSUME NEW v \in Variants, NEW d \in Seq(Octets), NEW k \in 1 .. Len(d),
           NEW N, N = 8 * Len(d), NEW e, IsRun(v, e, N),
           NEW A, A \subseteq Register(v),
           e[8 * (k - 1)] = SymDiff(Canon(v, A), Rest(v, d, 8 * (k - 1)))
    PROVE  e[8 * k] = SymDiff(Canon(v, Feeding(v, A, d[k])[8]), Rest(v, d, 8 * k))
<1> DEFINE b == d[k]
           s == 8 * (k - 1)
           r == Feeding(v, A, b)
           Later(m) == {i \in Nat : i + m >= 8 /\ i + s + m \in Stream(v, d)}
           T == {m \in 0 .. 8 : e[s + m] = SymDiff(Canon(v, r[m]), Later(m))}
           w == Width(v)
           left == Parameters[v].left
<1>1. /\ Len(d) \in Nat /\ N \in Nat /\ b \in Octets /\ s \in Nat /\ s + 8 <= N /\ s + 8 = 8 * k
  OBVIOUS
<1>2. /\ r[0] = SymDiff(A, b)
      /\ \A n \in 1 .. 8 : r[n] = Shift(v, r[n - 1])
      /\ \A n \in 0 .. 8 : r[n] \subseteq Register(v)
  <2> HIDE DEF b
  <2> QED
    BY <1>1, FeedingDef
<1>3. w \in {8, 16, 32} /\ left \in BOOLEAN /\ (left => w = 8) /\ Register(v) = 0 .. w - 1
  BY VariantFacts DEF Register
<1>4. /\ \A i \in 0 .. 7 : s + i \in Stream(v, d) <=> Order(v, i) \in b
      /\ \A i \in 0 .. 7 : Order(v, i) = IF left THEN 7 - i ELSE i
  BY InStream DEF Order
<1>5. \A X, i : i \in Canon(v, X) <=> i \in 0 .. w - 1 /\ (IF left THEN w - 1 - i ELSE i) \in X
  BY <1>3 DEF Canon, Mirror
<1>6. \A i : i \in b => i \in 0 .. 7
  BY <1>1 DEF Octets
<1> HIDE DEF b, r, s, w, left
<1>7. 0 \in T
  <2>1. ASSUME NEW i
        PROVE  i \in SymDiff(Canon(v, A), Rest(v, d, s))
                   <=> i \in SymDiff(Canon(v, r[0]), Later(0))
    <3>1. i \in Canon(v, r[0]) <=> ~ (i \in Canon(v, A) <=> i \in Canon(v, b))
      BY <1>2, <1>5, InDiff
    <3>2. i \in Rest(v, d, s) <=> i \in Canon(v, b) \/ i \in Later(0)
      <4>1. CASE i \notin Nat
        BY <1>3, <1>5, <4>1 DEF Rest
      <4>2. CASE i \in 0 .. 7
        <5>1. i \in Rest(v, d, s) <=> (IF left THEN 7 - i ELSE i) \in b
          <6>1. i + s = s + i /\ i \in Nat
            BY <1>1, <4>2
          <6>2. i \in Rest(v, d, s) <=> s + i \in Stream(v, d)
            BY <6>1, Zenon DEF Rest
          <6> QED
            BY <1>4, <4>2, <6>2, Zenon
        <5>2. i \notin Later(0)
          BY <1>1, <4>2
        <5>3. i \in Canon(v, b) <=> (IF left THEN 7 - i ELSE i) \in b
          BY <1>3, <1>5, <4>2
        <5> QED
          BY <5>1, <5>2, <5>3
      <4>3. CASE i \in Nat /\ i >= 8
        <5>1. i \in Rest(v, d, s) <=> i \in Later(0)
          BY <1>1, <4>3 DEF Rest
        <5>2. i \notin Canon(v, b)
          BY <1>3, <1>5, <1>6, <4>3
        <5> QED
          BY <5>1, <5>2
      <4> QED
        BY <4>1, <4>2, <4>3
    <3>3. ~ (i \in Canon(v, b) /\ i \in Later(0))
      BY <1>3, <1>5, <1>6
    <3> QED
      BY <3>1, <3>2, <3>3, InDiff
  <2>2. SymDiff(Canon(v, A), Rest(v, d, s)) = SymDiff(Canon(v, r[0]), Later(0))
    BY <2>1, Zenon
  <2>3. s + 0 = s
    BY <1>1
  <2> QED
    BY <2>2, <2>3 DEF s
<1>8. ASSUME NEW m \in 0 .. (8 - 1), m \in T PROVE m + 1 \in T
  <2>1. e[s + (m + 1)] = Step(v, e[s + m])
    <3>1. s + (m + 1) \in 1 .. N /\ (s + (m + 1)) - 1 = s + m
      BY <1>1
    <3> QED
      BY <3>1 DEF IsRun
  <2>2. e[s + m] = SymDiff(Canon(v, r[m]), Later(m))
    BY <1>8
  <2>3. e[s + (m + 1)] = SymDiff(Step(v, Canon(v, r[m])), Step(v, Later(m)))
    <3> DEFINE P == Canon(v, r[m])
               Q == Later(m)
    <3>1. Step(v, SymDiff(P, Q)) = SymDiff(Step(v, P), Step(v, Q))
      <4> HIDE DEF P, Q
      <4> QED
        BY StepLinear
    <3>2. e[s + (m + 1)] = Step(v, SymDiff(P, Q))
      BY <2>1, <2>2, Zenon
    <3> QED
      BY <3>1, <3>2, Zenon
  <2>4. Step(v, Canon(v, r[m])) = Canon(v, r[m + 1])
    <3>1. r[m + 1] = Shift(v, r[m]) /\ r[m] \subseteq Register(v)
      BY <1>2
    <3> QED
      BY <3>1, ShiftIsStep
  <2>5. Step(v, Later(m)) = Later(m + 1)
    <3>1. 0 \notin Later(m)
      OBVIOUS
    <3>2. \A i \in Nat : i + 1 \in Later(m) <=> i \in Later(m + 1)
      BY <1>1
    <3> HIDE DEF Later
    <3>3. Step(v, Later(m)) = {i \in Nat : i + 1 \in Later(m)}
      BY <3>1 DEF Step
    <3>4. \A i : i \in Later(m + 1) => i \in Nat
      BY DEF Later
    <3> QED
      BY <3>2, <3>3, <3>4
  <2> HIDE DEF Later
  <2> QED
    BY <2>3, <2>4, <2>5
<1>9. 8 \in T
  <2> HIDE DEF T
  <2> QED
    BY <1>7, <1>8, Induction
<1>10. Later(8) = Rest(v, d, 8 * k)
  BY <1>1 DEF Rest
<1>11. e[8 * k] = SymDiff(Canon(v, r[8]), Rest(v, d, 8 * k))
  <2> HIDE DEF Later
  <2> QED
    BY <1>1, <1>9, <1>10
<1> QED
  BY <1>11 DEF r, b

\* After every byte, too; in the end the register is all that is left.
LEMMA StreamIsDivided ==
    ASSUME NEW v \in Variants, NEW d \in Seq(Octets), NEW N, N = 8 * Len(d),
           NEW e, IsRun(v, e, N), e[0] = SymDiff(Canon(v, Start(v)), Stream(v, d))
    PROVE  /\ \A k \in 0 .. Len(d) :
                  e[8 * k] = SymDiff(Canon(v, Running(v, d)[k]), Rest(v, d, 8 * k))
           /\ e[N] = Canon(v, Running(v, d)[Len(d)])
<1> DEFINE n == Len(d)
           a == Running(v, d)
           T == {k \in 0 .. n : e[8 * k] = SymDiff(Canon(v, a[k]), Rest(v, d, 8 * k))}
<1>1. n \in Nat
  OBVIOUS
<1>2. /\ a[0] = Start(v)
      /\ \A k \in 1 .. n : a[k] = Feeding(v, a[k - 1], d[k])[8]
      /\ \A k \in 0 .. n : a[k] \subseteq Register(v)
  BY RunningDef, Zenon
<1>3. \A p \in Stream(v, d) : p \in Nat /\ p < 8 * n
  BY InStream
<1> HIDE DEF a, n
<1>4. 0 \in T
  <2>1. Rest(v, d, 8 * 0) = Stream(v, d)
    BY <1>3 DEF Rest
  <2>2. 8 * 0 = 0 /\ 0 \in 0 .. n
    BY <1>1
  <2> QED
    BY <1>2, <2>1, <2>2, Zenon
<1>5. ASSUME NEW k \in 0 .. (n - 1), k \in T PROVE k + 1 \in T
  <2>1. k + 1 \in 1 .. n /\ (k + 1) - 1 = k /\ k + 1 \in 0 .. n /\ k \in 0 .. n
    BY <1>1
  <2>2. e[8 * k] = SymDiff(Canon(v, a[k]), Rest(v, d, 8 * k))
    BY <1>5
  <2>3. a[k] \subseteq Register(v) /\ a[k + 1] = Feeding(v, a[k], d[k + 1])[8]
    BY <1>2, <2>1
  <2>4. ASSUME NEW l \in 1 .. n, l - 1 = k
        PROVE  e[8 * l] = SymDiff(Canon(v, Feeding(v, a[k], d[l])[8]), Rest(v, d, 8 * l))
    <3>1. e[8 * (l - 1)] = SymDiff(Canon(v, a[k]), Rest(v, d, 8 * (l - 1)))
      BY <2>2, <2>4, Zenon
    <3>2. l \in 1 .. Len(d)
      BY DEF n
    <3> DEFINE A == a[k]
    <3>3. A \subseteq Register(v)
      BY <2>3
    <3>4. e[8 * (l - 1)] = SymDiff(Canon(v, A), Rest(v, d, 8 * (l - 1)))
      BY <3>1
    <3> HIDE DEF T, A
    <3>5. e[8 * l] = SymDiff(Canon(v, Feeding(v, A, d[l])[8]), Rest(v, d, 8 * l))
      BY <3>2, <3>3, <3>4, ByteIsEightSteps
    <3> QED
      BY <3>5 DEF A
  <2>5. e[8 * (k + 1)] = SymDiff(Canon(v, Feeding(v, a[k], d[k + 1])[8]),
                                 Rest(v, d, 8 * (k + 1)))
    BY <2>1, <2>4, Zenon
  <2> QED
    BY <2>1, <2>3, <2>5, Zenon
<1>6. \A k \in 0 .. n : k \in T
  <2> HIDE DEF T
  <2> QED
    BY <1>1, <1>4, <1>5, Induction
<1>7. Rest(v, d, 8 * n) = {}
  BY <1>1, <1>3 DEF Rest
<1>8. e[N] = SymDiff(Canon(v, a[n]), {})
  <2>1. n \in 0 .. n
    BY <1>1
  <2>2. N = 8 * n
    BY DEF n
  <2> QED
    BY <1>6, <1>7, <2>1, <2>2, Zenon
<1>9. ASSUME NEW S PROVE SymDiff(S, {}) = S
  <2>1. \A x : x \in SymDiff(S, {}) <=> x \in S
    BY InDiff, Zenon
  <2> QED
    BY <2>1, Zenon
<1> QED
  BY <1>6, <1>8, <1>9, Zenon DEF a, n

\* What is subtracted from a dividend of degree m.
Subtrahend(v, m) == {y + m - Width(v) : y \in Divisor[v]}

\* A division of p, whose degree is less than D.
IsDivision(v, p, D, r) ==
    /\ r[D] = p
    /\ \A x \in (Width(v) - 1) .. (D - 1) :
           r[x] = IF x + 1 \in r[x + 1]
                  THEN SymDiff(r[x + 1], Subtrahend(v, x + 1))
                  ELSE r[x + 1]

\* Its recursion has a solution.
LEMMA DividingDef ==
    ASSUME NEW v \in Variants, NEW p \in SUBSET Int, NEW D \in Nat, D >= Width(v)
    PROVE  IsDivision(v, p, D, Dividing(v, p, D))
<1> DEFINE w == Width(v)
           r == Dividing(v, p, D)
           Body(x, A) == IF x + 1 \in A
                         THEN SymDiff(A, {y + x + 1 - w : y \in Divisor[v]})
                         ELSE A
           Eq(g) == g = [x \in (w - 1) .. D |->
                            IF x = D THEN p
                            ELSE IF x + 1 \in g[x + 1]
                                 THEN SymDiff(g[x + 1], {y + x + 1 - w : y \in Divisor[v]})
                                 ELSE g[x + 1]]
           V == SUBSET Int
           L == D - (w - 1)
           F == [k \in 1 .. L |-> [A \in V |-> Body(D - k, A)]]
<1>1. w \in {8, 16, 32} /\ w \in Nat
  BY VariantFacts
<1>2. L \in Nat
  BY <1>1
<1>3. Divisor[v] \subseteq Int
  BY DEF Variants, Parameters, Divisor
<1> HIDE DEF w
<1>4. ASSUME NEW x \in Int, NEW A \in V PROVE Body(x, A) \in V
  <2>1. {y + x + 1 - w : y \in Divisor[v]} \in V
    BY <1>1, <1>3
  <2> HIDE DEF V
  <2>2. \A B \in V : SymDiff(A, B) \in V
    BY DEF V, SymDiff
  <2> QED
    BY <2>1, <2>2
<1>5. F \in [1 .. L -> [V -> V]]
  <2>1. ASSUME NEW k \in 1 .. L, NEW A \in V PROVE Body(D - k, A) \in V
    <3>1. D - k \in Int
      BY <1>2
    <3> HIDE DEF V, Body, L
    <3> QED
      BY <1>4, <3>1
  <2> HIDE DEF V, Body, L
  <2> QED
    BY <2>1
<1> HIDE DEF V, L, Body
<1>6. PICK g : g \in Solutions(L, V, p, F)
  <2>1. p \in V
    BY DEF V
  <2> HIDE DEF F
  <2> QED
    BY <1>2, <1>5, <2>1, RecursionExists
<1>7. g \in [0 .. L -> V] /\ g[0] = p /\ \A k \in 1 .. L : g[k] = F[k][g[k - 1]]
  BY <1>6, Zenon DEF Solutions
<1>8. ASSUME NEW k \in 1 .. L PROVE g[k] = Body(D - k, g[k - 1])
  <2>1. k - 1 \in 0 .. L
    BY <1>2
  <2> QED
    BY <1>7, <2>1
<1> DEFINE h == [x \in (w - 1) .. D |-> g[D - x]]
<1>9. ASSUME NEW x \in (w - 1) .. (D - 1)
      PROVE  h[x] = Body(x, h[x + 1])
  <2>1. D - x \in 1 .. L /\ D - (D - x) = x /\ (D - x) - 1 = D - (x + 1)
        /\ x + 1 \in (w - 1) .. D /\ x \in (w - 1) .. D
    BY <1>1 DEF L
  <2>2. g[D - x] = Body(x, g[D - (x + 1)])
    BY <1>8, <2>1
  <2> QED
    BY <2>1, <2>2, Zenon
<1>10. h[D] = p
  <2>1. D \in (w - 1) .. D /\ D - D = 0
    BY <1>1 DEF w
  <2> QED
    BY <1>7, <2>1
<1>11. Eq(h)
  <2>1. \A x \in (w - 1) .. D : x = D \/ x \in (w - 1) .. (D - 1)
    BY <1>1
  <2>2. h = [x \in (w - 1) .. D |-> h[x]]
    OBVIOUS
  <2>3. \A x \in (w - 1) .. D : h[x] = IF x = D THEN p ELSE Body(x, h[x + 1])
    <3> HIDE DEF h
    <3> QED
      BY <1>1, <1>9, <1>10, <2>1
  <2>4. h = [x \in (w - 1) .. D |-> IF x = D THEN p ELSE Body(x, h[x + 1])]
    <3> HIDE DEF h
    <3> QED
      BY <2>2, <2>3
  <2> HIDE DEF h
  <2> QED
    BY <2>4, Zenon DEF Body
<1>12. r = CHOOSE f : Eq(f)
  BY DEF Dividing, w
<1> HIDE DEF Eq, h, r
<1>13. Eq(r)
  BY <1>11, <1>12
<1>14. r[D] = p /\ \A x \in (w - 1) .. (D - 1) : r[x] = Body(x, r[x + 1])
  <2>1. r = [x \in (w - 1) .. D |-> IF x = D THEN p ELSE Body(x, r[x + 1])]
    BY <1>13, Zenon DEF Eq, Body
  <2>2. D \in (w - 1) .. D /\ \A x \in (w - 1) .. (D - 1) : x \in (w - 1) .. D /\ x # D
    BY <1>1 DEF w
  <2>3. r[D] = p
    BY <2>1, <2>2, Zenon
  <2>4. ASSUME NEW x \in (w - 1) .. (D - 1) PROVE r[x] = Body(x, r[x + 1])
    BY <2>1, <2>2, Zenon
  <2> QED
    BY <2>3, <2>4
<1>15. ASSUME NEW x \in (w - 1) .. (D - 1)
       PROVE  {y + x + 1 - w : y \in Divisor[v]} = Subtrahend(v, x + 1)
  <2>1. \A y \in Int : y + x + 1 - w = y + (x + 1) - w
    BY <1>1
  <2> QED
    BY <1>3, <2>1, Zenon DEF Subtrahend, w
<1>16. IsDivision(v, p, D, r)
  BY <1>14, <1>15, Zenon DEF Body, w, IsDivision
<1> QED
  BY <1>16 DEF r

\* Where the bits of a buffer stand in its polynomial.
LEMMA PolynomialIs ==
    ASSUME NEW v \in Variants, NEW d \in Seq(Octets), NEW x \in Int
    PROVE  x \in Polynomial(v, d)
               <=> 8 * Len(d) + Width(v) - 1 - x
                       \in SymDiff(Canon(v, Start(v)), Stream(v, d))
<1> DEFINE n == Len(d)
           w == Width(v)
           left == Parameters[v].left
           ones == Parameters[v].ones
           q == 8 * n + w - 1 - x
           Exponent(k, i) == w + 8 * n - 8 * k + (IF left THEN i ELSE 7 - i)
           bits == UNION {{Exponent(k, i) : i \in d[k]} : k \in DOMAIN d}
           top == IF ones THEN 8 * n .. (8 * n + w - 1) ELSE {}
<1>1. /\ n \in Nat /\ DOMAIN d = 1 .. n
      /\ \A k \in 1 .. n : d[k] \subseteq 0 .. 7
  BY DEF Octets
<1>2. w \in {8, 16, 32} /\ left \in BOOLEAN /\ ones \in BOOLEAN /\ Register(v) = 0 .. w - 1
  BY VariantFacts DEF Register
<1>3. Polynomial(v, d) = SymDiff(bits, top)
  BY DEF Polynomial
<1>4. \A i \in 0 .. 7 : Order(v, i) = IF left THEN 7 - i ELSE i
  BY DEF Order
<1>5. \A S : Canon(v, S) = {i \in Register(v) : (IF left THEN w - 1 - i ELSE i) \in S}
  BY DEF Canon, Mirror
<1>6. Start(v) = IF ones THEN Register(v) ELSE {}
  BY DEF Start
<1>7. \A p : p \in Stream(v, d) <=> p \in Nat /\ \E k \in 1 .. n, i \in 0 .. 7 :
                                         p = 8 * (k - 1) + i /\ Order(v, i) \in d[k]
  BY DEF Stream
<1> HIDE DEF n, w, left, ones
<1>8. x \in bits <=> q \in Stream(v, d)
  <2>1. x \in bits <=> \E k \in 1 .. n : \E i \in d[k] : x = Exponent(k, i)
    <3> HIDE DEF Exponent
    <3> QED
      BY <1>1
  <2>2. ASSUME NEW k \in 1 .. n, NEW i \in d[k], x = Exponent(k, i)
        PROVE  q \in Stream(v, d)
    <3> DEFINE j == IF left THEN 7 - i ELSE i
    <3>1. i \in 0 .. 7
      BY <1>1
    <3>2. j \in 0 .. 7 /\ q = 8 * (k - 1) + j /\ q \in Nat
      BY <1>1, <1>2, <2>2, <3>1
    <3>3. Order(v, j) = i
      BY <1>2, <1>4, <3>1
    <3> HIDE DEF j, q
    <3> QED
      BY <1>7, <3>2, <3>3
  <2>3. ASSUME NEW k \in 1 .. n, NEW i \in 0 .. 7, q = 8 * (k - 1) + i, Order(v, i) \in d[k]
        PROVE  x \in bits
    <3> DEFINE j == IF left THEN 7 - i ELSE i
    <3>1. j \in d[k]
      BY <1>4, <2>3
    <3>2. x = Exponent(k, j)
      <4>1. x = 8 * n + w - 8 * k + 7 - i
        <5>1. w \in Int /\ n \in Int /\ k \in Int /\ i \in Int
          BY <1>1, <1>2
        <5>2. 8 * n + w - 1 - x = 8 * (k - 1) + i
          BY <2>3
        <5> HIDE DEF q, bits, top, j, Exponent
        <5> QED
          BY <5>1, <5>2
      <4>2. CASE left
        BY <1>1, <1>2, <2>3, <4>1, <4>2
      <4>3. CASE ~ left
        BY <1>1, <1>2, <2>3, <4>1, <4>3
      <4> QED
        BY <1>2, <4>2, <4>3
    <3> HIDE DEF j, Exponent, bits
    <3> QED
      BY <2>1, <3>1, <3>2
  <2> HIDE DEF bits, q, Exponent
  <2>4. x \in bits => q \in Stream(v, d)
    BY <2>1, <2>2
  <2>5. ASSUME q \in Stream(v, d) PROVE x \in bits
    <3>1. PICK k \in 1 .. n, i \in 0 .. 7 : q = 8 * (k - 1) + i /\ Order(v, i) \in d[k]
      BY <1>7, <2>5
    <3> QED
      BY <2>3, <3>1
  <2> QED
    BY <2>4, <2>5
<1>9. x \in top <=> q \in Canon(v, Start(v))
  <2>1. CASE ones
    <3>1. x \in top <=> q \in 0 .. w - 1
      BY <1>1, <1>2, <2>1
    <3>2. Start(v) = 0 .. w - 1
      BY <1>2, <1>6, <2>1
    <3>3. q \in Canon(v, 0 .. w - 1) <=> q \in 0 .. w - 1
      <4> HIDE DEF q
      <4> QED
        BY <1>2, <1>5
    <3> QED
      BY <3>1, <3>2, <3>3, Zenon
  <2>2. CASE ~ ones
    <3>1. x \notin top /\ Start(v) = {}
      BY <1>6, <2>2
    <3> HIDE DEF q, top
    <3> QED
      BY <1>5, <3>1
  <2> QED
    BY <1>2, <2>1, <2>2
<1>10. q \in SymDiff(Canon(v, Start(v)), Stream(v, d)) <=> x \in SymDiff(bits, top)
  <2> HIDE DEF q, bits, top
  <2> QED
    BY <1>8, <1>9, InDiff
<1> QED
  BY <1>3, <1>10 DEF n, w

\* The division of the polynomial is the division of the stream of bits.
LEMMA DividingIsRun ==
    ASSUME NEW v \in Variants, NEW d \in Seq(Octets), NEW N, N = 8 * Len(d),
           NEW e, IsRun(v, e, N), e[0] = SymDiff(Canon(v, Start(v)), Stream(v, d))
    PROVE  LET rem == Dividing(v, Polynomial(v, d), N + Width(v))[Width(v) - 1] IN
           /\ rem \subseteq Int
           /\ \A x \in Int : x \in rem <=> Width(v) - 1 - x \in e[N]
<1> DEFINE w == Width(v)
           D == N + w
           p == Polynomial(v, d)
           r == Dividing(v, p, D)
           Below(m) == {y + m - w : y \in Divisor[v]}
           Agree(t) == \A x \in Int : x \in r[D - 1 - t] <=> D - 1 - t - x \in e[t]
           T == {t \in 0 .. N : r[D - 1 - t] \subseteq Int /\ Agree(t)}
<1>1. N \in Nat /\ w \in {8, 16, 32} /\ D \in Nat /\ D >= w
  BY VariantFacts
<1>2. /\ e[0] = SymDiff(Canon(v, Start(v)), Stream(v, d))
      /\ \A t \in 1 .. N : e[t] = Step(v, e[t - 1])
      /\ \A t \in 0 .. N : e[t] \subseteq Nat
  BY DEF IsRun
<1>3. \A x \in Int : x \in p <=> D - 1 - x \in e[0]
  <2>1. ASSUME NEW x \in Int PROVE x \in p <=> D - 1 - x \in e[0]
    <3>1. D - 1 - x = 8 * Len(d) + w - 1 - x
      <4>1. w \in Int /\ Len(d) \in Int
        BY <1>1
      <4> HIDE DEF w
      <4> QED
        BY <4>1
    <3>2. x \in p <=> 8 * Len(d) + w - 1 - x \in SymDiff(Canon(v, Start(v)), Stream(v, d))
      BY PolynomialIs
    <3> QED
      BY <1>2, <3>1, <3>2, Zenon
  <2> QED
    BY <2>1
<1>4. p \subseteq Int
  <2>1. \A k \in DOMAIN d : d[k] \subseteq 0 .. 7
    BY DEF Octets
  <2>2. w \in Int /\ Len(d) \in Int
    BY <1>1
  <2> QED
    <3> DEFINE Exponent(k, i) == w + 8 * Len(d) - 8 * k
                                 + (IF Parameters[v].left THEN i ELSE 7 - i)
               bits == UNION {{Exponent(k, i) : i \in d[k]} : k \in DOMAIN d}
    <3>1. ASSUME NEW k \in DOMAIN d, NEW i \in d[k] PROVE Exponent(k, i) \in Int
      <4>1. k \in Int /\ i \in Int
        BY <2>1
      <4> HIDE DEF w
      <4> QED
        BY <2>2, <4>1
    <3>2. 8 * Len(d) .. (8 * Len(d) + w - 1) \subseteq Int
      OBVIOUS
    <3>3. bits \subseteq Int
      <4> HIDE DEF Exponent
      <4> QED
        BY <3>1
    <3>4. p = SymDiff(bits, IF Parameters[v].ones
                            THEN 8 * Len(d) .. (8 * Len(d) + w - 1) ELSE {})
      BY Zenon DEF Polynomial
    <3> HIDE DEF bits, p, w
    <3> QED
      BY <3>2, <3>3, <3>4, Zenon DEF SymDiff
<1> HIDE DEF w, D, p
<1>5. Divisor[v] \subseteq Int
  BY DEF Variants, Parameters, Divisor
<1>6. /\ r[D] = p
      /\ \A x \in (w - 1) .. (D - 1) :
             r[x] = IF x + 1 \in r[x + 1] THEN SymDiff(r[x + 1], Below(x + 1)) ELSE r[x + 1]
  <2> HIDE DEF r
  <2>1. r = Dividing(v, p, D) /\ w = Width(v)
    BY DEF r, w
  <2>2. \A x : Below(x) = Subtrahend(v, x)
    BY DEF Subtrahend, w
  <2>3. /\ r[D] = p
        /\ \A x \in (w - 1) .. (D - 1) :
               r[x] = IF x + 1 \in r[x + 1]
                      THEN SymDiff(r[x + 1], Subtrahend(v, x + 1))
                      ELSE r[x + 1]
    <3>1. v \in Variants /\ p \in SUBSET Int /\ D \in Nat /\ D >= Width(v)
      BY <1>1, <1>4, <2>1
    <3>2. IsDivision(v, p, D, Dividing(v, p, D))
      BY <3>1, DividingDef
    <3> QED
      BY <2>1, <3>2, Zenon DEF IsDivision
  <2> HIDE DEF Below
  <2> QED
    BY <2>2, <2>3, Zenon
<1>7. \A y \in Int : y \in Divisor[v] <=> y = w \/ (y < w /\ w - 1 - y \in Taps(v))
  BY DivisorIs DEF w
<1> HIDE DEF r
<1>8. 0 \in T
  <2>1. D \notin p
    <3>1. D - 1 - D \notin e[0]
      BY <1>1, <1>2
    <3> QED
      BY <1>1, <1>3, <3>1
  <2>2. D - 1 \in (w - 1) .. (D - 1) /\ (D - 1) + 1 = D /\ D - 1 - 0 = D - 1
    BY <1>1
  <2>3. r[D - 1] = p
    BY <1>6, <2>1, <2>2, Zenon
  <2>4. Agree(0)
    BY <1>3, <2>2, <2>3, Zenon
  <2>5. r[D - 1 - 0] \subseteq Int
    BY <1>4, <2>2, <2>3, Zenon
  <2>6. 0 \in 0 .. N
    BY <1>1
  <2> HIDE DEF Agree
  <2> QED
    BY <2>4, <2>5, <2>6
<1>9. ASSUME NEW t \in 0 .. (N - 1), t \in T PROVE t + 1 \in T
  <2> DEFINE m == D - 1 - t
  <2>1. m - 1 \in (w - 1) .. (D - 1) /\ (m - 1) + 1 = m /\ D - 1 - (t + 1) = m - 1 /\ m \in Int
    BY <1>1 DEF D
  <2>2. \A x \in Int : x \in r[m] <=> m - x \in e[t]
    BY <1>9
  <2>3. t + 1 \in 1 .. N /\ (t + 1) - 1 = t /\ t \in 0 .. N /\ t + 1 \in 0 .. N
    BY <1>1
  <2>4. e[t + 1] = Step(v, e[t]) /\ e[t] \subseteq Nat
    BY <1>2, <2>3
  <2> HIDE DEF m
  <2>5. r[m - 1] = IF m \in r[m] THEN SymDiff(r[m], Below(m)) ELSE r[m]
    <3>1. m - 1 \in (w - 1) .. (D - 1)
      BY <2>1
    <3>2. r[m - 1] = IF (m - 1) + 1 \in r[(m - 1) + 1]
                     THEN SymDiff(r[(m - 1) + 1], Below((m - 1) + 1))
                     ELSE r[(m - 1) + 1]
      BY <1>6, <3>1, Zenon
    <3> HIDE DEF Below
    <3> QED
      BY <2>1, <3>2, Zenon
  <2>6. m \in r[m] <=> 0 \in e[t]
    <3>1. m - m = 0
      BY <2>1
    <3>2. m \in r[m] <=> m - m \in e[t]
      BY <2>1, <2>2, Zenon
    <3> QED
      BY <3>1, <3>2, Zenon
  <2>7. ASSUME NEW x \in Int
        PROVE  x \in r[m - 1] <=> m - 1 - x \in e[t + 1]
    <3>1. x \in Below(m) <=> x = m \/ (x < m /\ m - 1 - x \in Taps(v))
      <4>1. x \in Below(m) <=> x - m + w \in Divisor[v]
        <5>1. w \in Int /\ m \in Int
          BY <1>1, <2>1
        <5>2. \A y \in Int : x = y + m - w <=> y = x - m + w
          BY <5>1
        <5>3. x = (x - m + w) + m - w
          BY <5>1
        <5> QED
          BY <1>5, <5>2, <5>3, Zenon
      <4>2. x - m + w \in Int /\ w - 1 - (x - m + w) = m - 1 - x
            /\ (x - m + w = w <=> x = m) /\ (x - m + w < w <=> x < m)
        BY <1>1, <2>1
      <4> HIDE DEF Below
      <4> QED
        BY <1>7, <4>1, <4>2
    <3> HIDE DEF Below
    <3>2. x \in r[m - 1] <=> ~ (x \in r[m] <=> (0 \in e[t] /\ x \in Below(m)))
      BY <2>5, <2>6, InDiff
    <3>3. x \in r[m] <=> m - x \in e[t]
      BY <2>2
    <3>4. CASE x < m
      <4>1. m - 1 - x \in Nat /\ (m - 1 - x) + 1 = m - x
        BY <2>1, <3>4
      <4>2. m - 1 - x \in e[t + 1] <=> ~ (m - x \in e[t] <=> (0 \in e[t] /\ m - 1 - x \in Taps(v)))
        BY <2>4, <4>1 DEF Step
      <4>3. x # m
        BY <3>4
      <4> QED
        BY <3>1, <3>2, <3>3, <3>4, <4>2, <4>3, Zenon
    <3>5. CASE ~ (x < m)
      <4>1. m - 1 - x \notin Nat
        BY <2>1, <3>5
      <4>2. m - 1 - x \notin e[t + 1]
        BY <2>4, <4>1 DEF Step
      <4>3. x \in r[m] <=> (0 \in e[t] /\ x = m)
        <5>1. CASE x = m
          BY <2>6, <5>1
        <5>2. CASE x # m
          <6>1. m - x \notin Nat
            BY <2>1, <3>5, <5>2
          <6> QED
            BY <2>4, <3>3, <5>2, <6>1
        <5> QED
          BY <5>1, <5>2
      <4> QED
        BY <3>1, <3>2, <3>5, <4>2, <4>3, Zenon
    <3> QED
      BY <3>4, <3>5, Zenon
  <2>8. Agree(t + 1)
    BY <2>1, <2>7, Zenon
  <2>9. r[m - 1] \subseteq Int
    <3>1. r[m] \subseteq Int
      BY <1>9 DEF m
    <3>2. Below(m) \subseteq Int
      BY <1>1, <1>5, <2>1
    <3> HIDE DEF Below
    <3> QED
      BY <2>5, <3>1, <3>2 DEF SymDiff
  <2> HIDE DEF Agree
  <2> QED
    BY <2>1, <2>3, <2>8, <2>9
<1>10. r[D - 1 - N] \subseteq Int /\ Agree(N)
  <2>1. N \in 0 .. N
    BY <1>1
  <2> HIDE DEF Agree
  <2>2. \A t \in 0 .. N : t \in T
    <3> HIDE DEF T
    <3> QED
      BY <1>1, <1>8, <1>9, Induction
  <2> QED
    BY <2>1, <2>2
<1>11. D - 1 - N = w - 1
  BY <1>1 DEF D
<1> QED
  BY <1>10, <1>11 DEF r, p, D, w

\* The checksum is the remainder.
LEMMA GetIsReference ==
    ASSUME NEW v \in Variants, NEW d \in Seq(Octets)
    PROVE  Get(v, d) = Reference(v, d)
<1> DEFINE w == Width(v)
           left == Parameters[v].left
           N == 8 * Len(d)
           R == Running(v, d)[Len(d)]
           S == SymDiff(Canon(v, Start(v)), Stream(v, d))
           rem == Dividing(v, Polynomial(v, d), N + w)[w - 1]
<1>1. N \in Nat /\ Len(d) \in Nat
  OBVIOUS
<1>2. w \in {8, 16, 32} /\ left \in BOOLEAN /\ Register(v) = 0 .. w - 1
  BY VariantFacts DEF Register
<1>3. S \subseteq Nat
  BY <1>2 DEF SymDiff, Stream, Canon
<1>4. PICK e : IsRun(v, e, N) /\ e[0] = S
  <2> HIDE DEF S, N
  <2> QED
    BY <1>1, <1>3, RunExists
<1>5. e[N] = Canon(v, R)
  BY <1>4, StreamIsDivided
<1>6. rem \subseteq Int /\ \A x \in Int : x \in rem <=> w - 1 - x \in e[N]
  BY <1>4, DividingIsRun
<1>7. R \subseteq Register(v)
  <2>1. \A k \in 0 .. Len(d) : Running(v, d)[k] \subseteq Register(v)
    BY RunningDef, Zenon
  <2> QED
    BY <1>1, <2>1
<1> HIDE DEF w, left, R, rem, N
<1>9. \A i : i \in Canon(v, R) <=> i \in 0 .. w - 1 /\ (IF left THEN w - 1 - i ELSE i) \in R
  BY <1>2 DEF Canon, Mirror, w, left
<1>10. R = IF left THEN rem ELSE {w - 1 - x : x \in rem}
  <2>1. \A x \in Int :
            x \in rem <=> w - 1 - x \in 0 .. w - 1 /\ (IF left THEN x ELSE w - 1 - x) \in R
    <3>1. \A x \in Int : w - 1 - (w - 1 - x) = x
      BY <1>2
    <3>2. \A x \in Int : x \in rem <=> w - 1 - x \in Canon(v, R)
      BY <1>5, <1>6, Zenon
    <3> QED
      BY <1>9, <3>1, <3>2, Zenon
  <2>2. \A x \in R : x \in 0 .. w - 1
    BY <1>2, <1>7
  <2>3. CASE left
    <3>1. \A x \in Int : x \in rem <=> x \in R
      BY <1>2, <2>1, <2>2, <2>3
    <3>2. \A x \in R : x \in Int
      BY <1>2, <2>2
    <3>3. \A x \in rem : x \in Int
      BY <1>6
    <3>4. \A x : x \in rem <=> x \in R
      BY <3>1, <3>2, <3>3, Zenon
    <3> HIDE DEF R, rem
    <3> QED
      BY <2>3, <3>4
  <2>4. CASE ~ left
    <3>1. \A x \in Int : x \in rem <=> w - 1 - x \in R
      BY <1>2, <2>1, <2>2, <2>4
    <3>2. \A x \in R : w - 1 - x \in rem /\ x = w - 1 - (w - 1 - x)
      BY <1>2, <2>2, <3>1
    <3>3. \A x \in rem : w - 1 - x \in R
      BY <1>6, <3>1
    <3> QED
      BY <2>4, <3>2, <3>3
  <2> QED
    BY <2>3, <2>4
<1> QED
  BY <1>10 DEF w, left, R, rem, N, Get, Reference

\* What the loop has made of a buffer it has also made of what it starts with.
LEMMA RunningPrefix ==
    ASSUME NEW v \in Variants, NEW z \in Seq(Octets), NEW d \in Seq(Octets),
           Len(d) <= Len(z), \A k \in 1 .. Len(d) : z[k] = d[k]
    PROVE  Running(v, z)[Len(d)] = Running(v, d)[Len(d)]
<1> DEFINE n == Len(d)
           m == Len(z)
           f == Running(v, d)
           g == Running(v, z)
           T == {k \in 0 .. n : g[k] = f[k]}
<1>1. n \in Nat /\ m \in Nat /\ n <= m
  OBVIOUS
<1>2. f[0] = Start(v) /\ \A k \in 1 .. n : f[k] = Feeding(v, f[k - 1], d[k])[8]
  BY RunningDef, Zenon
<1>3. g[0] = Start(v) /\ \A k \in 1 .. m : g[k] = Feeding(v, g[k - 1], z[k])[8]
  BY RunningDef, Zenon
<1>4. \A k \in 1 .. n : z[k] = d[k]
  OBVIOUS
<1> HIDE DEF f, g, n, m
<1>5. 0 \in T
  BY <1>1, <1>2, <1>3
<1>6. ASSUME NEW k \in 0 .. (n - 1), k \in T PROVE k + 1 \in T
  <2>1. k + 1 \in 1 .. n /\ k + 1 \in 1 .. m /\ (k + 1) - 1 = k /\ k + 1 \in 0 .. n
    BY <1>1
  <2>2. f[k + 1] = Feeding(v, f[k], d[k + 1])[8] /\ g[k + 1] = Feeding(v, g[k], z[k + 1])[8]
    BY <1>2, <1>3, <2>1, Zenon
  <2> QED
    BY <1>4, <1>6, <2>1, <2>2, Zenon
<1>7. \A k \in 0 .. n : k \in T
  <2> HIDE DEF T
  <2> QED
    BY <1>1, <1>5, <1>6, Induction
<1>8. n \in 0 .. n
  BY <1>1
<1> QED
  BY <1>7, <1>8 DEF f, g, n

\* The register in memory is bytes.
LEMMA MemoryIs ==
    ASSUME NEW v \in Variants, NEW c
    PROVE  LET m == Stored(v, c) IN
           /\ m \in Seq(Octets) /\ Len(m) = Width(v) \div 8
           /\ Len(m) \in {1, 2, 4}
           /\ \A k \in 1 .. Len(m), i \in 0 .. 7 : i \in m[k] <=> 8 * (k - 1) + i \in c
<1> DEFINE m == Stored(v, c)
           l == Width(v) \div 8
<1>1. Width(v) \in {8, 16, 32}
  BY VariantFacts
<1>2. l \in {1, 2, 4}
  BY <1>1
<1>3. m = [k \in 1 .. l |-> {i \in 0 .. 7 : 8 * (k - 1) + i \in c}]
  BY DEF Stored
<1> HIDE DEF m, l
<1>4. m \in [1 .. l -> Octets]
  BY <1>3 DEF Octets
<1>5. m \in Seq(Octets) /\ Len(m) = l
  BY <1>2, <1>4
<1> QED
  BY <1>2, <1>3, <1>5 DEF m, l

\* Verify accepts what update has appended.
LEMMA UpdateVerifies ==
    ASSUME NEW v \in Variants, NEW d \in Seq(Octets),
           NEW z, z = d \o Stored(v, Get(v, d))
    PROVE  /\ z \in Seq(Octets) /\ Verify(v, z)
           /\ Len(z) >= Width(v) \div 8
<1> DEFINE m == Stored(v, Get(v, d))
           l == Width(v) \div 8
<1>1. m \in Seq(Octets) /\ Len(m) = l /\ l \in {1, 2, 4}
  BY MemoryIs
<1>2. z = d \o m /\ Len(d) \in Nat
  OBVIOUS
<1> HIDE DEF m, l
<1>3. z \in Seq(Octets) /\ Len(z) = Len(d) + l
  BY <1>1, <1>2
<1>4. Len(z) - l = Len(d) /\ Len(z) >= l
  BY <1>1, <1>2, <1>3
<1>5. SubSeq(z, 1, Len(d)) = d /\ SubSeq(z, Len(d) + 1, Len(z)) = m
  BY <1>1, <1>2, ConcatFirst, ConcatRest
<1>6. Verify(v, z)
  BY <1>4, <1>5, Zenon DEF Verify, m, l
<1> QED
  BY <1>3, <1>4, <1>6 DEF l

\* With the checksum of 16 bits the division of what verify accepts leaves
\* nothing, when it gets to the end.
LEMMA VerifiedLeavesNothing ==
    ASSUME NEW z \in Seq(Octets), Len(z) >= 2, Verify("crc16", z),
           NEW N, N = 8 * Len(z), NEW e, IsRun("crc16", e, N),
           e[0] = SymDiff(Canon("crc16", Start("crc16")), Stream("crc16", z))
    PROVE  e[8 * (Len(z) - 2)] = {}
<1> DEFINE v == "crc16"
           n == Len(z) - 2
           d == SubSeq(z, 1, n)
           c == Running(v, z)[n]
           m == Stored(v, c)
<1>1. v \in Variants
  BY DEF Variants, Parameters
<1>2. /\ Width(v) = 16 /\ Width(v) \div 8 = 2
      /\ Parameters[v].left = FALSE /\ Parameters[v].inverted = FALSE
      /\ Register(v) = 0 .. 15
  <2>1. Width(v) = 16 /\ Parameters[v].left = FALSE /\ Parameters[v].inverted = FALSE
    BY Zenon DEF Parameters, Width
  <2>2. 16 \div 8 = 2 /\ 16 - 1 = 15
    OBVIOUS
  <2> HIDE DEF v
  <2> QED
    BY <2>1, <2>2, Zenon DEF Register
<1>3. /\ n \in Nat /\ n + 2 = Len(z) /\ n \in 0 .. Len(z)
      /\ n + 1 \in 1 .. Len(z) /\ n + 2 \in 1 .. Len(z)
  OBVIOUS
<1>4. d \in Seq(Octets) /\ Len(d) = n /\ \A k \in 1 .. n : z[k] = d[k]
  BY <1>3
<1> HIDE DEF v, n, d, c, m
<1>5. c = Running(v, d)[Len(d)]
  BY <1>1, <1>3, <1>4, RunningPrefix DEF c
<1>6. c \subseteq 0 .. 15
  BY <1>1, <1>2, <1>3, RunningDef DEF c
<1>7. m = SubSeq(z, n + 1, Len(z))
  <2>1. Get(v, d) = c
    BY <1>2, <1>5 DEF Get
  <2>2. Verify(v, z)
    BY DEF v
  <2>3. Stored(v, Get(v, d)) = SubSeq(z, n + 1, Len(z))
    BY <1>2, <2>2 DEF Verify, n, d
  <2> QED
    BY <2>1, <2>3 DEF m
<1>8. \A i \in 0 .. 7 : (i \in z[n + 1] <=> i \in c) /\ (i \in z[n + 2] <=> 8 + i \in c)
  <2>1. m[1] = z[n + 1] /\ m[2] = z[n + 2]
    BY <1>3, <1>7
  <2>2. \A k \in 1 .. 2, i \in 0 .. 7 : i \in m[k] <=> 8 * (k - 1) + i \in c
    BY <1>1, <1>2, MemoryIs DEF m
  <2>3. \A i \in 0 .. 7 : 8 * (1 - 1) + i = i /\ 8 * (2 - 1) + i = 8 + i
    OBVIOUS
  <2>4. 1 \in 1 .. 2 /\ 2 \in 1 .. 2
    OBVIOUS
  <2>5. ASSUME NEW i \in 0 .. 7
        PROVE  (i \in m[1] <=> i \in c) /\ (i \in m[2] <=> 8 + i \in c)
    BY <2>2, <2>3, <2>4, Zenon
  <2> QED
    BY <2>1, <2>5, Zenon
<1>9. /\ \A k \in 1 .. Len(z), i \in 0 .. 7 : 8 * (k - 1) + i \in Stream(v, z) <=> i \in z[k]
      /\ \A p \in Stream(v, z) : p \in Nat /\ p < 8 * Len(z)
  BY <1>2, InStream DEF Order
<1>10. ASSUME NEW i PROVE i \in Rest(v, z, 8 * n) <=> i \in c
  <2>1. CASE i \in 0 .. 7
    <3>1. i + 8 * n = 8 * ((n + 1) - 1) + i /\ i \in Nat
      BY <1>3, <2>1
    <3>2. i \in Rest(v, z, 8 * n) <=> 8 * ((n + 1) - 1) + i \in Stream(v, z)
      BY <3>1 DEF Rest
    <3> QED
      BY <1>3, <1>8, <1>9, <2>1, <3>2
  <2>2. CASE i \in 8 .. 15
    <3>1. /\ i + 8 * n = 8 * ((n + 2) - 1) + (i - 8)
          /\ i \in Nat /\ i - 8 \in 0 .. 7 /\ 8 + (i - 8) = i
      BY <1>3, <2>2
    <3>2. i \in Rest(v, z, 8 * n) <=> 8 * ((n + 2) - 1) + (i - 8) \in Stream(v, z)
      BY <3>1 DEF Rest
    <3> QED
      BY <1>3, <1>8, <1>9, <3>1, <3>2
  <2>3. CASE i \notin 0 .. 15
    <3>1. i \in Nat => i + 8 * n \in Nat /\ ~ (i + 8 * n < 8 * Len(z))
      BY <1>3, <2>3
    <3>2. i \notin Rest(v, z, 8 * n)
      BY <1>9, <3>1, Zenon DEF Rest
    <3> QED
      BY <1>6, <2>3, <3>2, Zenon
  <2> QED
    BY <2>1, <2>2, <2>3
<1>11. Canon(v, c) = c
  BY <1>2, <1>6 DEF Canon, Mirror
<1>12. e[8 * n] = SymDiff(Canon(v, c), Rest(v, z, 8 * n))
  BY <1>1, <1>3, StreamIsDivided DEF v, c
<1>13. e[8 * n] = {}
  BY <1>10, <1>11, <1>12, InDiff
<1> QED
  BY <1>13 DEF n

\* The checksum of 16 bits takes a byte's lowest bit first.
LEMMA Crc16Facts ==
    /\ "crc16" \in Variants
    /\ Width("crc16") = 16 /\ Register("crc16") = 0 .. 15
    /\ \A d \in Seq(Octets) :
           /\ \A k \in 1 .. Len(d), i \in 0 .. 7 :
                  8 * (k - 1) + i \in Stream("crc16", d) <=> i \in d[k]
           /\ \A p \in Stream("crc16", d) : p \in Nat /\ p < 8 * Len(d)
<1>1. "crc16" \in Variants
  BY DEF Variants, Parameters
<1>2. Width("crc16") = 16 /\ Parameters["crc16"].left = FALSE
  BY Zenon DEF Parameters, Width
<1>3. Register("crc16") = 0 .. 15
  <2>1. 16 - 1 = 15
    OBVIOUS
  <2> QED
    BY <1>2, <2>1, Zenon DEF Register
<1>4. \A i : Order("crc16", i) = i
  BY <1>2, Zenon DEF Order
<1>5. ASSUME NEW d \in Seq(Octets)
      PROVE  /\ \A k \in 1 .. Len(d), i \in 0 .. 7 :
                    8 * (k - 1) + i \in Stream("crc16", d) <=> i \in d[k]
             /\ \A p \in Stream("crc16", d) : p \in Nat /\ p < 8 * Len(d)
  <2> DEFINE v == "crc16"
  <2> HIDE DEF v
  <2>1. /\ \A k \in 1 .. Len(d), i \in 0 .. 7 :
               8 * (k - 1) + i \in Stream(v, d) <=> Order(v, i) \in d[k]
        /\ \A p \in Stream(v, d) : p \in Nat /\ p < 8 * Len(d)
    BY InStream
  <2>2. \A i : Order(v, i) = i
    BY <1>4 DEF v
  <2>3. ASSUME NEW k \in 1 .. Len(d), NEW i \in 0 .. 7
        PROVE  8 * (k - 1) + i \in Stream(v, d) <=> i \in d[k]
    BY <2>1, <2>2, Zenon
  <2> QED
    BY <2>1, <2>3, Zenon DEF v
<1> QED
  BY <1>1, <1>2, <1>3, <1>5, Zenon

\* Every bit of a buffer is one of some byte.
LEMMA BitPlace ==
    ASSUME NEW n \in Nat, NEW p \in Nat, p < 8 * n
    PROVE  \E k \in 1 .. n, i \in 0 .. 7 : p = 8 * (k - 1) + i
<1> DEFINE q == p \div 8
           r == p % 8
<1>1. q \in Nat /\ r \in 0 .. 7 /\ p = 8 * q + r
  OBVIOUS
<1> HIDE DEF q, r
<1>2. q + 1 \in 1 .. n /\ (q + 1) - 1 = q
  BY <1>1
<1> QED
  BY <1>1, <1>2, Zenon

\* A burst of at most 16 bits on a buffer.
Hits(z, at, burst) == /\ at \in Nat /\ burst \subseteq 0 .. 15 /\ 0 \in burst
                      /\ \A i \in burst : at + i < 8 * Len(z)

\* It flips the bits it hits.
LEMMA FlippedIs ==
    ASSUME NEW z \in Seq(Octets), NEW at, NEW burst, Hits(z, at, burst)
    PROVE  /\ Flipped(z, at, burst) \in Seq(Octets)
           /\ Len(Flipped(z, at, burst)) = Len(z)
           /\ SymDiff(Stream("crc16", Flipped(z, at, burst)), Stream("crc16", z))
                   = {p \in Nat : p - at \in burst}
<1> DEFINE v == "crc16"
           n == Len(z)
           y == Flipped(z, at, burst)
           Hit(k) == {i \in 0 .. 7 : 8 * (k - 1) + i - at \in burst}
<1>1. /\ n \in Nat /\ \A k \in 1 .. n : z[k] \in Octets
      /\ at \in Nat /\ burst \subseteq 0 .. 15 /\ \A i \in burst : at + i < 8 * n
  BY DEF Hits
<1>2. y = [k \in 1 .. n |-> SymDiff(z[k], Hit(k))]
  BY DEF Flipped
<1>3. \A k \in 1 .. n : SymDiff(z[k], Hit(k)) \in Octets
  <2>1. \A k : Hit(k) \in Octets
    BY DEF Octets
  <2> HIDE DEF Hit
  <2> QED
    BY <1>1, <2>1 DEF SymDiff, Octets
<1>4. y \in Seq(Octets) /\ Len(y) = n
  <2>1. y \in [1 .. n -> Octets]
    BY <1>2, <1>3, Zenon
  <2> HIDE DEF n
  <2> QED
    BY <1>1, <2>1
<1>5. /\ \A k \in 1 .. n, i \in 0 .. 7 : (8 * (k - 1) + i \in Stream(v, y)) <=> (i \in y[k])
      /\ \A k \in 1 .. n, i \in 0 .. 7 : (8 * (k - 1) + i \in Stream(v, z)) <=> (i \in z[k])
      /\ \A q : q \in Stream(v, y) \/ q \in Stream(v, z) => q \in Nat /\ q < 8 * n
  <2> HIDE DEF y, n
  <2>1. Len(z) = n
    BY DEF n
  <2> QED
    BY <1>4, <2>1, Crc16Facts, Zenon
<1> HIDE DEF y
<1>6. ASSUME NEW p
      PROVE  p \in SymDiff(Stream(v, y), Stream(v, z)) <=> p \in Nat /\ p - at \in burst
  <2> HIDE DEF v, n
  <2>1. CASE p \in Nat /\ p < 8 * n
    <3>1. PICK k \in 1 .. n, i \in 0 .. 7 : p = 8 * (k - 1) + i
      BY <1>1, <2>1, BitPlace
    <3>2. (p \in Stream(v, y) <=> i \in y[k]) /\ (p \in Stream(v, z) <=> i \in z[k])
      <4>1. (8 * (k - 1) + i \in Stream(v, y)) <=> (i \in y[k])
        BY <1>5
      <4>2. (8 * (k - 1) + i \in Stream(v, z)) <=> (i \in z[k])
        BY <1>5
      <4> QED
        BY <3>1, <4>1, <4>2, Zenon
    <3>3. i \in y[k] <=> ~ (i \in z[k] <=> i \in Hit(k))
      <4>1. y[k] = SymDiff(z[k], Hit(k))
        BY <1>2
      <4> HIDE DEF Hit
      <4> QED
        BY <4>1, InDiff
    <3>4. i \in Hit(k) <=> p - at \in burst
      <4>1. 8 * (k - 1) + i - at = p - at
        BY <1>1, <3>1
      <4> QED
        BY <4>1, Zenon
    <3> HIDE DEF Hit
    <3> QED
      BY <2>1, <3>2, <3>3, <3>4, InDiff
  <2>2. CASE ~ (p \in Nat /\ p < 8 * n)
    <3>1. p \notin Stream(v, y) /\ p \notin Stream(v, z)
      BY <1>5, <2>2, Zenon
    <3>2. ~ (p \in Nat /\ p - at \in burst)
      <4>1. SUFFICES ASSUME p \in Nat, p - at \in burst PROVE FALSE
        OBVIOUS
      <4>2. at + (p - at) = p
        BY <1>1, <4>1
      <4>3. at + (p - at) < 8 * n
        BY <1>1, <4>1
      <4> QED
        BY <2>2, <4>1, <4>2, <4>3
    <3> QED
      BY <3>1, <3>2, InDiff
  <2> QED
    BY <2>1, <2>2
<1>7. SymDiff(Stream(v, y), Stream(v, z)) = {p \in Nat : p - at \in burst}
  <2> HIDE DEF v
  <2> QED
    BY <1>6
<1> QED
  BY <1>4, <1>7 DEF y

\* A burst that is no longer than the register never divides away.
LEMMA BurstRemains ==
    ASSUME NEW v \in Variants, NEW N \in Nat, NEW e, IsRun(v, e, N),
           NEW at \in Nat, NEW burst, burst \subseteq Register(v), 0 \in burst,
           e[0] = {p \in Nat : p - at \in burst}
    PROVE  \A t \in 0 .. N : e[t] # {}
<1> DEFINE w == Width(v)
           Before(t) == t <= at /\ e[t] = {p \in Nat : p + t - at \in burst}
           In(t) == e[t] # {} /\ e[t] \subseteq 0 .. w - 1
           T == {t \in 0 .. N : Before(t) \/ In(t)}
<1>1. w \in {8, 16, 32} /\ Register(v) = 0 .. w - 1 /\ w - 1 \in Taps(v)
  BY VariantFacts DEF Register
<1>2. \A i \in Taps(v) : i \in 0 .. w - 1
  BY <1>1 DEF Taps, Canon
<1> HIDE DEF w
<1>3. burst \subseteq 0 .. w - 1
  BY <1>1
<1>4. 0 \in T
  <2>1. \A p \in Nat : p + 0 - at = p - at
    OBVIOUS
  <2>2. Before(0)
    BY <2>1
  <2> HIDE DEF Before, In
  <2> QED
    BY <2>2
<1>5. ASSUME NEW t \in 0 .. (N - 1), t \in T PROVE t + 1 \in T
  <2>1. t + 1 \in 1 .. N /\ (t + 1) - 1 = t /\ t \in Nat /\ t + 1 \in 0 .. N
    OBVIOUS
  <2>2. e[t + 1] = {i \in Nat : ~ (i + 1 \in e[t] <=> (0 \in e[t] /\ i \in Taps(v)))}
    BY <2>1 DEF IsRun, Step
  <2>3. ASSUME In(t) PROVE In(t + 1)
    <3>1. e[t + 1] \subseteq 0 .. w - 1
      BY <1>1, <1>2, <2>2, <2>3
    <3>2. CASE 0 \in e[t]
      <4>1. w - 1 \in Nat /\ (w - 1) + 1 \notin e[t]
        BY <1>1, <2>3
      <4>2. w - 1 \in e[t + 1]
        BY <1>1, <2>2, <3>2, <4>1, Zenon
      <4> QED
        BY <3>1, <4>2
    <3>3. CASE 0 \notin e[t]
      <4>1. PICK i : i \in e[t]
        BY <2>3
      <4>2. i - 1 \in Nat /\ (i - 1) + 1 = i
        BY <1>1, <2>3, <3>3, <4>1
      <4>3. i - 1 \in e[t + 1]
        BY <2>2, <3>3, <4>1, <4>2, Zenon
      <4> QED
        BY <3>1, <4>3
    <3> QED
      BY <3>2, <3>3
  <2>4. ASSUME Before(t), t < at PROVE Before(t + 1)
    <3>1. 0 \notin e[t]
      BY <1>1, <1>3, <2>1, <2>4
    <3>2. \A i \in Nat : i + 1 \in e[t] <=> i + (t + 1) - at \in burst
      <4>1. \A i \in Nat : i + 1 \in Nat /\ (i + 1) + t - at = i + (t + 1) - at
        BY <2>1
      <4> QED
        BY <2>4, <4>1
    <3>3. e[t + 1] = {p \in Nat : p + (t + 1) - at \in burst}
      BY <2>2, <3>1, <3>2
    <3> QED
      BY <2>1, <2>4, <3>3
  <2>5. ASSUME Before(t), ~ (t < at) PROVE In(t)
    <3>1. t = at
      BY <2>1, <2>5
    <3>2. \A p \in Int : p + t - at = p
      BY <3>1
    <3>3. \A p \in Nat : p \in e[t] <=> p \in burst
      BY <2>5, <3>2
    <3>4. e[t] \subseteq Nat
      BY <2>5
    <3> QED
      BY <1>3, <3>3, <3>4
  <2> HIDE DEF Before, In
  <2> QED
    BY <1>5, <2>1, <2>3, <2>4, <2>5
<1>6. \A t \in 0 .. N : t \in T
  <2> HIDE DEF T
  <2> QED
    BY <1>4, <1>5, Induction
<1>7. ASSUME NEW t \in 0 .. N, Before(t) PROVE e[t] # {}
  <2>1. at - t \in Nat /\ (at - t) + t - at = 0
    BY <1>7
  <2>2. at - t \in e[t]
    BY <1>7, <2>1, Zenon
  <2> QED
    BY <2>2
<1> QED
  <2> HIDE DEF Before
  <2> QED
    BY <1>6, <1>7

\* So verify notices it.
LEMMA DamageFailsVerify ==
    ASSUME NEW z \in Seq(Octets), Len(z) >= 2, Verify("crc16", z),
           NEW at, NEW burst, Hits(z, at, burst)
    PROVE  /\ Flipped(z, at, burst) \in Seq(Octets)
           /\ ~ Verify("crc16", Flipped(z, at, burst))
<1> DEFINE v == "crc16"
           y == Flipped(z, at, burst)
           N == 8 * Len(z)
           C == Canon(v, Start(v))
<1>1. /\ y \in Seq(Octets) /\ Len(y) = Len(z)
      /\ SymDiff(Stream(v, y), Stream(v, z)) = {p \in Nat : p - at \in burst}
  BY FlippedIs
<1>2. v \in Variants /\ N \in Nat /\ Register(v) = 0 .. 15
  BY Crc16Facts
<1> HIDE DEF y
<1>3. ASSUME NEW d \in Seq(Octets), Len(d) = Len(z)
      PROVE  \E e : IsRun(v, e, N) /\ e[0] = SymDiff(C, Stream(v, d))
  <2>1. SymDiff(C, Stream(v, d)) \subseteq Nat
    <3>1. C \subseteq Nat
      <4>1. Register(v) \subseteq Nat
        BY <1>2
      <4> QED
        BY <4>1, Zenon DEF Canon
    <3>2. Stream(v, d) \subseteq Nat
      BY DEF Stream
    <3> HIDE DEF v, C
    <3> QED
      BY <3>1, <3>2, Zenon DEF SymDiff
  <2> HIDE DEF v, N, C
  <2> QED
    BY <1>2, <2>1, RunExists
<1>4. PICK e : IsRun(v, e, N) /\ e[0] = SymDiff(C, Stream(v, z))
  BY <1>3
<1>5. PICK f : IsRun(v, f, N) /\ f[0] = SymDiff(C, Stream(v, y))
  BY <1>1, <1>3
<1> DEFINE g == [t \in 0 .. N |-> SymDiff(f[t], e[t])]
           last == 8 * (Len(z) - 2)
<1>6. last \in 0 .. N
  OBVIOUS
<1> SUFFICES ASSUME Verify(v, y) PROVE FALSE
  BY <1>1 DEF y
<1>7. e[last] = {} /\ f[last] = {}
  <2>1. e[last] = {}
    BY <1>4, VerifiedLeavesNothing
  <2>2. f[8 * (Len(y) - 2)] = {}
    BY <1>1, <1>5, VerifiedLeavesNothing
  <2> QED
    BY <1>1, <2>1, <2>2
<1> HIDE DEF N, C, last
<1>8. IsRun(v, g, N)
  BY <1>2, <1>4, <1>5, RunSum
<1>9. g[0] = {p \in Nat : p - at \in burst}
  <2>1. \A p : p \in SymDiff(SymDiff(C, Stream(v, y)), SymDiff(C, Stream(v, z)))
                 <=> p \in SymDiff(Stream(v, y), Stream(v, z))
    BY InDiff
  <2>2. g[0] = SymDiff(f[0], e[0])
    BY <1>2
  <2> HIDE DEF g, v
  <2>3. g[0] = SymDiff(Stream(v, y), Stream(v, z))
    BY <1>4, <1>5, <2>1, <2>2
  <2> QED
    BY <1>1, <2>3, Zenon
<1>10. g[last] # {}
  <2> HIDE DEF g, v
  <2> QED
    <3>1. at \in Nat /\ burst \subseteq Register(v) /\ 0 \in burst
      BY <1>2 DEF Hits
    <3>2. \A t \in 0 .. N : g[t] # {}
      BY <1>2, <1>8, <1>9, <3>1, BurstRemains
    <3> QED
      BY <1>6, <3>2, Zenon
<1>11. g[last] = SymDiff({}, {})
  BY <1>6, <1>7
<1> QED
  BY <1>10, <1>11 DEF SymDiff

----------------------------------------------------------------------------
\* What the stage says of the buffer.
CrcInv ==
    /\ variant \in Variants
    /\ data \in Seq(Octets)
    /\ stage \in {"open", "sealed", "damaged"}
    /\ stage = "sealed" => /\ Verify(variant, data)
                           /\ Len(data) >= Width(variant) \div 8
    /\ stage = "damaged" => ~ Verify(variant, data)

\* It says so of an empty buffer, ...
LEMMA CrcInvInit ==
    ASSUME CrcInit
    PROVE  CrcInv
BY DEF CrcInit, CrcInv, Variants

\* A burst of the model is one that the register is wide enough for.
LEMMA BurstIs ==
    ASSUME NEW burst \in Bursts
    PROVE  burst \subseteq 0 .. 15 /\ 0 \in burst
<1>1. PICK k \in 0 .. (ErrorMax - 1) :
              \E b \in kSubset(k, 1 .. (BurstMax - 1)) : burst = {0} \cup b
  BY DEF Bursts
<1>2. PICK b \in kSubset(k, 1 .. (BurstMax - 1)) : burst = {0} \cup b
  BY <1>1
<1>3. b \subseteq 1 .. (BurstMax - 1)
  BY DEF kSubset
<1>4. BurstMax \in 1 .. 16
  BY BurstAssumption
<1> QED
  BY <1>2, <1>3, <1>4

\* ... and goes on to, whichever bytes are filled in and whatever burst hits.
LEMMA CrcInvStep ==
    ASSUME CrcInv, [CrcNext]_crcvars
    PROVE  CrcInv'
<1> USE DEF CrcInv
<1>1. ASSUME NEW b \in Bytes, Fill(b) PROVE CrcInv'
  <2>1. b \in Octets
    BY ByteAssumption DEF Octets
  <2>2. data' \in Seq(Octets)
    BY <1>1, <2>1 DEF Fill
  <2> QED
    BY <1>1, <2>2 DEF Fill
<1>2. ASSUME Update PROVE CrcInv'
  <2>1. /\ data' \in Seq(Octets) /\ Verify(variant, data')
        /\ Len(data') >= Width(variant) \div 8
    BY <1>2, UpdateVerifies DEF Update
  <2>2. variant' = variant /\ stage' = "sealed"
    BY <1>2 DEF Update
  <2> QED
    BY <2>1, <2>2, Zenon
<1>3. ASSUME NEW at \in 0 .. (8 * Len(data)), NEW burst \in Bursts, Damage(at, burst)
      PROVE  CrcInv'
  <2>1. /\ variant = "crc16" /\ stage = "sealed" /\ \A i \in burst : at + i < 8 * Len(data)
        /\ data' = Flipped(data, at, burst) /\ stage' = "damaged" /\ variant' = variant
    BY <1>3 DEF Damage
  <2>2. Verify("crc16", data) /\ Len(data) >= 2
    <3>1. Width("crc16") = 16 /\ 16 \div 8 = 2
      BY Crc16Facts
    <3> QED
      BY <2>1, <3>1, Zenon
  <2>3. Hits(data, at, burst)
    BY <2>1, BurstIs DEF Hits
  <2>4. data' \in Seq(Octets) /\ ~ Verify("crc16", data')
    BY <2>1, <2>2, <2>3, DamageFailsVerify, Zenon
  <2> QED
    BY <2>1, <2>4, Zenon
<1>4. ASSUME UNCHANGED crcvars PROVE CrcInv'
  BY <1>4 DEF crcvars
<1> QED
  BY <1>1, <1>2, <1>3, <1>4 DEF CrcNext

\* The stage says it in every state.
LEMMA CrcInvariance == CrcSpec => []CrcInv
<1>1. CrcInit => CrcInv
  BY CrcInvInit
<1>2. CrcInv /\ [CrcNext]_crcvars => CrcInv'
  BY CrcInvStep
<1> QED
  BY <1>1, <1>2, PTL DEF CrcSpec

\* fm_crc8_get, fm_crc16_get and fm_crc32_get return, for every buffer of every
\* length, the remainder of its polynomial's division, which is what others
\* mean by CRC-8, CRC-16-MODBUS and CRC-32.
THEOREM ChecksumIsRemainder == CrcSpec => []EqualsDivision
<1>1. CrcInv => EqualsDivision
  BY GetIsReference DEF CrcInv, EqualsDivision
<1> QED
  BY <1>1, CrcInvariance, PTL

\* fm_crc16_verify accepts what fm_crc16_update has written into any buffer
\* and no longer accepts it once a burst of up to 16 bits has hit it, however
\* long the buffer is and wherever the burst falls; and no verify rejects what
\* its update has written.
THEOREM BurstsAreNoticed == CrcSpec => []DamageDetected
<1>1. CrcInv => DamageDetected
  BY DEF CrcInv, DamageDetected
<1> QED
  BY <1>1, CrcInvariance, PTL
=============================================================================
