------------------------------- MODULE Fields -------------------------------
(***************************************************************************)
(* The contents of a message on its way over several nodes.  A node reads  *)
(* the raw message into its struct (fm_msg_copy_payload and .._from_raw)   *)
(* and sends the struct on (.._to_raw); a ROS node publishes it on a topic *)
(* and has it back as a command.  Nodes may be of different versions: an   *)
(* older one knows only the first members of the struct.                   *)
(*                                                                         *)
(* An integer or a float is the set of its one bits; an array of them the  *)
(* set for all its elements.  Of a member sent as hundredths the struct    *)
(* has the float nearest to k / 100, or one well between that and the next *)
(* hundredth away from zero; see FixedPoint.                               *)
(***************************************************************************)
EXTENDS FixedPoint, Sequences

CONSTANTS
    PayloadMax,  \* sizeof payload (64, 78 in the code)
    NameSize,    \* FM_DATA_HARDWARE_NAME_SIZE
    Sweep        \* bound: the hundredths tried

ASSUME SizeAssumption == PayloadMax \in Nat /\ NameSize \in Nat \ {0}
ASSUME SweepAssumption == Sweep \subseteq Int

VARIABLES
    kind,    \* the message id
    origin,  \* history: what the first node was to send
    oldest,  \* bound: how many members the older nodes on the way know
    known,   \* history: how many members all nodes so far know
    raw,     \* the members on the line
    first    \* history: the members first on the line

vars == <<kind, origin, oldest, known, raw, first>>

----------------------------------------------------------------------------
\* The members of the structs, in the order of the line.

\* An integer of app bits in the struct and of raw bits on the line.
Narrowed(name, app, bits) ==
    [name |-> name, type |-> "int", app |-> app, bits |-> bits]
Whole(name, bits)  == Narrowed(name, bits, bits)
Floats(name, n)    == Whole(name, 32 * n)
Hundredths(name, signed) == [name |-> name, type |-> "hundredths", signed |-> signed]
Name    == [name |-> "name", type |-> "name"]
Payload == [name |-> "payload", type |-> "payload"]

Echo       == <<Payload>>
Find       == <<Whole("duration", 8)>>
Restart    == <<Whole("delay", 8), Whole("only_when_need", 1)>>
Param      == <<Floats("z_expect", 1), Floats("z_expect_noise", 1),
                Floats("max_acceleration", 3), Narrowed("reserved", 8, 1),
                Floats("min_dis", 1), Floats("min_freq_duration", 1),
                Whole("min_freq_count", 8), Whole("max_delta_rssi", 8)>>
Heartbeat  == <<Name, Whole("hardware_version", 16), Whole("batch", 8),
                Narrowed("year", 8, 7), Narrowed("month", 8, 4), Narrowed("day", 8, 5),
                Whole("series", 8), Whole("firmware_version", 32),
                Whole("need_restart", 1), Whole("restart_info_dirty", 1),
                Whole("uptime", 32)>>
Stamped    == <<Narrowed("local_time", 64, 56), Whole("cnt", 8)>>
Result     == Stamped \o <<Floats("pos", 3), Hundredths("vel", TRUE),
                           Hundredths("pos_noise", FALSE), Hundredths("vel_noise", FALSE)>>
PrevResult == <<Whole("cnt", 8), Floats("pos", 3)>>
Spherical  == <<Floats("dis", 1), Floats("azimuth", 1), Floats("elevation", 1)>>
SphericalResult     == Stamped \o Spherical
SphericalPrevResult == <<Whole("cnt", 8)>> \o Spherical
Dis        == Stamped \o <<Floats("dis", 1), Whole("rx_rate", 8)>>
BeginPair  == <<Whole("timeout", 8)>>
CancelPair == <<Whole("timeout", 8)>>
UserToUser == <<Payload>>

Members == [ECHO |-> Echo, FIND |-> Find, RESTART |-> Restart, PARAM |-> Param,
            HEARTBEAT |-> Heartbeat, RESULT |-> Result, PREV_RESULT |-> PrevResult,
            SPHERICAL_RESULT |-> SphericalResult,
            PREV_SPHERICAL_RESULT |-> SphericalPrevResult, DIS |-> Dis,
            BEGIN_PAIR |-> BeginPair, CANCEL_PAIR |-> CancelPair,
            DATA_USER_TO_USER |-> UserToUser]
\* What a ROS node passes on to the device, and publishes from it.
Commands  == {"ECHO", "FIND", "RESTART", "PARAM", "BEGIN_PAIR", "CANCEL_PAIR",
              "DATA_USER_TO_USER"}
Published == {"ECHO", "HEARTBEAT", "PARAM", "RESULT", "PREV_RESULT", "DATA_USER_TO_USER",
              "SPHERICAL_RESULT", "PREV_SPHERICAL_RESULT", "DIS"}

----------------------------------------------------------------------------
\* Memory of n bytes that begins with s; nobody has set the rest.
Unset == -1
Bits(n) == 0 .. (n - 1)
Memory(n, s) == [i \in 1 .. n |-> IF i <= Len(s) THEN s[i] ELSE Unset]
Zeroed(n, s) == [i \in 1 .. n |-> IF i <= Len(s) THEN s[i] ELSE 0]

\* strlen, and strnlen with the size of s as its limit.
StrLen(s) == CHOOSE n \in 0 .. Len(s) : /\ \A i \in 1 .. n : s[i] # 0
                                        /\ n < Len(s) => s[n + 1] = 0
UpToNul(s) == SubSeq(s, 1, StrLen(s))

\* fm_msg_copy_payload sets what the sender did not send to zero.
NotSent(m) == CASE m.type = "int" -> {}
                [] m.type = "hundredths" -> 0
                [] m.type = "name" -> Zeroed(NameSize, << >>)
                [] m.type = "payload" -> <<0>>

\* Mutant: the name is not terminated.
NameFromRawOpen(r) == Memory(NameSize, UpToNul(r))

\* A name is copied up to its end, ...
NameFromRaw(r) == Memory(NameSize, Append(UpToNul(r), 0))
NameToRaw(v)   == Zeroed(NameSize, UpToNul(v))

\* ... a payload as far as its size says.  Only that much is sent.
PayloadFromRaw(r) ==
    LET copy == Zeroed(1 + PayloadMax, r)
    IN  [size |-> copy[1], bytes |-> Memory(PayloadMax, SubSeq(copy, 2, 1 + copy[1]))]

\* Mutant: the size byte does not count for the size of the message.
PayloadToRawShort(v) == SubSeq(<<v.size>> \o v.bytes, 1, v.size)

PayloadToRaw(v) == <<v.size>> \o SubSeq(v.bytes, 1, v.size)

HundredthsFromRaw(r) == [k |-> r, more |-> FALSE]
\* The cast drops what is more than k / 100.
HundredthsToRaw(m, v) ==
    IF v.more THEN Clamped(m.signed, v.k) ELSE Reencoded(m.signed, v.k)

\* The member m of the raw struct as one of the application's, and back.
FromRaw(m, r) == CASE m.type = "int" -> r \cap Bits(m.app)
                   [] m.type = "hundredths" -> HundredthsFromRaw(r)
                   [] m.type = "name" -> NameFromRaw(r)
                   [] m.type = "payload" -> PayloadFromRaw(r)
ToRaw(m, v)   == CASE m.type = "int" -> v \cap Bits(m.bits)
                   [] m.type = "hundredths" -> HundredthsToRaw(m, v)
                   [] m.type = "name" -> NameToRaw(v)
                   [] m.type = "payload" -> PayloadToRaw(v)

\* dispatch: a name is published as a string, a payload as a vector, ...
ToTopic(m, v) == CASE m.type = "name" -> UpToNul(v)
                   [] m.type = "payload" -> SubSeq(v.bytes, 1, v.size)
                   [] m.type \in {"int", "hundredths"} -> v

\* ... and a vector that comes as a command is cut to the size of the array,
\* in a struct that is zero before.
VectorCut(t) == SubSeq(t, 1, IF Len(t) < PayloadMax THEN Len(t) ELSE PayloadMax)
FromTopic(m, t) ==
    IF m.type = "payload"
    THEN [size |-> Len(VectorCut(t)), bytes |-> Zeroed(PayloadMax, VectorCut(t))]
    ELSE t

\* A struct that an application fills in; it sets no more than it has to.
FilledIn(m, t) ==
    CASE m.type = "name" -> Memory(NameSize, Append(t, 0))
      [] m.type = "payload" -> [size |-> Len(t), bytes |-> Memory(PayloadMax, t)]
      [] m.type \in {"int", "hundredths"} -> t

----------------------------------------------------------------------------
\* What is sent at first: one member takes every value tried, the others are
\* all zero or all full.
Tried(m) ==
    CASE m.type = "int" -> {{}, Bits(m.app), {0}, {m.bits - 1}, {m.app - 1}}
      [] m.type = "hundredths" -> {[k |-> k, more |-> TRUE] : k \in Sweep}
      [] m.type = "name" -> {[i \in 1 .. n |-> i] : n \in Bits(NameSize)}
      [] m.type = "payload" -> {[i \in 1 .. n |-> b * i] : n \in 0 .. (PayloadMax + 1), b \in {0, 1}}
Other(m, full) ==
    CASE m.type = "int" -> IF full THEN Bits(m.app) ELSE {}
      [] m.type = "hundredths" -> [k |-> IF full THEN 100 ELSE 0, more |-> FALSE]
      [] m.type \in {"name", "payload"} -> << >>

M == Members[kind]
HasRoom(given) == \A i \in DOMAIN M : M[i].type = "payload" => Len(given[i]) <= PayloadMax

\* A program with the driver sends the message, or a ROS node has it as a
\* command.  All hundredths are tried among nodes of one version only.
Init == /\ kind \in DOMAIN Members
        /\ \E j \in DOMAIN M, full \in BOOLEAN : \E t \in Tried(M[j]) :
               /\ M[j].type = "hundredths" => ~full
               /\ origin = [i \in DOMAIN M |-> IF i = j THEN t ELSE Other(M[i], full)]
        /\ oldest \in 1 .. Len(M)
        /\ oldest < Len(M) => \A i \in DOMAIN M : M[i].type = "hundredths" => ~origin[i].more
        /\ known = Len(M)
        /\ \/ /\ HasRoom(origin)
              /\ first = [i \in DOMAIN M |-> ToRaw(M[i], FilledIn(M[i], origin[i]))]
           \/ /\ kind \in Commands
              /\ first = [i \in DOMAIN M |-> ToRaw(M[i], FromTopic(M[i], origin[i]))]
        /\ raw = first

\* What a node that knows n members reads.
Read(i) == FromRaw(M[i], IF i <= Len(raw) THEN raw[i] ELSE NotSent(M[i]))

\* A program with the driver reads the message and sends it on.
Relay(n) == /\ raw' = [i \in 1 .. n |-> ToRaw(M[i], Read(i))]
            /\ known' = IF n < known THEN n ELSE known
            /\ UNCHANGED <<kind, origin, oldest, first>>

\* A ROS node publishes it, and what was published comes as a command.
Bridge == /\ kind \in Commands \cap Published
          /\ raw' = [i \in DOMAIN M |-> ToRaw(M[i], FromTopic(M[i], ToTopic(M[i], Read(i))))]
          /\ UNCHANGED <<kind, origin, oldest, known, first>>

Next == Bridge \/ \E n \in {oldest, Len(M)} : Relay(n)

Spec == Init /\ [][Next]_vars

----------------------------------------------------------------------------
\* How many bits of an integer survive: of a time in microseconds 56, of a
\* date those of a year in the century, a month and a day, of the reserved
\* byte one; of all else every one.
Kept(m) == CASE m.name = "local_time" -> 56 [] m.name = "year" -> 7
             [] m.name = "month" -> 4       [] m.name = "day" -> 5
             [] m.name = "reserved" -> 1    [] OTHER -> m.app

\* Whatever versions and kinds of node a message passes, each of its members
\* is read as it was given, if all nodes know it, and as zero if one does not:
\* no node loses more than the first, none shifts a member, and a payload
\* keeps its length.
FieldsSurvive ==
    \A i \in DOMAIN M :
        LET read == ToTopic(M[i], Read(i)) IN
        CASE M[i].type = "hundredths" -> i > known => read.k = 0
          [] M[i].type = "int" ->
                read = IF i <= known THEN origin[i] \cap Bits(Kept(M[i])) ELSE {}
          [] M[i].type = "name" -> read = IF i <= known THEN origin[i] ELSE << >>
          [] M[i].type = "payload" -> read = VectorCut(origin[i])

\* Structs are used half filled, a parser's on the stack and an application's
\* alike: what was never set is never sent.
NoGarbageOnTheLine ==
    \A i \in DOMAIN raw : M[i].type \in {"name", "payload"} =>
        \A j \in DOMAIN raw[i] : raw[i][j] # Unset

----------------------------------------------------------------------------
HundredthsKnown == {i \in 1 .. known : M[i].type = "hundredths"}

\* A hop changes a value by at most one hundredth, towards zero, and never
\* its sign.
HopLosesAtMostOne ==
    [][\A i \in HundredthsKnown' :
           /\ Abs(raw'[i]) \in {Abs(raw[i]), Abs(raw[i]) - 1}
           /\ raw'[i] # 0 => (raw'[i] > 0 <=> raw[i] > 0)]_vars

\* However long the way, the losses do not add up beyond DriftMax; and a value
\* out of range has become the nearest in it, not another.
DriftMax == 4
DriftBounded ==
    \A i \in HundredthsKnown :
        Abs(Clamped(M[i].signed, origin[i].k)) - Abs(raw[i]) \in 0 .. DriftMax

\* test_fm_driver.cpp: what was parsed, encoded again, gives the same bytes.
RoundTripExact == known = Len(M) => raw = first
=============================================================================
