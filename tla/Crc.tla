-------------------------------- MODULE Crc --------------------------------
(***************************************************************************)
(* The checksums of fm_crc.c, of which the driver uses the one of 16 bits. *)
(* A byte is the set of its one bits, and so is the register; exclusive or *)
(* is symmetric difference.  A buffer is filled, given its checksum,       *)
(* and damaged on the line, where the bits of a byte go lowest first.      *)
(***************************************************************************)
EXTENDS Integers, Sequences, FiniteSetsExt

CONSTANTS
    Bytes,      \* bound: bytes a buffer is filled with
    LengthMax,  \* bound: how many
    BurstMax,   \* bound: length in bits of a burst of errors
    ErrorMax    \* bound: bits that flip in a burst

ASSUME ByteAssumption == Bytes \subseteq SUBSET (0 .. 7)
ASSUME BurstAssumption == BurstMax \in 1 .. 16

\* What tells the three functions apart: the bits of the constant (0x07,
\* 0xA001, 0xEDB88320), the direction of the shift, and the register's
\* initial and final treatment.
Parameters ==
    [crc8  |-> [width |-> 8, poly |-> {0, 1, 2},
                left |-> TRUE, ones |-> FALSE, inverted |-> FALSE],
     crc16 |-> [width |-> 16, poly |-> {0, 13, 15},
                left |-> FALSE, ones |-> TRUE, inverted |-> FALSE],
     crc32 |-> [width |-> 32, poly |-> {5, 8, 9, 15, 19, 20, 21, 23, 24, 26, 27,
                                        29, 30, 31},
                left |-> FALSE, ones |-> TRUE, inverted |-> TRUE]]

VARIABLES variant,  \* which of the functions is used
          data,     \* the buffer
          stage     \* "open", "sealed" with its checksum, or "damaged"

crcvars == <<variant, data, stage>>

----------------------------------------------------------------------------
Width(v)    == Parameters[v].width
Register(v) == 0 .. (Width(v) - 1)

\* Mutants: the constant of the other direction; no carry out is subtracted.
ShiftUnreflected(v, crc) ==
    LET reflected == {Width(v) - 1 - i : i \in Parameters[v].poly}
    IN  IF Parameters[v].left
        THEN SymDiff({i + 1 : i \in crc} \cap Register(v),
                     IF Width(v) - 1 \in crc THEN reflected ELSE {})
        ELSE SymDiff({i - 1 : i \in crc \ {0}}, IF 0 \in crc THEN reflected ELSE {})
ShiftOnly(v, crc) ==
    IF Parameters[v].left THEN {i + 1 : i \in crc} \cap Register(v)
                          ELSE {i - 1 : i \in crc \ {0}}

\* The inner loop's body: a shift, and the constant if a one was shifted out.
Shift(v, crc) ==
    LET poly == Parameters[v].poly
    IN  IF Parameters[v].left
        THEN SymDiff({i + 1 : i \in crc} \cap Register(v),
                     IF Width(v) - 1 \in crc THEN poly ELSE {})
        ELSE SymDiff({i - 1 : i \in crc \ {0}}, IF 0 \in crc THEN poly ELSE {})

\* The outer loop's body, for byte b: the register after each bit of it, ...
Feeding(v, crc, b) ==
    LET r[n \in 0 .. 8] == IF n = 0 THEN SymDiff(crc, b) ELSE Shift(v, r[n - 1])
    IN  r

\* ... and the outer loop: the register after each byte of d.
Running(v, d) ==
    LET crc[n \in 0 .. Len(d)] ==
            IF n = 0 THEN IF Parameters[v].ones THEN Register(v) ELSE {}
                     ELSE Feeding(v, crc[n - 1], d[n])[8]
    IN  crc

\* fm_crc8_get, fm_crc16_get, fm_crc32_get
Get(v, d) ==
    LET crc == Running(v, d)[Len(d)]
    IN  IF Parameters[v].inverted THEN Register(v) \ crc ELSE crc

\* The register in memory, lowest byte first.
Stored(v, crc) ==
    [k \in 1 .. (Width(v) \div 8) |-> {i \in 0 .. 7 : 8 * (k - 1) + i \in crc}]

\* fm_crc8_verify, fm_crc16_verify, fm_crc32_verify
Verify(v, d) ==
    LET n == Len(d) - Width(v) \div 8
    IN  Stored(v, Get(v, SubSeq(d, 1, n))) = SubSeq(d, n + 1, Len(d))

----------------------------------------------------------------------------
CrcInit == /\ variant \in DOMAIN Parameters
           /\ data = << >> /\ stage = "open"

Fill(b) == /\ stage = "open" /\ Len(data) < LengthMax
           /\ data' = Append(data, b)
           /\ UNCHANGED <<variant, stage>>

\* fm_crc8_update, fm_crc16_update, fm_crc32_update
Update == /\ stage = "open"
          /\ data' = data \o Stored(variant, Get(variant, data))
          /\ stage' = "sealed"
          /\ UNCHANGED variant

\* A burst of errors: its first bit and some of the BurstMax - 1 after it flip.
Bursts == {{0} \cup b : b \in UNION {kSubset(k, 1 .. (BurstMax - 1)) :
                                    k \in 0 .. (ErrorMax - 1)}}
Flipped(d, at, burst) ==
    [k \in DOMAIN d |->
        SymDiff(d[k], {i \in 0 .. 7 : 8 * (k - 1) + i - at \in burst})]

\* Only the 16-bit checksum goes over the line.
Damage(at, burst) ==
    /\ variant = "crc16" /\ stage = "sealed"
    /\ \A i \in burst : at + i < 8 * Len(data)
    /\ data' = Flipped(data, at, burst)
    /\ stage' = "damaged"
    /\ UNCHANGED variant

CrcNext == \/ \E b \in Bytes : Fill(b)
           \/ Update
           \/ \E at \in 0 .. (8 * Len(data)), burst \in Bursts : Damage(at, burst)

CrcSpec == CrcInit /\ [][CrcNext]_crcvars

----------------------------------------------------------------------------
\* The reference: the bits, first on the line first, are the coefficients of
\* a polynomial over GF(2), here the set of its exponents; the checksum is
\* the remainder of its division by Divisor.

Divisor ==
    [crc8  |-> {8, 2, 1, 0},
     crc16 |-> {16, 15, 2, 0},
     crc32 |-> {32, 26, 23, 22, 16, 12, 11, 10, 8, 7, 5, 4, 2, 1, 0}]

\* The division of p, no exponent of which exceeds degree: none in r[d]
\* exceeds d.
Dividing(v, p, degree) ==
    LET r[d \in (Width(v) - 1) .. degree] ==
            IF d = degree THEN p
            ELSE IF d + 1 \in r[d + 1]
                 THEN SymDiff(r[d + 1], {e + d + 1 - Width(v) : e \in Divisor[v]})
                 ELSE r[d + 1]
    IN  r

\* Exponents of the bits of d, followed by as many zeros as the register is
\* wide, the first of them inverted where the register starts with ones.
Polynomial(v, d) ==
    LET n == 8 * Len(d)
        Exponent(k, i) == Width(v) + n - 8 * k + (IF Parameters[v].left THEN i ELSE 7 - i)
        bits == UNION {{Exponent(k, i) : i \in d[k]} : k \in DOMAIN d}
    IN  SymDiff(bits, IF Parameters[v].ones THEN n .. (n + Width(v) - 1) ELSE {})

Reference(v, d) ==
    LET rem == Dividing(v, Polynomial(v, d), 8 * Len(d) + Width(v))[Width(v) - 1]
        crc == IF Parameters[v].left THEN rem ELSE {Width(v) - 1 - e : e \in rem}
    IN  IF Parameters[v].inverted THEN Register(v) \ crc ELSE crc

\* fm_crc.c: the functions compute the CRC-8, the CRC-16-MODBUS and the CRC-32
\* that others compute.  A wrong constant or bit order would go unnoticed as
\* long as both ends of the line use this code.
EqualsDivision == stage = "open" => Get(variant, data) = Reference(variant, data)

\* Verify accepts what update has written, and takes it for damaged once a
\* burst of errors no longer than the register has hit it, wherever the burst
\* falls, the checksum itself included: the parser never delivers such a frame.
DamageDetected == stage # "open" => (Verify(variant, data) <=> stage = "sealed")
============================================================================
