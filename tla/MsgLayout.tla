----------------------------- MODULE MsgLayout -----------------------------
(***************************************************************************)
(* The messages in the payload of a frame, for one direction: how fm_msg.h *)
(* and fm_driver.c lay them out, and how they take them apart.             *)
(***************************************************************************)
EXTENDS Integers, Sequences

CONSTANTS
    Radix,         \* bytes are 0 .. Radix-1 (256 in the code)
    WrapId,        \* FM_MSG_INTERNAL_DATA_USER_TO_DEV or .._DEV_TO_USER
    EchoId,        \* FM_MSG_ECHO
    UserToUserId,  \* FM_MSG_DATA_USER_TO_USER
    RawSize,       \* [id -> sizeof its FMRawData*], for the ids decoded
    UserToUserIsWireless  \* dev->user: user_to_user is reported as wireless

ASSUME RadixAssumption == Radix \in Nat \ {0}
ASSUME IdAssumption ==
    /\ WrapId \in 0 .. (Radix - 1) /\ WrapId \notin DOMAIN RawSize
    /\ EchoId \in DOMAIN RawSize /\ UserToUserId \in DOMAIN RawSize
    /\ \A id \in DOMAIN RawSize : RawSize[id] \in Nat

ConnectType == {"WIRELESS", "WIRED"}

U8(n) == n % Radix

MsgHeaderSize  == 2  \* FM_MSG_HEADER_SIZE: id and payload_size
UserDataHeader == 1  \* offsetof(FMRawDataUserData, payload)

----------------------------------------------------------------------------
\* Building.

\* fm_msg_write
MsgWrite(id, raw) == <<id, U8(Len(raw))>> \o raw

\* A message for or from the wireless side is wrapped in user data.
WrappedSize(raw) == UserDataHeader + MsgHeaderSize + Len(raw)
Wrapped(id, raw) ==
    <<WrapId, U8(WrappedSize(raw)), U8(MsgHeaderSize + Len(raw))>> \o MsgWrite(id, raw)

\* fm_build_msg_to_dev, fm_build_msg_to_user: the bytes of message m, and
\* how many of them the room for it must hold.
\* Mutant: the room for the wrapper is not reckoned with.
BuiltSizeUnwrapped(m) == MsgHeaderSize + Len(m.raw)

BuiltSize(m) == MsgHeaderSize + (IF m.connect_type = "WIRED" THEN Len(m.raw)
                                                             ELSE WrappedSize(m.raw))
Built(m) == IF m.connect_type = "WIRED" THEN MsgWrite(m.id, m.raw)
                                        ELSE Wrapped(m.id, m.raw)

----------------------------------------------------------------------------
\* Taking apart.  w is what is left of the bytes that a call of
\* fm_msg_parser_handle_data goes through.

MsgSize(w)  == MsgHeaderSize + w[2]
MsgReady(w) == Len(w) >= MsgHeaderSize /\ Len(w) >= MsgSize(w)
MsgId(w)      == w[1]
MsgPayload(w) == SubSeq(w, MsgHeaderSize + 1, MsgSize(w))
AfterMsg(w)   == SubSeq(w, MsgSize(w) + 1, Len(w))

\* The user data wrapped in the message at the head of w.  Its own length
\* byte says where it ends, not the length of the message around it.
UserDataSize(w) == w[MsgHeaderSize + 1]
\* Mutant: the nested call is given the wrapper itself.
UserDataWhole(w) == SubSeq(w, 1, MsgSize(w))

UserData(w) == SubSeq(w, MsgHeaderSize + UserDataHeader + 1,
                         MsgHeaderSize + UserDataHeader + UserDataSize(w))

\* fm_msg_copy_payload: cut off, or filled with zeros, to the size of dst.
\* Mutant: a longer payload overruns dst.
CopyPayloadUncut(size, payload) ==
    [i \in 1 .. (IF size < Len(payload) THEN Len(payload) ELSE size) |->
        IF i <= Len(payload) THEN payload[i] ELSE 0]

CopyPayload(size, payload) ==
    [i \in 1 .. size |-> IF i <= Len(payload) THEN payload[i] ELSE 0]

\* What of the copied struct is reported.  An echo and user data have a length
\* of their own, payload_size: fm_data_echo_from_raw and
\* fm_data_user_to_user_from_raw take over so many bytes and leave the others
\* as they were.
SizedIds == {EchoId, UserToUserId}

Decoded(id, raw) == IF id \in SizedIds THEN SubSeq(raw, 1, 1 + raw[1]) ELSE raw

\* How a message is reported whose wrapper, if any, set connect_type.
Reported(connect_type, id) ==
    IF id = UserToUserId /\ UserToUserIsWireless THEN "WIRELESS" ELSE connect_type
============================================================================
