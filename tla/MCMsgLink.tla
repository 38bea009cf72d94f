----------------------------- MODULE MCMsgLink -----------------------------
(***************************************************************************)
(* Messages for MsgLink, with the ids and sizes of fm_driver_data.h and    *)
(* fm_driver_data_raw.h.  Payload bytes repeat the id of the wrapper, so   *)
(* that a parser that loses its place would take them for wrappers.        *)
(***************************************************************************)
EXTENDS MsgLink, TLC

Filled(n) == [i \in 1 .. n |-> IF i = n THEN 7 ELSE WrapId]
Msg(c, i, n) == [connect_type |-> c, id |-> i, raw |-> Filled(n)]
Sized(c, i, n) == [connect_type |-> c, id |-> i, raw |-> <<n>> \o Filled(n)]
Echo(c, n) == Sized(c, EchoId, n)
UserToUser(c, n) == Sized(c, UserToUserId, n)
BothWays(i, n) == {Msg(c, i, n) : c \in ConnectType}

\* user -> dev.  PARAM_READ 25 without payload, PARAM 26, USER_TO_USER 36 with
\* 0 and with 75 bytes of data; ECHO 3, FIND 4 and RESTART 5 are known to the
\* device as well, and 99 of a later version is not.
RawSizeToDev == 3 :> 65 @@ 4 :> 1 @@ 5 :> 2 @@ 25 :> 0 @@ 26 :> 31 @@ 36 :> 79
MessagesToDev == BothWays(25, 0) \cup BothWays(26, 31)
                 \cup {UserToUser("WIRED", 0),
                       UserToUser("WIRELESS", 75), Msg("WIRELESS", 99, 3)}

\* dev -> user.  A device of another version: its PREV_RESULT 30 is longer and
\* its DIS 46 shorter than the user's, and it has a message 47 of its own; its
\* ECHO 3 has 2 bytes of data.
RawSizeToUser == 3 :> 65 @@ 4 :> 1 @@ 30 :> 13 @@ 36 :> 79 @@ 46 :> 13
MessagesToUser == BothWays(30, 15) \cup BothWays(46, 9)
                  \cup BothWays(47, 3) \cup {Echo(c, 2) : c \in ConnectType}
                  \cup {UserToUser("WIRED", 1),
                        UserToUser("WIRELESS", 75)}

\* The largest user_to_user, wireless.
MessagesLarge == {UserToUser("WIRELESS", n) : n \in {0, 75, 76, 78}}

Sizes == {13, 45, 60, 255}
SizesToDev == {6, 10, 44, 89, 255}
============================================================================
