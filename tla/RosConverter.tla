---------------------------- MODULE RosConverter ----------------------------
(***************************************************************************)
(* The ROS node around SerialIo, from the start of main to its return:     *)
(* ros2_converter, of which ros1_converter is the same program for ROS 1.  *)
(* The main thread makes the handle with its publishers and subscriptions, *)
(* starts the spinning thread and runs main_common_init, which publishes   *)
(* what the device sends.  The spinning thread takes the commands of other *)
(* nodes, one callback at a time, and sends them: it is SerialIo's sender. *)
(***************************************************************************)
EXTENDS SerialIo

CONSTANTS
    Topics,      \* the topics subscribed to
    Depth,       \* commands a subscription keeps (50 in the code)
    Kinds,       \* kinds of message the device sends
    Pieces,      \* bound: the messages of one piece of incoming data
    CntRange,    \* frame counts are 0 .. CntRange-1 (256 in the code)
    CommandMax   \* bound: commands of other nodes, altogether

ASSUME SpinnerAssumption == \E s \in Senders : Senders = {s}
ASSUME DepthAssumption == Depth \in Nat \ {0}
ASSUME PieceAssumption == Pieces \subseteq Seq(Kinds)
ASSUME CountAssumption == CntRange \in Nat \ {0}

VARIABLES
    program,    \* where main is
    s_self,     \* is the singleton pointer set?
    context,    \* is the ROS context valid?
    spinner,    \* what the spinning thread does
    inbox,      \* [topic -> commands not taken yet]
    commanded,  \* history: how many commands other nodes have published
    g_tx_cnt,   \* the count of the next frame, in main_common.cpp
    taken,      \* history: the commands taken, whether the port was open, and
                \* the count that the frame made of it got
    received,   \* history: kinds of the messages parsed
    published   \* history: topic and number of the message, in order

mainros  == <<program, s_self, context>>
inros    == <<inbox, commanded, g_tx_cnt, taken>>
outros   == <<received, published>>
rosvars  == <<mainros, spinner, inros, outros>>
allvars  == <<vars, rosvars>>

RosInit == /\ Init
           /\ program = "init" /\ s_self = FALSE /\ context = TRUE
           /\ spinner = "none"
           /\ inbox = [t \in Topics |-> << >>] /\ commanded = 0 /\ taken = << >>
           /\ g_tx_cnt = 0
           /\ received = << >> /\ published = << >>

----------------------------------------------------------------------------
\* main, on the main thread, outside main_common_init.

At(here, there) == io # "exited" /\ program = here /\ program' = there

\* The node and its parameters, the handle, its publishers and subscriptions.
Construct == /\ At("init", "handle")
             /\ s_self' = TRUE
             /\ UNCHANGED <<vars, context, spinner, inros, outros>>

\* ... which throw once the context is shut down.
ConstructThrows == /\ io # "exited" /\ program = "init" /\ ~context
                   /\ io' = "exited"
                   /\ UNCHANGED <<can_use_serial, g_serial, alive, stopped, ready,
                                  readvars, writevars, sendervars, signalled, rosvars>>

StartSpin == /\ At("handle", "serial")
             /\ spinner' = "spinning"
             /\ UNCHANGED <<vars, s_self, context, inros, outros>>

\* Mutant: the context is left as it is.
ShutdownForgotten == /\ At("serial", "shutdown")
                     /\ io = "done"
                     /\ UNCHANGED <<vars, s_self, context, spinner, inros, outros>>

Shutdown == /\ At("serial", "shutdown")
            /\ io = "done"
            /\ context' = FALSE
            /\ UNCHANGED <<vars, s_self, spinner, inros, outros>>

\* Mutant: the thread is detached instead.
JoinDetached == /\ At("shutdown", "joined")
                /\ UNCHANGED <<vars, s_self, context, spinner, inros, outros>>

Join == /\ At("shutdown", "joined")
        /\ spinner = "ended"
        /\ UNCHANGED <<vars, s_self, context, spinner, inros, outros>>

\* The handle is destroyed.
ReturnMain == /\ At("joined", "returned")
              /\ s_self' = FALSE
              /\ UNCHANGED <<vars, context, spinner, inros, outros>>

----------------------------------------------------------------------------
\* From the device: the parser calls on_frame_msg within OnRead.

\* The topics of the messages that on_frame_msg has a case for.
Cases == [ECHO |-> <<"echo_from_device">>, HEARTBEAT |-> <<"heartbeat">>,
          PARAM |-> <<"param">>, RESULT |-> <<"result", "result_pose">>,
          PREV_RESULT |-> <<"prev_result">>,
          DATA_USER_TO_USER |-> <<"user_data_from_device">>,
          SPHERICAL_RESULT |-> <<"spherical_result">>,
          PREV_SPHERICAL_RESULT |-> <<"prev_spherical_result">>,
          DIS |-> <<"dis">>]


Route(id) == IF id \in DOMAIN Cases THEN Cases[id] ELSE << >>

\* dispatch: message number n of kind id goes to its topics, as long as there
\* is a context to publish in.
Dispatch(id, n) ==
    IF s_self /\ context THEN [k \in DOMAIN Route(id) |-> <<Route(id)[k], n>>] ELSE << >>

\* What is published once the first k messages of a piece of data are
\* dispatched.
DispatchedUpTo(chunk) ==
    LET after[k \in 0 .. Len(chunk)] ==
            IF k = 0 THEN published
            ELSE after[k - 1] \o Dispatch(chunk[k], Len(received) + k)
    IN  after

\* The messages of a piece of data, one after another.
OnData(chunk) ==
    /\ program = "serial" /\ OnRead
    /\ received' = received \o chunk
    /\ published' = DispatchedUpTo(chunk)[Len(chunk)]
    /\ UNCHANGED <<mainros, spinner, inros>>

----------------------------------------------------------------------------
\* To the device.

\* Another node publishes; a subscription that is full forgets its oldest.
Command(t) ==
    /\ io # "exited" /\ s_self /\ commanded < CommandMax
    /\ commanded' = commanded + 1
    /\ LET q == Append(inbox[t], commanded')
       IN  inbox' = [inbox EXCEPT ![t] = IF Len(q) > Depth THEN Tail(q) ELSE q]
    /\ UNCHANGED <<vars, mainros, spinner, g_tx_cnt, taken, outros>>

\* The port is published to senders and main_common_init has not been stopped.
PortOpen == io = "run" /\ ~stopped

\* Mutant: the count does not start again.
NextCountStuck(cnt) == IF cnt + 1 < CntRange THEN cnt + 1 ELSE cnt

\* g_tx_cnt++.  Only this thread sends, so that nothing gets between reading
\* the count and writing it back.
NextCount(cnt) == (cnt + 1) % CntRange

\* The spinning thread starts the callback of a subscription, which copies the
\* command, and main_common_send_msg counts and makes the frame.
Take(s, t) ==
    /\ io # "exited" /\ spinner = "spinning" /\ context
    /\ inbox[t] # << >> /\ sent[s] < SendMax
    /\ spinner' = "callback"
    /\ inbox' = [inbox EXCEPT ![t] = Tail(@)]
    /\ g_tx_cnt' = NextCount(g_tx_cnt)
    /\ taken' = Append(taken, [topic |-> t, number |-> Head(inbox[t]), open |-> PortOpen,
                               cnt |-> g_tx_cnt])
    /\ UNCHANGED <<vars, mainros, commanded, outros>>

\* The callback goes through serial_try_send_data, and returns.
Callback(s) ==
    /\ spinner = "callback" /\ Sending(s)
    /\ spinner' = IF sender'[s] = "idle" THEN "spinning" ELSE "callback"
    /\ UNCHANGED <<mainros, inros, outros>>

\* rclcpp::spin returns when the context is shut down.
SpinEnds == /\ io # "exited" /\ spinner = "spinning" /\ ~context
            /\ spinner' = "ended"
            /\ UNCHANGED <<vars, mainros, inros, outros>>

\* A signal before asio's signal set is there goes to the handler that
\* rclcpp::init has installed: it shuts the context down, and that is all.
EarlySignal == /\ io = "start" /\ context
               /\ context' = FALSE
               /\ UNCHANGED <<vars, program, s_self, spinner, inros, outros>>

\* One after the set is gone has its default effect.
LateSignal == /\ io = "done" /\ program # "returned"
              /\ io' = "exited"
              /\ UNCHANGED <<can_use_serial, g_serial, alive, stopped, ready,
                             readvars, writevars, sendervars, signalled, rosvars>>

----------------------------------------------------------------------------
\* main_common_init, apart from the reading of data.
InMainCommon ==
    /\ program = "serial"
    /\ Main \/ OnPost \/ OnWritten \/ OnError \/ OnSignal
    /\ UNCHANGED rosvars

MainThread == Construct \/ ConstructThrows \/ StartSpin \/ InMainCommon
                \/ (\E chunk \in Pieces : OnData(chunk))
                \/ Shutdown \/ Join \/ ReturnMain

SpinThread == SpinEnds \/ \E s \in Senders : Callback(s)

Port == (Device \/ Signal) /\ UNCHANGED rosvars

RosNext == \/ MainThread \/ SpinThread \/ Port \/ EarlySignal \/ LateSignal
           \/ \E t \in Topics : Command(t) \/ \E s \in Senders : Take(s, t)

RosSafeSpec == RosInit /\ [][RosNext]_allvars

\* As in SerialIo; and the spinning thread runs, once it has a callback to
\* run or a context that is gone.  Nothing is assumed of other nodes.
RosSpec == /\ RosSafeSpec
           /\ WF_allvars(MainThread) /\ WF_allvars(SpinThread)
           /\ WF_allvars((DeviceTakes \/ DeviceRefuses) /\ UNCHANGED rosvars)

----------------------------------------------------------------------------
\* The callbacks of the spinning thread capture the handle, and on_frame_msg
\* goes through s_self: the handle outlives both, whatever stops the program.
HandleOutlivesUsers ==
    io # "exited" /\ (spinner \in {"spinning", "callback"} \/ io = "run") => s_self

\* A command that the spinning thread took while the port was open is handed
\* to the port, unless the program is being stopped: that the port is open for
\* the main thread means that it is for a callback as well.
NoCommandSwallowed ==
    PortOpen => \A s \in Senders : \A k \in 1 .. sent[s] :
        taken[k].open => \E j \in DOMAIN submitted : submitted[j] = <<s, k - 1>>

\* What the device gets of one topic's commands comes in the order they were
\* published in and at most once, with gaps where a subscription or a closed
\* port dropped some.
CommandsInOrder ==
    LET command(k) == taken[transmitted[k][2] + 1]
    IN  \A j, k \in DOMAIN transmitted :
            j < k /\ command(j).topic = command(k).topic
                => command(j).number < command(k).number

\* The device tells by the counts whether it has missed a frame.  Two frames
\* that it gets one after the other carry one count after the other, also
\* where the counts start again from 0.  As a call takes a count whether its
\* frame goes out or not, this says that no call between two that reach the
\* device comes to nothing: whatever drops a frame, be it the flag, the
\* pointer, the loop or the port, drops all after it.
CountsConsecutive ==
    LET cnt(k) == taken[transmitted[k][2] + 1].cnt
    IN  \A k \in 1 .. (Len(transmitted) - 1) : cnt(k + 1) = (cnt(k) + 1) % CntRange

\* readme.md, the table of what the nodes publish, as a kind for each topic.
TopicKind == [echo_from_device |-> "ECHO", heartbeat |-> "HEARTBEAT",
              param |-> "PARAM", result |-> "RESULT", result_pose |-> "RESULT",
              prev_result |-> "PREV_RESULT",
              user_data_from_device |-> "DATA_USER_TO_USER",
              spherical_result |-> "SPHERICAL_RESULT",
              prev_spherical_result |-> "PREV_SPHERICAL_RESULT", dis |-> "DIS"]


\* Once asio has taken a signal the program ends: the loop stops, the spinning
\* thread notices, main joins it and returns; or a handler's exception or
\* another signal ends the process on the way.
ProgramEnds == signalled ~> program = "returned" \/ io = "exited"
=============================================================================
