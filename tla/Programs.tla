------------------------------ MODULE Programs ------------------------------
(***************************************************************************)
(* The two tools around SerialIo: reader and writer.  reader logs what the *)
(* device sends and publishes some of it on Foxglove channels, which feed  *)
(* a WebSocket server and a recording, each of which may be missing.       *)
(* writer sends three messages from a thread of its own, asleep between    *)
(* them, and then stops itself with a SIGINT.  The Foxglove SDK is         *)
(* modelled by what the code relies on: a channel hands what is logged on  *)
(* it to every sink that is there.                                         *)
(***************************************************************************)
EXTENDS SerialIo, FiniteSets

SX == INSTANCE SequencesExt

CONSTANTS
    Kinds,     \* kinds of message the device sends
    FrameMax,  \* bound: frames in one piece of incoming data
    MsgMax,    \* bound: messages in one of them
    FailMax    \* bound: channels that cannot be created

\* The sender is writer's thread, which sends three messages.
ASSUME ThreadAssumption == SendMax = 3 /\ \E s \in Senders : Senders = {s}
ASSUME LimitAssumption == FrameMax \in Nat /\ MsgMax \in Nat /\ FailMax \in Nat

Channels == {"/tf", "/result_pose", "/result_scene", "/result",
             "/spherical_result", "/dis"}

VARIABLES
    app,        \* the program that was started
    foxglove,   \* is reader built with the Foxglove SDK?
    record,     \* was it given --record?
    patient,    \* does writer sleep as long as it means to?
    program,    \* where main is
    channels,   \* the channels created, once ensure_channels has run
    s_server,   \* the WebSocket server: "none", "up" or "gone"
    s_writer,   \* the recording: "none", "open", "closed" or "damaged"
    out,        \* s_header; history: what was logged, shown and recorded
    received,   \* history: the frames parsed, as the kinds of their messages
    thread,     \* what writer's sending thread does
    disturbed   \* history: has a signal come from outside?

choices  == <<app, foxglove, record, patient>>
sinks    == <<channels, s_server, s_writer>>
toolvars == <<choices, program, sinks, out, received, thread, disturbed>>
allvars  == <<vars, toolvars>>

NoChannels == {"not created"}

ToolInit ==
    /\ Init
    /\ app \in {"reader", "writer"} /\ program = "init"
    /\ foxglove \in BOOLEAN /\ record \in BOOLEAN /\ patient \in BOOLEAN
    /\ app = "writer" => ~foxglove /\ ~record
    /\ app = "reader" => patient
    /\ channels = NoChannels /\ s_server = "none" /\ s_writer = "none"
    /\ out = [s_header |-> 0, logged |-> << >>, shown |-> << >>, recorded |-> << >>]
    /\ received = << >> /\ thread = "none" /\ disturbed = FALSE

At(name, here, there) ==
    /\ io # "exited" /\ app = name
    /\ program = here /\ program' = there
    /\ UNCHANGED <<vars, choices, received, disturbed>>

----------------------------------------------------------------------------
\* reader, outside main_common_init.

EnsureChannels ==
    IF channels # NoChannels THEN channels' = channels
    ELSE channels' \in {c \in SUBSET Channels : Cardinality(Channels \ c) <= FailMax}

\* foxglove_viz::init; without the SDK it does nothing.
StartServer ==
    /\ At("reader", "init", IF record THEN "record" ELSE "serial")
    /\ IF foxglove THEN EnsureChannels /\ s_server' \in {"none", "up"}
                   ELSE UNCHANGED <<channels, s_server>>
    /\ UNCHANGED <<s_writer, out, thread>>

\* foxglove_viz::record_start
RecordStart ==
    /\ At("reader", "record", "serial")
    /\ IF foxglove THEN EnsureChannels /\ s_writer' \in {"none", "open"}
                   ELSE UNCHANGED <<channels, s_writer>>
    /\ UNCHANGED <<s_server, out, thread>>

\* Mutant: there is nothing to do without a server.
ShutdownServerOnly ==
    /\ At("reader", "serial", "returned")
    /\ io = "done"
    /\ s_server' = IF s_server = "up" THEN "gone" ELSE s_server
    /\ IF s_server = "up" /\ s_writer = "open" THEN s_writer' \in {"closed", "damaged"}
                                               ELSE s_writer' = s_writer
    /\ UNCHANGED <<channels, out, thread>>

\* foxglove_viz::shutdown, and main returns.  Closing the file may fail.
Shutdown ==
    /\ At("reader", "serial", "returned")
    /\ io = "done"
    /\ s_server' = IF s_server = "up" THEN "gone" ELSE s_server
    /\ IF s_writer = "open" THEN s_writer' \in {"closed", "damaged"}
                            ELSE s_writer' = s_writer
    /\ UNCHANGED <<channels, out, thread>>

----------------------------------------------------------------------------
\* reader's callbacks, which the parser calls within OnRead.

\* The publish overloads: what a message is logged on.
Outputs(kind) ==
    CASE kind = "RESULT" -> <<"/tf", "/result_pose", "/result_scene", "/result">>
      [] kind = "SPHERICAL_RESULT" -> <<"/spherical_result">>
      [] kind = "DIS" -> <<"/dis">>
      [] OTHER -> << >>

Existing == IF foxglove THEN Channels \cap channels ELSE {}
Log(kind) == Selected(Outputs(kind), Existing)

PublishTo(st, kind) ==
    [st EXCEPT !.shown    = IF s_server = "up" THEN @ \o Log(kind) ELSE @,
               !.recorded = IF s_writer = "open" THEN @ \o Log(kind) ELSE @]

OnFrameBegin(st, n) == [st EXCEPT !.s_header = n]

OnFrameMsg(st, kind) ==
    PublishTo([st EXCEPT !.logged = Append(@, <<st.s_header, kind>>)], kind)

Frames == UNION {[1 .. n -> Kinds] : n \in 1 .. MsgMax}
Chunks == UNION {[1 .. n -> Frames] : n \in 0 .. FrameMax}

\* The n-th frame, after each of its messages, ...
OnFrame(st, n, frame) ==
    LET upTo[k \in 0 .. Len(frame)] ==
            IF k = 0 THEN OnFrameBegin(st, n) ELSE OnFrameMsg(upTo[k - 1], frame[k])
    IN  upTo

\* ... and the frames that a piece of data completes, after each of them.
OnFrames(chunk) ==
    LET upTo[n \in 0 .. Len(chunk)] ==
            IF n = 0 THEN out
            ELSE OnFrame(upTo[n - 1], Len(received) + n, chunk[n])[Len(chunk[n])]
    IN  upTo

OnData(chunk) ==
    /\ app = "reader" /\ program = "serial" /\ OnRead
    /\ received' = received \o chunk
    /\ out' = OnFrames(chunk)[Len(chunk)]
    /\ UNCHANGED <<choices, program, sinks, thread, disturbed>>

----------------------------------------------------------------------------
\* writer.

StartThread == /\ At("writer", "init", "serial")
               /\ thread' = "sleep"
               /\ UNCHANGED <<sinks, out>>

Join == /\ At("writer", "serial", "returned")
        /\ io = "done" /\ thread = "ended"
        /\ UNCHANGED <<sinks, out, thread>>

\* Nothing is left to do until the next frame is sent.
AtRest == io = "done" \/ (io = "run" /\ ready = << >> /\ in_flight = << >>)

\* The thread sleeps for 200 ms, in which opening the port or writing a frame
\* normally ends; it has no other reason to believe that they have.
Wake(s) == /\ io # "exited" /\ thread = "sleep"
           /\ patient => AtRest
           /\ thread' = IF sent[s] < SendMax THEN "send" ELSE "raise"
           /\ UNCHANGED <<vars, choices, program, sinks, out, received, disturbed>>

\* Mutant: it does not sleep after the last message.
SendMsgHasty(s) ==
    /\ thread = "send" /\ Sending(s)
    /\ thread' = IF sender'[s] # "idle" THEN "send"
                 ELSE IF sent'[s] = SendMax THEN "raise" ELSE "sleep"
    /\ UNCHANGED <<choices, program, sinks, out, received, disturbed>>

SendMsg(s) ==
    /\ thread = "send" /\ Sending(s)
    /\ thread' = IF sender'[s] = "idle" THEN "sleep" ELSE "send"
    /\ UNCHANGED <<choices, program, sinks, out, received, disturbed>>

\* A signal takes effect once asio's signal set is there and until it is gone
\* with main_common_init; before and after it ends the process.
Caught == io \notin {"start", "done", "exited"}
Kill == /\ io \in {"start", "done"}
        /\ io' = "exited"
        /\ UNCHANGED <<can_use_serial, g_serial, alive, stopped, ready, readvars,
                       writevars, sendervars, signalled>>
Interrupt == Signal \/ Kill \/ (Caught /\ signalled /\ UNCHANGED vars)

\* Mutant: the thread ends without the signal.
RaiseForgotten ==
    /\ thread = "raise"
    /\ thread' = "ended"
    /\ UNCHANGED <<vars, choices, program, sinks, out, received, disturbed>>

\* raise(SIGINT), the last thing the thread does.
Raise == /\ thread = "raise" /\ Interrupt
         /\ thread' = "ended"
         /\ UNCHANGED <<choices, program, sinks, out, received, disturbed>>

----------------------------------------------------------------------------
\* The user's Ctrl+C.
CtrlC == /\ program # "returned" /\ (Signal \/ Kill)
         /\ disturbed' = TRUE
         /\ UNCHANGED <<choices, program, sinks, out, received, thread>>

\* main_common_init; writer has no parser and drops what it reads.
InMainCommon ==
    /\ program = "serial"
    /\ Main \/ OnPost \/ OnWritten \/ OnError \/ OnSignal \/ (app = "writer" /\ OnRead)
    /\ UNCHANGED toolvars

MainThread == StartServer \/ RecordStart \/ StartThread \/ InMainCommon
                \/ (\E chunk \in Chunks : OnData(chunk)) \/ Shutdown \/ Join

SendThread == Raise \/ \E s \in Senders : Wake(s) \/ SendMsg(s)

ToolNext == MainThread \/ SendThread \/ CtrlC \/ (Device /\ UNCHANGED toolvars)

ToolSafeSpec == ToolInit /\ [][ToolNext]_allvars

\* As in SerialIo; and writer's thread runs and wakes up.
ToolSpec == /\ ToolSafeSpec
            /\ WF_allvars(MainThread) /\ WF_allvars(SendThread)
            /\ WF_allvars((DeviceTakes \/ DeviceRefuses) /\ UNCHANGED toolvars)

----------------------------------------------------------------------------
\* What there is to publish of some messages, and to log of some frames.
Published(messages) == SX!FlattenSeq([k \in DOMAIN messages |-> Log(messages[k])])
Logged(frames) == SX!FlattenSeq([n \in DOMAIN frames |->
                                    [k \in DOMAIN frames[n] |-> <<n, frames[n][k]>>]])

\* foxglove_viz.hpp:7 and :17, readme.md: log, server and recording do not
\* depend on one another.  Every message parsed is in the log once, in order,
\* under the header of its own frame; server and recording have each got
\* everything published since they were started, on the channels there are
\* and in the order of arrival, whether the other could be started or not;
\* and when main returns the file has been closed.
OutputsIndependent ==
    /\ out.logged = Logged(received)
    /\ s_server # "none" => out.shown = Published(SX!FlattenSeq(received))
    /\ s_writer # "none" => out.recorded = Published(SX!FlattenSeq(received))
    /\ program = "returned" => s_server # "up" /\ s_writer # "open"

\* writer asks nobody whether the port is open or a frame written, it only
\* waits.  If it waits long enough, and neither a signal nor the device
\* interferes, the device has got all three messages in order when main
\* returns: the port is open for the thread by then, and the signal the
\* thread raises cuts none off.
AllThreeSent ==
    app = "writer" /\ program = "returned" /\ patient /\ ~disturbed =>
        \E s \in Senders : transmitted = [k \in 1 .. SendMax |-> <<s, k - 1>>]

\* writer ends by itself, and reader once asio has taken a signal, however the
\* sleeps fall, whatever could not be started and whatever the device does:
\* main is not left waiting for its thread, nor the loop for a handler.
ToolEnds == app = "writer" \/ signalled ~> program = "returned" \/ io = "exited"
=============================================================================
