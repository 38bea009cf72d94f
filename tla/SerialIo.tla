------------------------------ MODULE SerialIo ------------------------------
(***************************************************************************)
(* The programs around the driver: main_common.cpp and serial_port.cpp.    *)
(* The main thread opens the port and runs asio's io_context, which calls  *)
(* one handler after another; other threads send frames through            *)
(* serial_try_send_data at any time, before the port is open and while it  *)
(* is being shut down.  The port may fail, and a signal stops the program. *)
(* asio is modelled by what the code relies on: a queue of handlers ready  *)
(* to run, to which the device, the signal set and asio::post add.         *)
(***************************************************************************)
EXTENDS Integers, Sequences, Selection

CONSTANTS
    Senders,  \* threads that call serial_try_send_data
    SendMax,  \* bound: calls by each of them
    ReadMax   \* bound: pieces of data the device sends

ASSUME BoundAssumption == SendMax \in Nat /\ ReadMax \in Nat

VARIABLES
    io,              \* where main_common_init is
    can_use_serial,  \* the atomic flag
    g_serial,        \* is the global pointer set?
    alive,           \* history: does the SerialPort object exist?
    stopped,         \* ioc.stop() was called
    ready,           \* handlers ready to run
    reading,         \* an async_read_some is under way
    reads,           \* pieces of data received so far
    write_queue,     \* write_queue_
    in_flight,       \* the async_writes under way: what each is to write
    sender,          \* where each sender is in serial_try_send_data
    sent,            \* history: how many of its calls have returned
    signalled,       \* history: SIGINT or SIGTERM has arrived
    submitted,       \* history: frames posted to the port, in order
    transmitted      \* history: frames the device has taken

mainvars   == <<io, can_use_serial, g_serial, alive, stopped>>
readvars   == <<reading, reads>>
writevars  == <<write_queue, in_flight, transmitted>>
sendervars == <<sender, sent, submitted>>
vars == <<mainvars, ready, readvars, writevars, sendervars, signalled>>

\* A frame is told here by the call that sends it: whose it is, and which.  Of
\* its bytes, the frame count among them, serial_try_send_data knows nothing.
Frame(s) == <<s, sent[s]>>
Post(frame) == [op |-> "post", frame |-> frame]
Ev(op)   == [op |-> op]

----------------------------------------------------------------------------
Init == /\ io = "start" /\ can_use_serial = TRUE /\ g_serial = FALSE
        /\ alive = FALSE /\ stopped = FALSE
        /\ ready = << >> /\ signalled = FALSE
        /\ reading = FALSE /\ reads = 0
        /\ write_queue = << >> /\ in_flight = << >> /\ transmitted = << >>
        /\ sender = [s \in Senders |-> "idle"]
        /\ sent = [s \in Senders |-> 0] /\ submitted = << >>

----------------------------------------------------------------------------
\* main_common_init, on the main thread.

Begin == /\ io = "start"
         /\ can_use_serial' = TRUE
         /\ io' = "open"
         /\ UNCHANGED <<g_serial, alive, stopped, ready, readvars, writevars,
                        sendervars, signalled>>

\* The SerialPort is constructed and starts to read, ...
OpenPort == /\ io = "open"
            /\ alive' = TRUE /\ reading' = TRUE
            /\ io' = "publish"
            /\ UNCHANGED <<can_use_serial, g_serial, stopped, ready, reads,
                           writevars, sendervars, signalled>>

\* ... or its constructor throws, and the program exits.
OpenFails == /\ io = "open"
             /\ io' = "exited"
             /\ UNCHANGED <<can_use_serial, g_serial, alive, stopped, ready,
                            readvars, writevars, sendervars, signalled>>

\* Mutant: the global pointer is not set.
PublishUnset == /\ io = "publish"
                /\ io' = "run"
                /\ UNCHANGED <<can_use_serial, g_serial, alive, stopped, ready,
                               readvars, writevars, sendervars, signalled>>

Publish == /\ io = "publish"
           /\ g_serial' = TRUE
           /\ io' = "run"
           /\ UNCHANGED <<can_use_serial, alive, stopped, ready, readvars,
                          writevars, sendervars, signalled>>

\* Mutant: the pointer is not cleared before the port goes.
RunReturnsUncleared ==
    /\ io = "run" /\ stopped
    /\ can_use_serial' = FALSE
    /\ io' = "destroy"
    /\ UNCHANGED <<g_serial, alive, stopped, ready, readvars, writevars,
                   sendervars, signalled>>

\* ioc.run() returns once stopped; then the flag and the pointer are cleared
\* and the port is destroyed, one after the other.
RunReturns == /\ io = "run" /\ stopped
              /\ can_use_serial' = FALSE
              /\ io' = "clear"
              /\ UNCHANGED <<g_serial, alive, stopped, ready, readvars,
                             writevars, sendervars, signalled>>

ClearPointer == /\ io = "clear"
                /\ g_serial' = FALSE
                /\ io' = "destroy"
                /\ UNCHANGED <<can_use_serial, alive, stopped, ready, readvars,
                               writevars, sendervars, signalled>>

\* ~SerialPort closes the port; nothing runs its handlers any more.
Destroy == /\ io = "destroy"
           /\ alive' = FALSE /\ reading' = FALSE /\ in_flight' = << >>
           /\ io' = "done"
           /\ UNCHANGED <<can_use_serial, g_serial, stopped, ready, reads,
                          write_queue, transmitted, sendervars, signalled>>

\* A handler threw: the port is destroyed on the way to the catch clause,
\* which ends the process; flag and pointer keep their values.
Unwind == /\ io = "throw"
          /\ alive' = FALSE /\ reading' = FALSE /\ in_flight' = << >>
          /\ io' = "catch"
          /\ UNCHANGED <<can_use_serial, g_serial, stopped, ready, reads,
                         write_queue, transmitted, sendervars, signalled>>

Exit == /\ io = "catch"
        /\ io' = "exited"
        /\ UNCHANGED <<can_use_serial, g_serial, alive, stopped, ready,
                       readvars, writevars, sendervars, signalled>>

----------------------------------------------------------------------------
\* The handlers, run one at a time by ioc.run().

Handler(op) == /\ io = "run" /\ ~stopped
               /\ ready # << >> /\ Head(ready).op = op
               /\ ready' = Tail(ready)

\* start_async_write, on write queue q.
StartWrite(q) == IF q = << >> THEN in_flight' = in_flight
                              ELSE in_flight' = Append(in_flight, Head(q))

\* Mutants: every push starts a write; the push is at the wrong end.
OnPostEager ==
    /\ Handler("post")
    /\ write_queue' = Append(write_queue, Head(ready).frame)
    /\ StartWrite(write_queue')
    /\ UNCHANGED <<mainvars, readvars, transmitted, sendervars, signalled>>

OnPostFront ==
    /\ Handler("post")
    /\ write_queue' = <<Head(ready).frame>> \o write_queue
    /\ IF Len(write_queue') = 1 THEN StartWrite(write_queue')
                                ELSE in_flight' = in_flight
    /\ UNCHANGED <<mainvars, readvars, transmitted, sendervars, signalled>>

\* The closure posted by SerialPort::write.
OnPost ==
    /\ Handler("post")
    /\ write_queue' = Append(write_queue, Head(ready).frame)
    /\ IF Len(write_queue') = 1 THEN StartWrite(write_queue')
                                ELSE in_flight' = in_flight
    /\ UNCHANGED <<mainvars, readvars, transmitted, sendervars, signalled>>

\* Mutants: the next write is not started; the frame written is not popped.
OnWrittenIdle ==
    /\ Handler("written")
    /\ write_queue' = Tail(write_queue)
    /\ UNCHANGED <<mainvars, readvars, in_flight, transmitted, sendervars, signalled>>

OnWrittenUnpopped ==
    /\ Handler("written")
    /\ StartWrite(write_queue)
    /\ UNCHANGED <<mainvars, readvars, write_queue, transmitted, sendervars,
                   signalled>>

OnWritten ==
    /\ Handler("written")
    /\ write_queue' = Tail(write_queue)
    /\ StartWrite(write_queue')
    /\ UNCHANGED <<mainvars, readvars, transmitted, sendervars, signalled>>

\* data_ready_cb_ gets the data, and the next read starts.
OnRead ==
    /\ Handler("read")
    /\ reading' = TRUE /\ reads' = reads + 1
    /\ UNCHANGED <<mainvars, writevars, sendervars, signalled>>

\* Either operation failed: close() and throw.
OnError ==
    /\ Handler("error")
    /\ reading' = FALSE /\ in_flight' = << >>
    /\ io' = "throw"
    /\ UNCHANGED <<can_use_serial, g_serial, alive, stopped, reads, write_queue,
                   transmitted, sendervars, signalled>>

\* Mutant: the io_context is not stopped.
OnSignalFlagOnly ==
    /\ Handler("signal")
    /\ can_use_serial' = FALSE
    /\ UNCHANGED <<io, g_serial, alive, stopped, readvars, writevars, sendervars,
                   signalled>>

OnSignal ==
    /\ Handler("signal")
    /\ can_use_serial' = FALSE /\ stopped' = TRUE
    /\ UNCHANGED <<io, g_serial, alive, readvars, writevars, sendervars, signalled>>

----------------------------------------------------------------------------
\* The device and the user.

DeviceTakes == /\ in_flight # << >>
               /\ transmitted' = Append(transmitted, Head(in_flight))
               /\ in_flight' = Tail(in_flight)
               /\ ready' = Append(ready, Ev("written"))
               /\ UNCHANGED <<mainvars, readvars, write_queue, sendervars, signalled>>

DeviceRefuses == /\ in_flight # << >>
                 /\ in_flight' = Tail(in_flight)
                 /\ ready' = Append(ready, Ev("error"))
                 /\ UNCHANGED <<mainvars, readvars, write_queue, transmitted,
                                sendervars, signalled>>

DeviceSends == /\ reading /\ reads < ReadMax
               /\ reading' = FALSE
               /\ ready' = Append(ready, Ev("read"))
               /\ UNCHANGED <<mainvars, reads, writevars, sendervars, signalled>>

DeviceLeaves == /\ reading
                /\ reading' = FALSE
                /\ ready' = Append(ready, Ev("error"))
                /\ UNCHANGED <<mainvars, reads, writevars, sendervars, signalled>>

Signal == /\ io \notin {"start", "done", "exited"} /\ ~signalled
          /\ signalled' = TRUE
          /\ ready' = Append(ready, Ev("signal"))
          /\ UNCHANGED <<mainvars, readvars, writevars, sendervars>>

----------------------------------------------------------------------------
\* serial_try_send_data on another thread, while the process lives: it reads
\* the flag, then the pointer, then calls write through the pointer.

Goto(s, pc) == sender' = [sender EXCEPT ![s] = pc]

Returns(s) == /\ Goto(s, "idle")
              /\ sent' = [sent EXCEPT ![s] = @ + 1]

ReadFlag(s) ==
    /\ io # "exited" /\ sender[s] = "idle" /\ sent[s] < SendMax
    /\ IF can_use_serial THEN Goto(s, "flag") /\ UNCHANGED sent
                         ELSE Returns(s)
    /\ UNCHANGED <<mainvars, ready, readvars, writevars, submitted, signalled>>

ReadPointer(s) ==
    /\ io # "exited" /\ sender[s] = "flag"
    /\ IF g_serial THEN Goto(s, "write") /\ UNCHANGED sent
                   ELSE Returns(s)
    /\ UNCHANGED <<mainvars, ready, readvars, writevars, submitted, signalled>>

\* SerialPort::write posts a closure to the io_context.
Write(s) ==
    /\ io # "exited" /\ sender[s] = "write" /\ alive
    /\ ready' = Append(ready, Post(Frame(s)))
    /\ submitted' = Append(submitted, Frame(s))
    /\ Returns(s)
    /\ UNCHANGED <<mainvars, readvars, writevars, signalled>>

\* The pointer is read again, or still used, after it was cleared or its
\* object destroyed: undefined.  The frame vanishes, or the process dies.
WriteAstray(s) ==
    /\ io # "exited" /\ sender[s] = "write" /\ ~(alive /\ g_serial)
    /\ Returns(s)
    /\ io' \in {io, "exited"}
    /\ UNCHANGED <<can_use_serial, g_serial, alive, stopped, ready, readvars,
                   writevars, submitted, signalled>>

----------------------------------------------------------------------------
Main == Begin \/ OpenPort \/ OpenFails \/ Publish \/ RunReturns \/ ClearPointer
          \/ Destroy \/ Unwind \/ Exit
Handlers == OnPost \/ OnWritten \/ OnRead \/ OnError \/ OnSignal
Device == DeviceTakes \/ DeviceRefuses \/ DeviceSends \/ DeviceLeaves
Sending(s) == ReadFlag(s) \/ ReadPointer(s) \/ Write(s) \/ WriteAstray(s)

Next == Main \/ Handlers \/ Device \/ Signal \/ \E s \in Senders : Sending(s)

SafeSpec == Init /\ [][Next]_vars

\* The main thread runs, and a UART without flow control ends every write.
\* Nothing is assumed of the senders, of incoming data or of signals.
Spec == SafeSpec /\ WF_vars(Main \/ Handlers)
                 /\ WF_vars(DeviceTakes \/ DeviceRefuses)

----------------------------------------------------------------------------
AllFrames == Senders \X (0 .. (SendMax - 1))

Event == {Ev(op) : op \in {"written", "read", "error", "signal"}}
            \cup {Post(f) : f \in AllFrames}

\* Types; and the global pointer outlives its object only on the way to the
\* exit that follows an exception.
TypeOK ==
    /\ g_serial => alive \/ io \in {"catch", "exited"}
    /\ io \in {"start", "open", "publish", "run", "clear", "destroy", "done",
               "throw", "catch", "exited"}
    /\ can_use_serial \in BOOLEAN /\ g_serial \in BOOLEAN /\ alive \in BOOLEAN
    /\ stopped \in BOOLEAN /\ reading \in BOOLEAN /\ signalled \in BOOLEAN
    /\ ready \in Seq(Event)
    /\ reads \in 0 .. ReadMax
    /\ write_queue \in Seq(AllFrames) /\ in_flight \in Seq(AllFrames)
    /\ submitted \in Seq(AllFrames) /\ transmitted \in Seq(AllFrames)
    /\ sender \in [Senders -> {"idle", "flag", "write"}]
    /\ sent \in [Senders -> 0 .. SendMax]

Waiting(op) == \E k \in DOMAIN ready : ready[k].op = op

\* Two async_writes never overlap on the port, which asio forbids, and the
\* bytes of the one under way stay at the front of write_queue_ until its
\* completion is handled, although senders keep pushing behind them.
OneWriteInFlight ==
    /\ Len(in_flight) <= 1
    /\ in_flight # << >> => /\ write_queue # << >>
                            /\ in_flight[1] = Head(write_queue)
                            /\ ~Waiting("written")

\* Neither chain of handlers breaks, each of which starts its own successor:
\* while the port works a read is under way or its outcome about to be
\* handled, and while frames wait a write is.
ChainsUnbroken ==
    io = "run" =>
        /\ reading \/ Waiting("read") \/ Waiting("error")
        /\ write_queue # << >> =>
               in_flight # << >> \/ Waiting("written") \/ Waiting("error")

\* Frames that the handlers still to run will push.
Posted == LET posts == Selected(ready, {Post(f) : f \in AllFrames})
          IN  [k \in DOMAIN posts |-> posts[k].frame]
Unwritten == IF Waiting("written") THEN Tail(write_queue) ELSE write_queue

\* No frame is lost, repeated or overtaken between SerialPort::write, called
\* from any thread, and the device: what the device has not got is in the
\* queue or in a closure still to run, behind what it has got and in the
\* order posted, even when the port has failed or the program is stopped.
NothingLost == submitted = transmitted \o Unwritten \o Posted

\* A frame posted to the port goes out unless the program is stopped or the
\* port fails.
FramesGoOut ==
    \A f \in AllFrames :
        (\E k \in DOMAIN submitted : submitted[k] = f)
            ~> (\/ \E k \in DOMAIN transmitted : transmitted[k] = f
                \/ stopped \/ io \in {"throw", "catch", "exited"})

\* A signal ends main_common_init (or the process), whatever the senders and
\* the device are doing.
SignalStops == signalled ~> io \in {"done", "exited"}

\* serial_port.cpp: write may be called from several threads.  Then the port
\* must exist when a sender calls it.
WriteOnLivePort == \A s \in Senders : sender[s] = "write" => alive
============================================================================
