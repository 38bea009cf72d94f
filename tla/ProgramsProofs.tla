--------------------------- MODULE ProgramsProofs ---------------------------
(***************************************************************************)
(* Reader and writer: what holds for any kinds and numbers of messages and *)
(* of pieces of data.                                                      *)
(***************************************************************************)
EXTENDS Programs, SerialIoProofs

----------------------------------------------------------------------------
\* The inductive invariant of writer, on top of that of SerialIo.

\* Where main and the sending thread are.
ThreadInv ==
    /\ app \in {"reader", "writer"}
    /\ program \in {"init", "record", "serial", "returned"}
    /\ thread \in {"none", "sleep", "send", "raise", "ended"}
    /\ app = "reader" => thread = "none"
    /\ program \in {"init", "record"} => thread = "none" /\ io \in {"start", "exited"}
    /\ program = "returned" => io = "done" /\ thread \in {"none", "ended"}
    /\ program = "returned" /\ app = "writer" => thread = "ended"
    /\ thread = "none" => \A s \in Senders : sent[s] = 0
    /\ thread \in {"raise", "ended"} => \A s \in Senders : sent[s] = SendMax
    /\ \A s \in Senders : sender[s] # "idle" => thread = "send"

\* Nothing and nobody has interfered.
Fine == patient /\ ~disturbed /\ io \notin {"throw", "catch", "exited"}

\* The device has got everything, and nothing is on its way there.
Quiet == /\ transmitted = submitted
         /\ write_queue = << >> /\ in_flight = << >>
         /\ ~Waiting("post") /\ ~Waiting("written")

\* Then the thread itself is the only one that stops the loop; it sends while
\* the loop runs, so that no frame is dropped on the way to the port, and
\* has nothing under way any more when it raises the signal.
FineInv ==
    /\ signalled => thread = "ended"
    /\ stopped \/ Waiting("signal") => signalled
    /\ io \in {"clear", "destroy", "done"} => stopped
    /\ \/ thread \in {"send", "raise", "ended"}
       \/ \E s \in Senders : sent[s] # 0
       => io \notin {"start", "open", "publish"}
    /\ \A s \in Senders : submitted = [k \in 1 .. sent[s] |-> <<s, k - 1>>]
    /\ thread \in {"raise", "ended"} => Quiet

WriterInv == IInv /\ FlagInv /\ ThreadInv /\ (Fine => FineInv)

----------------------------------------------------------------------------
\* The steps of SerialIo, and what happens to them here.

\* A step of a tool is one of the port's owner, or ends the process.
LEMMA ToolStepKinds ==
    ASSUME [ToolNext]_allvars
    PROVE  [Next]_vars \/ Exits
<1>1. CASE UNCHANGED allvars
  BY <1>1 DEF allvars
<1>2. CASE StartServer \/ RecordStart \/ StartThread \/ Shutdown \/ Join
  BY <1>2 DEF StartServer, RecordStart, StartThread, Shutdown, Join, At
<1>3. CASE InMainCommon \/ \E chunk \in Chunks : OnData(chunk)
  BY <1>3 DEF InMainCommon, OnData, Next, Handlers
<1>4. CASE \E s \in Senders : Wake(s) \/ SendMsg(s)
  BY <1>4 DEF Wake, SendMsg, Next
<1>5. Signal \/ Kill => Next \/ Exits
  BY DEF Kill, Exits, Next
<1>6. CASE Raise \/ CtrlC
  BY <1>5, <1>6 DEF Raise, Interrupt, CtrlC
<1>7. CASE Device /\ UNCHANGED toolvars
  BY <1>7 DEF Next
<1> QED
  BY <1>1, <1>2, <1>3, <1>4, <1>6, <1>7 DEF ToolNext, MainThread, SendThread

\* So it keeps the invariant of SerialIo.
LEMMA PortKept ==
    ASSUME IInv, FlagInv, [ToolNext]_allvars
    PROVE  IInv' /\ FlagInv'
BY ToolStepKinds, IInvStep, ExitKeeps, FlagStep

\* There is one sender.
LEMMA OneSender ==
    ASSUME NEW s \in Senders
    PROVE  Senders = {s} /\ SendMax = 3
BY ThreadAssumption

\* What main and the sending thread do while the other waits.
LEMMA ThreadStep ==
    ASSUME TypeOK, ThreadInv, [ToolNext]_allvars
    PROVE  ThreadInv'
<1> USE DEF mainvars, sendervars, choices, sinks, toolvars
<1>1. CASE UNCHANGED allvars
  BY <1>1 DEF allvars, vars, ThreadInv
<1>2. CASE StartServer \/ RecordStart \/ StartThread \/ Shutdown \/ Join
  BY <1>2 DEF StartServer, RecordStart, StartThread, Shutdown, Join, At, vars, ThreadInv
<1>3. CASE InMainCommon
  BY <1>3 DEF InMainCommon, Main, Begin, OpenPort, OpenFails, Publish, RunReturns, ClearPointer,
              Destroy, Unwind, Exit, OnPost, OnWritten, OnRead, OnError, OnSignal, ThreadInv
<1>4. CASE \E chunk \in Chunks : OnData(chunk)
  BY <1>4 DEF OnData, OnRead, ThreadInv
<1>5. CASE \E s \in Senders : Wake(s)
  <2>1. PICK s \in Senders : Wake(s)
    BY <1>5
  <2>2. /\ Senders = {s} /\ sent[s] \in 0 .. SendMax /\ SendMax \in Nat
        /\ UNCHANGED <<io, sender, sent, app, program>>
        /\ thread = "sleep"
        /\ thread' = (IF sent[s] < SendMax THEN "send" ELSE "raise")
    BY <2>1, OneSender, BoundAssumption DEF Wake, vars, TypeOK
  <2>3. thread' = "raise" => sent'[s] = SendMax
    BY <2>2
  <2> QED
    BY <2>2, <2>3 DEF ThreadInv
<1>6. CASE \E s \in Senders : SendMsg(s)
  <2>1. PICK s \in Senders : SendMsg(s)
    BY <1>6
  <2>2. /\ Senders = {s} /\ thread = "send" /\ UNCHANGED <<app, program>>
        /\ thread' = (IF sender'[s] = "idle" THEN "sleep" ELSE "send")
        /\ io' \in {io, "exited"}
    BY <2>1, OneSender DEF SendMsg, Sending, ReadFlag, ReadPointer, Write, WriteAstray
  <2> QED
    BY <2>2 DEF ThreadInv
<1>7. CASE Raise \/ CtrlC
  <2>1. /\ UNCHANGED <<sender, sent>>
        /\ io' = io \/ (io \in {"start", "done"} /\ io' = "exited")
    BY <1>7 DEF Raise, CtrlC, Interrupt, Signal, Kill, vars
  <2>2. UNCHANGED <<app, program>> /\ (CtrlC => program # "returned" /\ thread' = thread)
    BY <1>7 DEF Raise, CtrlC
  <2>3. Raise => thread = "raise" /\ thread' = "ended"
    BY DEF Raise
  <2> QED
    BY <1>7, <2>1, <2>2, <2>3 DEF ThreadInv
<1>8. CASE Device /\ UNCHANGED toolvars
  BY <1>8 DEF Device, DeviceTakes, DeviceRefuses, DeviceSends, DeviceLeaves, ThreadInv
<1> QED
  BY <1>1, <1>2, <1>3, <1>4, <1>5, <1>6, <1>7, <1>8 DEF ToolNext, MainThread, SendThread

----------------------------------------------------------------------------
\* Nothing interferes.

\* What has been disturbed stays so.
LEMMA FineBefore ==
    ASSUME [ToolNext]_allvars, Fine'
    PROVE  Fine /\ ~CtrlC /\ UNCHANGED <<patient, disturbed>>
<1> USE DEF mainvars, choices, toolvars
<1>1. UNCHANGED <<patient, disturbed>> /\ ~CtrlC
  BY DEF Fine, ToolNext, MainThread, SendThread, StartServer, RecordStart, StartThread, Shutdown,
         Join, At, InMainCommon, OnData, Wake, SendMsg, Raise, CtrlC, allvars
<1>2. io' \notin {"throw", "catch", "exited"} => io \notin {"throw", "catch", "exited"}
  BY ToolStepKinds DEF Next, Main, Begin, OpenPort, OpenFails, Publish, RunReturns, ClearPointer,
     Destroy, Unwind, Exit, Handlers, Handler, OnPost, OnWritten, OnRead, OnError, OnSignal, Device,
     DeviceTakes, DeviceRefuses, DeviceSends, DeviceLeaves, Signal, Sending, ReadFlag, ReadPointer,
     Write, WriteAstray, Exits, vars
<1> QED
  BY <1>1, <1>2 DEF Fine

\* While the thread sends the loop runs and the port is open.
LEMMA PortIsOpen ==
    ASSUME WriterInv, Fine, thread \in {"sleep", "send"},
           io \notin {"start", "open", "publish"}
    PROVE  io = "run" /\ can_use_serial /\ g_serial /\ alive /\ ~stopped
<1>1. TypeOK /\ MainInv /\ FlagInv /\ FineInv
  BY DEF WriterInv, IInv
<1>2. ~stopped
  BY <1>1 DEF FineInv
<1>3. io = "run"
  BY <1>1, <1>2 DEF TypeOK, FineInv, Fine
<1> QED
  BY <1>1, <1>2, <1>3 DEF FlagInv, MainInv

\* Main takes the next step, runs a handler, or the thread is started or joined.
LEMMA MainKeepsFine ==
    ASSUME WriterInv, Fine, MainThread, Fine', FlagInv'
    PROVE  FineInv'
<1> USE DEF mainvars, writevars, sendervars, toolvars
<1>1. FineInv /\ TypeOK /\ ThreadInv
  BY DEF WriterInv, IInv
<1>2. CASE StartServer \/ RecordStart \/ StartThread \/ Shutdown \/ Join
  BY <1>1, <1>2 DEF StartServer, RecordStart, StartThread, Shutdown, Join, At, vars, FineInv,
                    Quiet, Waiting, ThreadInv
<1>3. CASE InMainCommon /\ Main
  <2>1. /\ UNCHANGED <<ready, stopped, signalled, sent, submitted, thread, transmitted, write_queue>>
        /\ in_flight' \in {in_flight, << >>}
        /\ io' \in {"start", "open", "publish"} => io \in {"start", "open", "publish"}
        /\ io' \in {"clear", "destroy", "done"} =>
               stopped \/ io \in {"clear", "destroy", "done"}
    BY <1>3 DEF InMainCommon, Main, Begin, OpenPort, OpenFails, Publish, RunReturns, ClearPointer,
                Destroy, Unwind, Exit
  <2> QED
    BY <1>1, <2>1 DEF FineInv, Quiet, Waiting
<1>4. CASE Handlers /\ thread' = thread
  <2>1. PICK op \in {"post", "written", "read", "error", "signal"} :
            /\ Handler(op)
            /\ UNCHANGED <<io, signalled, sent, submitted, transmitted>>
            /\ op \notin {"post", "written"} => UNCHANGED <<write_queue, in_flight>>
            /\ stopped' = (stopped \/ op = "signal")
    <3> DEFINE Goal(op) == /\ Handler(op)
                           /\ UNCHANGED <<io, signalled, sent, submitted, transmitted>>
                           /\ op \notin {"post", "written"} => UNCHANGED <<write_queue, in_flight>>
                           /\ stopped' = (stopped \/ op = "signal")
    <3>1. ~OnError
      BY DEF OnError, Fine
    <3>2. stopped \in BOOLEAN /\ stopped' \in BOOLEAN
      BY <1>1, <1>4 DEF TypeOK, Handlers, OnPost, OnWritten, OnRead, OnError, OnSignal
    <3>3. OnPost => Goal("post")
      BY <3>2 DEF OnPost
    <3>4. OnWritten => Goal("written")
      BY <3>2 DEF OnWritten
    <3>5. OnRead => Goal("read")
      BY <3>2 DEF OnRead
    <3>6. OnSignal => Goal("signal")
      BY <3>2 DEF OnSignal
    <3> QED
      BY <1>4, <3>1, <3>3, <3>4, <3>5, <3>6 DEF Handlers
  <2>2. Waiting(op) /\ \A other : other # op => (Waiting(other)' <=> Waiting(other))
    BY <1>1, <2>1, ReadyTaken DEF TypeOK
  <2>3. stopped' \/ Waiting("signal")' => signalled
    BY <1>1, <2>1, <2>2 DEF FineInv
  <2>4. thread' \in {"raise", "ended"} => Quiet'
    <3> SUFFICES ASSUME thread' \in {"raise", "ended"} PROVE Quiet'
      OBVIOUS
    <3>1. Quiet
      BY <1>1, <1>4 DEF FineInv
    <3>2. op \notin {"post", "written"}
      BY <2>2, <3>1 DEF Quiet
    <3> QED
      BY <2>1, <2>2, <3>1, <3>2 DEF Quiet
  <2> QED
    BY <1>1, <1>4, <2>1, <2>3, <2>4 DEF FineInv
<1>5. CASE \E chunk \in Chunks : OnData(chunk)
  <2>1. Handlers /\ thread' = thread
    BY <1>5 DEF OnData, Handlers
  <2> QED
    BY <1>4, <2>1
<1>6. CASE InMainCommon /\ ~Main
  <2>1. Handlers /\ thread' = thread
    BY <1>6 DEF InMainCommon, Handlers
  <2> QED
    BY <1>4, <2>1
<1> QED
  BY <1>2, <1>3, <1>5, <1>6 DEF MainThread

\* The thread wakes up when nothing is under way.
LEMMA WakeKeepsFine ==
    ASSUME WriterInv, Fine, NEW s \in Senders, Wake(s)
    PROVE  FineInv'
<1>1. /\ FineInv /\ TypeOK /\ WriteInv /\ ChainInv /\ NothingLost /\ ThreadInv
      /\ Senders = {s} /\ patient
  BY OneSender DEF WriterInv, IInv, Fine
<1>2. UNCHANGED vars /\ thread = "sleep" /\ thread' \in {"send", "raise"} /\ AtRest
  BY <1>1 DEF Wake
<1>3. io # "done"
  BY <1>1, <1>2 DEF FineInv
<1>4. io = "run" /\ ready = << >> /\ in_flight = << >>
  BY <1>2, <1>3 DEF AtRest
<1>5. \A op : ~Waiting(op)
  BY <1>4 DEF Waiting
<1>6. write_queue = << >>
  BY <1>4, <1>5 DEF ChainInv, WriterInv, IInv
<1>7. transmitted = submitted
  <2>1. Unwritten = << >>
    BY <1>5, <1>6 DEF Unwritten
  <2>2. Posted = << >>
    BY <1>4, PostedIs, SelectedEmpty DEF FramesOf
  <2>3. transmitted \in Seq(AllFrames)
    BY <1>1 DEF TypeOK
  <2>4. (transmitted \o << >>) \o << >> = transmitted
    BY <2>3
  <2> QED
    BY <1>1, <2>1, <2>2, <2>4 DEF NothingLost
<1>8. Quiet
  BY <1>4, <1>5, <1>6, <1>7 DEF Quiet
<1> QED
  BY <1>1, <1>2, <1>4, <1>8
     DEF FineInv, Quiet, Waiting, vars, mainvars, writevars, sendervars

\* It sends: the flag and the pointer are set, and the frame gets to the port.
LEMMA SendKeepsFine ==
    ASSUME WriterInv, Fine, NEW s \in Senders, SendMsg(s)
    PROVE  FineInv'
<1> USE DEF mainvars, writevars, sendervars
<1>1. /\ FineInv /\ TypeOK /\ SenderInv /\ ThreadInv /\ Senders = {s}
      /\ sent[s] \in Nat /\ sent \in [Senders -> 0 .. SendMax] /\ ready \in Seq(Event)
  BY OneSender, BoundAssumption DEF WriterInv, IInv, TypeOK
<1>2. thread = "send" /\ thread' \in {"sleep", "send"} /\ Sending(s)
  BY DEF SendMsg
<1>3. io = "run" /\ can_use_serial /\ g_serial /\ alive /\ ~stopped
  BY <1>1, <1>2, PortIsOpen DEF FineInv
<1>4. CASE ReadFlag(s) \/ ReadPointer(s)
  <2>1. UNCHANGED <<mainvars, ready, signalled, sent, submitted>>
    BY <1>3, <1>4 DEF ReadFlag, ReadPointer
  <2> QED
    BY <1>1, <1>2, <1>3, <2>1 DEF FineInv, Waiting
<1>5. CASE Write(s)
  <2>1. /\ UNCHANGED <<mainvars, signalled>> /\ ready' = Append(ready, Post(Frame(s)))
        /\ submitted' = Append(submitted, <<s, sent[s]>>)
        /\ sent' = [sent EXCEPT ![s] = @ + 1]
    BY <1>5 DEF Write, Returns, Frame
  <2>2. Post(Frame(s)) \in Event /\ Post(Frame(s)).op = "post"
    <3>1. Frame(s) \in AllFrames
      BY <1>1, <1>5, FrameType DEF Write
    <3> QED
      BY <3>1, EventOps
  <2>3. Waiting("signal")' => Waiting("signal")
    BY <1>1, <2>1, <2>2, ReadyAdded
  <2>4. submitted' = [k \in 1 .. sent'[s] |-> <<s, k - 1>>]
    <3> DEFINE n == sent[s]
               old == [k \in 1 .. n |-> <<s, k - 1>>]
    <3>1. submitted = old /\ n \in Nat /\ sent'[s] = n + 1
      BY <1>1, <2>1 DEF FineInv
    <3>2. submitted' = Append(old, <<s, n>>)
      BY <2>1, <3>1
    <3> HIDE DEF n
    <3>3. Append(old, <<s, n>>) = [k \in 1 .. n + 1 |-> <<s, k - 1>>]
      BY <3>1
    <3> QED
      BY <3>1, <3>2, <3>3
  <2> QED
    BY <1>1, <1>2, <1>3, <2>1, <2>3, <2>4 DEF FineInv
<1>6. ~WriteAstray(s)
  BY <1>3 DEF WriteAstray
<1> QED
  BY <1>2, <1>4, <1>5, <1>6 DEF Sending

\* The signal that it raises finds nothing under way.
LEMMA RaiseKeepsFine ==
    ASSUME WriterInv, Fine, Raise, Fine'
    PROVE  FineInv'
<1> USE DEF mainvars, writevars, sendervars
<1>1. FineInv /\ TypeOK /\ ThreadInv /\ Quiet
  BY DEF WriterInv, IInv, FineInv, Raise
<1>2. thread' = "ended" /\ UNCHANGED <<io, stopped, submitted, sent>>
  BY DEF Raise, Interrupt, Signal, Kill, vars, Fine
<1>3. CASE Signal
  <2>1. /\ signalled' = TRUE /\ ready' = Append(ready, Ev("signal"))
        /\ UNCHANGED <<mainvars, writevars>>
    BY <1>3 DEF Signal
  <2>2. /\ Waiting("post")' <=> Waiting("post")
        /\ Waiting("written")' <=> Waiting("written")
    BY <1>1, <2>1, ReadyAdded, EventOps DEF TypeOK
  <2>3. Quiet'
    BY <1>1, <1>2, <2>1, <2>2 DEF Quiet
  <2> QED
    BY <1>1, <1>2, <2>1, <2>3 DEF FineInv, Raise
<1>4. CASE signalled /\ UNCHANGED vars
  BY <1>1, <1>2, <1>4 DEF FineInv, Quiet, Waiting, vars, Raise
<1>5. ~Kill
  BY DEF Kill, Fine
<1> QED
  BY <1>3, <1>4, <1>5 DEF Raise, Interrupt

\* Whatever the device does concerns the frames under way.
LEMMA DeviceKeepsFine ==
    ASSUME WriterInv, Fine, Device, UNCHANGED toolvars
    PROVE  FineInv'
<1> USE DEF mainvars, writevars, sendervars, toolvars
<1>1. FineInv /\ TypeOK
  BY DEF WriterInv, IInv
<1>2. UNCHANGED <<io, stopped, signalled, sent, submitted, thread>>
  BY DEF Device, DeviceTakes, DeviceRefuses, DeviceSends, DeviceLeaves
<1>3. PICK op \in {"written", "error", "read"} :
           /\ ready' = Append(ready, Ev(op))
           /\ op = "written" => in_flight # << >>
           /\ in_flight = << >> => UNCHANGED writevars
  BY DEF Device, DeviceTakes, DeviceRefuses, DeviceSends, DeviceLeaves
<1>4. \A other : Waiting(other)' <=> Waiting(other) \/ op = other
  BY <1>1, <1>3, ReadyAdded, EventOps DEF TypeOK
<1>5. thread \in {"raise", "ended"} => Quiet'
  BY <1>1, <1>2, <1>3, <1>4 DEF FineInv, Quiet
<1> QED
  BY <1>1, <1>2, <1>4, <1>5 DEF FineInv

----------------------------------------------------------------------------
\* The invariant holds at the start ...
LEMMA WriterInvInit == ToolInit => WriterInv
<1> SUFFICES ASSUME ToolInit PROVE WriterInv
  OBVIOUS
<1>1. IInv
  BY IInvInit DEF ToolInit
<1>2. FlagInv /\ ThreadInv
  BY BoundAssumption DEF ToolInit, Init, FlagInv, ThreadInv
<1>3. \A s \in Senders : submitted = [k \in 1 .. sent[s] |-> <<s, k - 1>>]
  BY DEF ToolInit, Init
<1>4. FineInv
  BY <1>3 DEF ToolInit, Init, FineInv, Waiting
<1> QED
  BY <1>1, <1>2, <1>4 DEF WriterInv

\* ... and every step keeps it.
LEMMA WriterInvStep == WriterInv /\ [ToolNext]_allvars => WriterInv'
<1> SUFFICES ASSUME WriterInv, [ToolNext]_allvars PROVE WriterInv'
  OBVIOUS
<1>1. IInv' /\ FlagInv' /\ ThreadInv'
  BY PortKept, ThreadStep DEF WriterInv, IInv
<1>2. ASSUME Fine' PROVE FineInv'
  <2>1. Fine /\ ~CtrlC
    BY <1>2, FineBefore
  <2>2. CASE UNCHANGED allvars
    BY <2>1, <2>2 DEF WriterInv, FineInv, Quiet, Waiting, allvars, vars, toolvars, mainvars,
                      writevars, sendervars
  <2>3. CASE MainThread
    BY <1>1, <1>2, <2>1, <2>3, MainKeepsFine
  <2>4. CASE SendThread
    BY <1>2, <2>1, <2>4, WakeKeepsFine, SendKeepsFine, RaiseKeepsFine DEF SendThread
  <2>5. CASE Device /\ UNCHANGED toolvars
    BY <2>1, <2>5, DeviceKeepsFine
  <2> QED
    BY <2>1, <2>2, <2>3, <2>4, <2>5 DEF ToolNext
<1> QED
  BY <1>1, <1>2 DEF WriterInv

\* The inductive invariant of writer holds throughout.
THEOREM WriterInvariance == ToolSafeSpec => []WriterInv
BY WriterInvInit, WriterInvStep, PTL DEF ToolSafeSpec

\* A writer that sleeps long enough, and that nobody and nothing interrupts, has
\* sent its three messages in order when main returns: neither an early call
\* nor the signal that it raises itself costs one.
THEOREM WriterSendsAll == ToolSafeSpec => []AllThreeSent
<1>1. WriterInv => AllThreeSent
  <2> SUFFICES ASSUME WriterInv, app = "writer", program = "returned", patient, ~disturbed
               PROVE  \E s \in Senders : transmitted = [k \in 1 .. SendMax |-> <<s, k - 1>>]
    BY DEF AllThreeSent
  <2>1. io = "done" /\ thread = "ended"
    BY DEF WriterInv, ThreadInv
  <2>2. FineInv
    BY <2>1 DEF WriterInv, Fine
  <2>3. PICK s \in Senders : Senders = {s}
    BY ThreadAssumption
  <2>4. sent[s] = SendMax
    BY <2>1, <2>3 DEF WriterInv, ThreadInv
  <2>5. transmitted = submitted /\ submitted = [k \in 1 .. sent[s] |-> <<s, k - 1>>]
    BY <2>1, <2>2, <2>3 DEF FineInv, Quiet
  <2> QED
    BY <2>3, <2>4, <2>5
<1> QED
  BY <1>1, WriterInvariance, PTL
----------------------------------------------------------------------------
\* What reader logs, shows and records.

\* What adds one sequence after the other ends with their concatenation, ...
LEMMA FlattenIs ==
    ASSUME NEW A, NEW ss \in Seq(Seq(A)), NEW g \in [0 .. Len(ss) -> Seq(A)],
           g[0] = << >>, \A k \in 1 .. Len(ss) : g[k] = g[k - 1] \o ss[k]
    PROVE  SX!FlattenSeq(ss) = g[Len(ss)]
<1>1. CASE Len(ss) = 0
  <2>1. ss = << >>
    BY <1>1
  <2> QED
    BY <1>1, <2>1 DEF SX!FlattenSeq
<1>2. CASE Len(ss) # 0
  <2> DEFINE Eq(h) == h = [i \in 1 .. Len(ss) |-> IF i = 1 THEN ss[i] ELSE h[i - 1] \o ss[i]]
             h0 == [i \in 1 .. Len(ss) |-> g[i]]
             f == CHOOSE h : Eq(h)
  <2>1. Len(ss) \in Nat /\ \A k \in 1 .. Len(ss) : ss[k] \in Seq(A)
    OBVIOUS
  <2>2. g[1] = ss[1]
    <3>1. 1 \in 1 .. Len(ss) /\ 1 - 1 = 0
      BY <1>2, <2>1
    <3>2. g[1] = << >> \o ss[1] /\ ss[1] \in Seq(A)
      BY <2>1, <3>1
    <3> QED
      BY <3>2, ConcatEmptySeq
  <2>3. Eq(h0)
    <3>1. ASSUME NEW i \in 1 .. Len(ss)
          PROVE  h0[i] = IF i = 1 THEN ss[i] ELSE h0[i - 1] \o ss[i]
      <4>1. CASE i = 1
        BY <2>2, <4>1
      <4>2. CASE i # 1
        <5>1. i - 1 \in 1 .. Len(ss)
          BY <4>2
        <5> QED
          BY <4>2, <5>1
      <4> QED
        BY <4>1, <4>2
    <3> QED
      BY <3>1
  <2>4. Eq(f)
    <3> HIDE DEF Eq, h0
    <3> QED BY <2>3
  <2>5. SX!FlattenSeq(ss) = f[Len(ss)]
    BY <1>2 DEF SX!FlattenSeq
  <2> HIDE DEF f
  <2> DEFINE T == {n \in 0 .. Len(ss) : n = 0 \/ f[n] = g[n]}
  <2>6. 0 \in T
    BY <2>1
  <2>7. ASSUME NEW n \in 0 .. (Len(ss) - 1), n \in T PROVE n + 1 \in T
    <3>1. n + 1 \in 1 .. Len(ss)
      BY <2>1
    <3>2. f[n + 1] = IF n + 1 = 1 THEN ss[n + 1] ELSE f[(n + 1) - 1] \o ss[n + 1]
      BY <2>4, <3>1
    <3>3. g[n + 1] = g[n] \o ss[n + 1]
      <4>1. (n + 1) - 1 = n
        OBVIOUS
      <4>2. g[n + 1] = g[(n + 1) - 1] \o ss[n + 1]
        BY <3>1
      <4> QED
        BY <4>1, <4>2
    <3>4. n = 0 => f[n + 1] = g[n + 1]
      BY <2>2, <3>2
    <3>5. n # 0 => f[n + 1] = g[n + 1]
      <4>1. n # 0 => n + 1 # 1 /\ (n + 1) - 1 = n /\ f[n] = g[n]
        BY <2>7
      <4> QED
        BY <3>2, <3>3, <4>1
    <3> QED
      BY <3>1, <3>4, <3>5
  <2>8. \A n \in 0 .. Len(ss) : n \in T
    <3> HIDE DEF T
    <3> QED BY <2>1, <2>6, <2>7, Induction
  <2>9. f[Len(ss)] = g[Len(ss)]
    BY <1>2, <2>1, <2>8
  <2> QED
    BY <2>5, <2>9
<1> QED
  BY <1>1, <1>2

\* ... so that a further sequence comes behind the others.
LEMMA FlattenAppend ==
    ASSUME NEW A, NEW ss \in Seq(Seq(A)), NEW s \in Seq(A)
    PROVE  /\ SX!FlattenSeq(ss) \in Seq(A)
           /\ SX!FlattenSeq(Append(ss, s)) = SX!FlattenSeq(ss) \o s
<1> DEFINE tt == Append(ss, s)
           V == Seq(A)
           F == [k \in 1 .. Len(tt) |-> [v \in V |-> v \o tt[k]]]
<1>1. /\ Len(ss) \in Nat /\ Len(tt) = Len(ss) + 1 /\ tt \in Seq(V)
      /\ tt[Len(tt)] = s /\ \A k \in 1 .. Len(ss) : tt[k] = ss[k]
  OBVIOUS
<1> HIDE DEF tt
<1>2. \A k \in 1 .. Len(tt) : tt[k] \in Seq(A)
  BY <1>1
<1>3. F \in [1 .. Len(tt) -> [V -> V]] /\ Len(tt) \in Nat /\ << >> \in V
  BY <1>1, <1>2
<1>4. PICK g \in [0 .. Len(tt) -> V] :
          g[0] = << >> /\ \A k \in 1 .. Len(tt) : g[k] = F[k][g[k - 1]]
  <2> DEFINE N == Len(tt)
             base == << >>
  <2>1. F \in [1 .. N -> [V -> V]] /\ N \in Nat /\ base \in V
    BY <1>3
  <2> HIDE DEF F, V, N, base
  <2>2. PICK g : g \in Solutions(N, V, base, F)
    BY <2>1, RecursionExists
  <2> QED
    BY <2>2 DEF Solutions, N, base
<1>5. \A k \in 1 .. Len(tt) : g[k] = g[k - 1] \o tt[k]
  <2> TAKE k \in 1 .. Len(tt)
  <2>1. k - 1 \in 0 .. Len(tt)
    BY <1>3
  <2>2. g[k - 1] \in V
    BY <1>4, <2>1
  <2> QED
    BY <1>4, <2>2
<1> HIDE DEF F
<1>6. SX!FlattenSeq(tt) = g[Len(tt)]
  BY <1>1, <1>4, <1>5, FlattenIs
<1>7. SX!FlattenSeq(ss) = g[Len(ss)]
  <2> DEFINE h == [k \in 0 .. Len(ss) |-> g[k]]
  <2>1. h \in [0 .. Len(ss) -> Seq(A)] /\ h[0] = << >> /\ h[Len(ss)] = g[Len(ss)]
    BY <1>1, <1>4
  <2>2. \A k \in 1 .. Len(ss) : h[k] = h[k - 1] \o ss[k]
    <3> TAKE k \in 1 .. Len(ss)
    <3>1. k \in 1 .. Len(tt) /\ k - 1 \in 0 .. Len(ss) /\ k \in 0 .. Len(ss)
      BY <1>1
    <3>2. g[k] = g[k - 1] \o ss[k]
      BY <1>1, <1>5, <3>1
    <3> QED
      BY <3>1, <3>2
  <2> HIDE DEF h
  <2> QED
    BY <2>1, <2>2, FlattenIs
<1>8. g[Len(ss)] \in Seq(A) /\ g[Len(tt)] = g[Len(ss)] \o s
  <2>1. Len(tt) \in 1 .. Len(tt) /\ Len(tt) - 1 = Len(ss) /\ Len(ss) \in 0 .. Len(tt)
    BY <1>1
  <2>2. g[Len(tt)] = g[Len(tt) - 1] \o tt[Len(tt)]
    BY <1>5, <2>1
  <2> QED
    BY <1>1, <1>4, <2>1, <2>2
<1> QED
  BY <1>6, <1>7, <1>8 DEF tt

\* What a message is logged on are channels.
LEMMA LogType ==
    ASSUME NEW kind
    PROVE  Log(kind) \in Seq(Channels)
<1>1. Outputs(kind) \in Seq(Channels)
  <2>1. <<"/tf", "/result_pose", "/result_scene", "/result">> \in Seq(Channels)
    BY DEF Channels
  <2>2. <<"/spherical_result">> \in Seq(Channels)
    BY DEF Channels
  <2>3. <<"/dis">> \in Seq(Channels)
    BY DEF Channels
  <2>4. << >> \in Seq(Channels)
    OBVIOUS
  <2>5. \/ Outputs(kind) = <<"/tf", "/result_pose", "/result_scene", "/result">>
        \/ Outputs(kind) = <<"/spherical_result">>
        \/ Outputs(kind) = <<"/dis">>
        \/ Outputs(kind) = << >>
    BY DEF Outputs
  <2> QED
    BY <2>1, <2>2, <2>3, <2>4, <2>5
<1>2. Log(kind) \in Seq(Channels \cap Existing)
  BY <1>1, SelectedType DEF Log
<1> QED
  BY <1>2, SeqMonotonic

\* A message more to publish.
LEMMA PublishedAppend ==
    ASSUME NEW messages \in Seq(Kinds), NEW kind \in Kinds
    PROVE  /\ Published(messages) \in Seq(Channels)
           /\ Published(Append(messages, kind)) = Published(messages) \o Log(kind)
<1> DEFINE old == [k \in DOMAIN messages |-> Log(messages[k])]
           more == Append(messages, kind)
           new == [k \in DOMAIN more |-> Log(more[k])]
<1>1. /\ more \in Seq(Kinds) /\ Len(more) = Len(messages) + 1 /\ more[Len(more)] = kind
      /\ \A k \in 1 .. Len(messages) : more[k] = messages[k]
      /\ DOMAIN messages = 1 .. Len(messages) /\ DOMAIN more = 1 .. Len(more)
      /\ Len(messages) \in Nat
  OBVIOUS
<1> HIDE DEF more
<1>2. old \in Seq(Seq(Channels)) /\ Len(old) = Len(messages)
  BY <1>1, LogType
<1>3. new \in Seq(Seq(Channels)) /\ Len(new) = Len(messages) + 1
  BY <1>1, LogType
<1>4. Log(kind) \in Seq(Channels)
  BY LogType
<1>5. new = Append(old, Log(kind))
  <2> DEFINE last == Log(kind)
  <2>1. \A k \in 1 .. Len(old) : new[k] = old[k]
    BY <1>1
  <2>2. new[Len(old) + 1] = last /\ last \in Seq(Channels)
    BY <1>1, <1>4
  <2> HIDE DEF old, new, last
  <2>3. new = Append(old, last)
    BY <1>2, <1>3, <2>1, <2>2, AppendIs
  <2> QED
    BY <2>3 DEF last
<1>6. Published(messages) = SX!FlattenSeq(old) /\ Published(more) = SX!FlattenSeq(new)
  BY DEF Published
<1> HIDE DEF old, new
<1>7. /\ SX!FlattenSeq(old) \in Seq(Channels)
      /\ SX!FlattenSeq(Append(old, Log(kind))) = SX!FlattenSeq(old) \o Log(kind)
  BY <1>2, <1>4, FlattenAppend
<1> QED
  BY <1>5, <1>6, <1>7 DEF more

\* Nothing to publish, ...
LEMMA PublishedNothing == Published(<< >>) = << >> /\ SX!FlattenSeq(<< >>) = << >>
<1>1. SX!FlattenSeq(<< >>) = << >>
  BY EmptySeq DEF SX!FlattenSeq
<1>2. [k \in DOMAIN << >> |-> Log(<< >>[k])] = << >>
  OBVIOUS
<1> QED
  BY <1>1, <1>2 DEF Published

----------------------------------------------------------------------------
\* The lines that the messages of the n-th frame make in the log.
Tagged(n, frame) == [k \in DOMAIN frame |-> <<n, frame[k]>>]

\* They are lines, one for each message.
LEMMA TaggedType ==
    ASSUME NEW n \in Nat, NEW frame \in Seq(Kinds)
    PROVE  Tagged(n, frame) \in Seq(Nat \X Kinds) /\ Len(Tagged(n, frame)) = Len(frame)
<1>1. DOMAIN frame = 1 .. Len(frame) /\ Len(frame) \in Nat
  OBVIOUS
<1>2. \A k \in 1 .. Len(frame) : <<n, frame[k]>> \in Nat \X Kinds
  OBVIOUS
<1> QED
  BY <1>1, <1>2 DEF Tagged

\* A message more in the frame.
LEMMA TaggedAppend ==
    ASSUME NEW n \in Nat, NEW frame \in Seq(Kinds), NEW kind \in Kinds
    PROVE  Tagged(n, Append(frame, kind)) = Append(Tagged(n, frame), <<n, kind>>)
<1> DEFINE more == Append(frame, kind)
           old == Tagged(n, frame)
           new == Tagged(n, more)
           last == <<n, kind>>
<1>1. /\ more \in Seq(Kinds) /\ Len(more) = Len(frame) + 1 /\ more[Len(more)] = kind
      /\ \A k \in 1 .. Len(frame) : more[k] = frame[k]
      /\ DOMAIN frame = 1 .. Len(frame) /\ DOMAIN more = 1 .. Len(more)
      /\ Len(frame) \in Nat
  OBVIOUS
<1> HIDE DEF more
<1>2. /\ old \in Seq(Nat \X Kinds) /\ Len(old) = Len(frame)
      /\ new \in Seq(Nat \X Kinds) /\ Len(new) = Len(frame) + 1
  BY <1>1, TaggedType
<1>3. \A k \in 1 .. Len(frame) : new[k] = old[k]
  BY <1>1 DEF Tagged
<1>4. new[Len(frame) + 1] = last
  BY <1>1 DEF Tagged
<1>5. last \in Nat \X Kinds
  OBVIOUS
<1> HIDE DEF old, new, last
<1>6. new = Append(old, last)
  BY <1>2, <1>3, <1>4, <1>5, AppendIs
<1> QED
  BY <1>6 DEF old, new, last, more

\* A frame more to log.
LEMMA LoggedAppend ==
    ASSUME NEW frames \in Seq(Seq(Kinds)), NEW frame \in Seq(Kinds)
    PROVE  /\ Logged(frames) \in Seq(Nat \X Kinds)
           /\ Logged(Append(frames, frame)) = Logged(frames) \o Tagged(Len(frames) + 1, frame)
<1> DEFINE old == [n \in DOMAIN frames |-> Tagged(n, frames[n])]
           more == Append(frames, frame)
           new == [n \in DOMAIN more |-> Tagged(n, more[n])]
           last == Tagged(Len(frames) + 1, frame)
           V == Seq(Nat \X Kinds)
<1>1. /\ more \in Seq(Seq(Kinds)) /\ Len(more) = Len(frames) + 1 /\ more[Len(more)] = frame
      /\ \A k \in 1 .. Len(frames) : more[k] = frames[k]
      /\ DOMAIN frames = 1 .. Len(frames) /\ DOMAIN more = 1 .. Len(more)
      /\ Len(frames) \in Nat
  OBVIOUS
<1> HIDE DEF more
<1>2. \A n \in 1 .. Len(frames) : Tagged(n, frames[n]) \in V
  BY <1>1, TaggedType
<1>3. \A n \in 1 .. Len(more) : Tagged(n, more[n]) \in V
  <2>1. \A n \in 1 .. Len(more) : n \in Nat /\ more[n] \in Seq(Kinds)
    BY <1>1
  <2> QED
    BY <2>1, TaggedType
<1>4. last \in V
  BY <1>1, TaggedType
<1>5. old \in Seq(V) /\ Len(old) = Len(frames) /\ new \in Seq(V) /\ Len(new) = Len(frames) + 1
  <2> HIDE DEF V
  <2> QED BY <1>1, <1>2, <1>3
<1>6. \A n \in 1 .. Len(frames) : new[n] = old[n]
  BY <1>1
<1>7. new[Len(frames) + 1] = last
  BY <1>1
<1>8. Logged(frames) = SX!FlattenSeq(old) /\ Logged(more) = SX!FlattenSeq(new)
  BY DEF Logged, Tagged
<1> HIDE DEF old, new, last
<1>10. new = Append(old, last)
  <2> HIDE DEF V
  <2> QED BY <1>4, <1>5, <1>6, <1>7, AppendIs
<1>11. /\ SX!FlattenSeq(old) \in V
       /\ SX!FlattenSeq(Append(old, last)) = SX!FlattenSeq(old) \o last
  BY <1>4, <1>5, FlattenAppend
<1> QED
  BY <1>8, <1>10, <1>11 DEF last, more

\* Nothing to log.
LEMMA LoggedNothing == Logged(<< >>) = << >>
<1>1. [n \in DOMAIN << >> |-> [k \in DOMAIN << >>[n] |-> <<n, << >>[n][k]>>]] = << >>
  OBVIOUS
<1> QED
  BY <1>1, PublishedNothing DEF Logged
----------------------------------------------------------------------------
\* The parser's callbacks.

OutState == [s_header : Nat, logged : Seq(Nat \X Kinds),
             shown : Seq(Channels), recorded : Seq(Channels)]

\* The log is these lines, and server and recording have got what there is to
\* publish of these messages.
Agrees(st, lines, messages) ==
    /\ st.logged = lines
    /\ s_server = "up" => st.shown = Published(messages)
    /\ s_writer = "open" => st.recorded = Published(messages)

\* A message makes one line more, and goes to server and recording.
LEMMA MessageDone ==
    ASSUME NEW st \in OutState, NEW kind \in Kinds
    PROVE  /\ OnFrameMsg(st, kind) \in OutState
           /\ OnFrameMsg(st, kind).s_header = st.s_header
           /\ OnFrameMsg(st, kind).logged = Append(st.logged, <<st.s_header, kind>>)
           /\ OnFrameMsg(st, kind).shown =
                  IF s_server = "up" THEN st.shown \o Log(kind) ELSE st.shown
           /\ OnFrameMsg(st, kind).recorded =
                  IF s_writer = "open" THEN st.recorded \o Log(kind) ELSE st.recorded
<1> DEFINE log == Log(kind)
           line == <<st.s_header, kind>>
<1>1. log \in Seq(Channels)
  BY LogType
<1>2. line \in Nat \X Kinds
  BY DEF OutState
<1> HIDE DEF log, line
<1>3. /\ Append(st.logged, line) \in Seq(Nat \X Kinds)
      /\ st.shown \o log \in Seq(Channels) /\ st.recorded \o log \in Seq(Channels)
  BY <1>1, <1>2 DEF OutState
<1> DEFINE now == Append(st.logged, line)
           mid == [st EXCEPT !.logged = now]
           shown1 == IF s_server = "up" THEN st.shown \o log ELSE st.shown
           recorded1 == IF s_writer = "open" THEN st.recorded \o log ELSE st.recorded
<1>4. OnFrameMsg(st, kind) = PublishTo(mid, kind)
  BY DEF OnFrameMsg, line
<1> HIDE DEF now
<1>5. /\ mid \in OutState /\ mid.s_header = st.s_header /\ mid.logged = now
      /\ mid.shown = st.shown /\ mid.recorded = st.recorded
  BY <1>3 DEF OutState, now
<1> HIDE DEF mid
<1>6. PublishTo(mid, kind) = [mid EXCEPT !.shown = shown1, !.recorded = recorded1]
  BY <1>5 DEF PublishTo, log
<1>7. shown1 \in Seq(Channels) /\ recorded1 \in Seq(Channels)
  BY <1>3 DEF OutState
<1> HIDE DEF shown1, recorded1
<1> DEFINE new == [mid EXCEPT !.shown = shown1, !.recorded = recorded1]
<1>8. /\ new \in OutState /\ new.s_header = mid.s_header /\ new.logged = mid.logged
      /\ new.shown = shown1 /\ new.recorded = recorded1
  BY <1>5, <1>7 DEF OutState
<1> HIDE DEF new
<1>9. OnFrameMsg(st, kind) = new
  BY <1>4, <1>6 DEF new
<1> QED
  BY <1>5, <1>8, <1>9 DEF now, line, shown1, recorded1, log

\* OnFrame is what its recursion says.
LEMMA OnFrameStep ==
    ASSUME NEW st \in OutState, NEW n \in Nat, NEW frame \in Seq(Kinds)
    PROVE  /\ OnFrame(st, n, frame)[0] = OnFrameBegin(st, n)
           /\ \A k \in 1 .. Len(frame) :
                  OnFrame(st, n, frame)[k] = OnFrameMsg(OnFrame(st, n, frame)[k - 1], frame[k])
<1> DEFINE N == Len(frame)
           base == OnFrameBegin(st, n)
           F == [k \in 1 .. N |-> [v \in OutState |-> OnFrameMsg(v, frame[k])]]
           Eq(g) == g = [k \in 0 .. N |-> IF k = 0 THEN OnFrameBegin(st, n)
                                         ELSE OnFrameMsg(g[k - 1], frame[k])]
           f == OnFrame(st, n, frame)
<1>1. N \in Nat /\ \A k \in 1 .. N : frame[k] \in Kinds
  OBVIOUS
<1>2. base \in OutState
  BY DEF OnFrameBegin, OutState
<1>3. F \in [1 .. N -> [OutState -> OutState]]
  BY <1>1, MessageDone
<1>4. PICK g : g \in Solutions(N, OutState, base, F)
  <2> HIDE DEF F, base, N
  <2> QED BY <1>1, <1>2, <1>3, RecursionExists
<1>5. Eq(g)
  <2>1. /\ g \in [0 .. N -> OutState] /\ g[0] = base
        /\ \A k \in 1 .. N : g[k] = F[k][g[k - 1]]
    BY <1>4 DEF Solutions
  <2>2. ASSUME NEW k \in 1 .. N PROVE g[k] = OnFrameMsg(g[k - 1], frame[k])
    <3>1. k - 1 \in 0 .. N
      BY <1>1
    <3>2. g[k - 1] \in OutState
      BY <2>1, <3>1
    <3> QED
      BY <2>1, <3>2
  <2> HIDE DEF F, N
  <2> QED
    BY <1>1, <2>1, <2>2
<1>6. f = CHOOSE h : Eq(h)
  BY DEF OnFrame
<1> HIDE DEF Eq
<1>7. Eq(f)
  BY <1>5, <1>6
<1> HIDE DEF f
<1>8. f[0] = OnFrameBegin(st, n) /\ \A k \in 1 .. N : f[k] = OnFrameMsg(f[k - 1], frame[k])
  BY <1>1, <1>7 DEF Eq
<1> QED
  BY <1>8 DEF f

\* The messages of a frame, one after the other.
LEMMA FrameDone ==
    ASSUME NEW st \in OutState, NEW n \in Nat, NEW frame \in Seq(Kinds),
           NEW lines \in Seq(Nat \X Kinds), NEW messages \in Seq(Kinds)
    PROVE  /\ OnFrame(st, n, frame)[Len(frame)] \in OutState
           /\ Agrees(st, lines, messages) =>
                  Agrees(OnFrame(st, n, frame)[Len(frame)],
                         lines \o Tagged(n, frame), messages \o frame)
<1> DEFINE f == OnFrame(st, n, frame)
           LinesUpTo(k) == lines \o Tagged(n, Prefix(frame, k))
           UpTo(k) == messages \o Prefix(frame, k)
           Good(k) == /\ f[k] \in OutState /\ f[k].s_header = n
                      /\ Agrees(st, lines, messages) => Agrees(f[k], LinesUpTo(k), UpTo(k))
           T == {k \in 0 .. Len(frame) : Good(k)}
<1>1. f[0] = OnFrameBegin(st, n) /\ \A k \in 1 .. Len(frame) : f[k] = OnFrameMsg(f[k - 1], frame[k])
  BY OnFrameStep
<1>2. /\ Prefix(frame, 0) = << >> /\ Prefix(frame, Len(frame)) = frame
      /\ \A k \in 0 .. Len(frame) : Prefix(frame, k) \in Seq(Kinds)
      /\ \A k \in 1 .. Len(frame) : Prefix(frame, k) = Append(Prefix(frame, k - 1), frame[k])
  BY PrefixGrows
<1>3. Len(frame) \in Nat /\ \A k \in 1 .. Len(frame) : frame[k] \in Kinds
  OBVIOUS
<1> HIDE DEF f
<1>4. Good(0)
  <2>1. /\ f[0] \in OutState /\ f[0].s_header = n /\ f[0].logged = st.logged
        /\ f[0].shown = st.shown /\ f[0].recorded = st.recorded
    BY <1>1 DEF OnFrameBegin, OutState
  <2>2. LinesUpTo(0) = lines /\ UpTo(0) = messages
    <3>1. Tagged(n, << >>) = << >>
      BY DEF Tagged
    <3> QED
      BY <1>2, <3>1, ConcatEmptySeq
  <2> QED
    BY <2>1, <2>2 DEF Agrees
<1>5. ASSUME NEW k \in 0 .. (Len(frame) - 1), Good(k) PROVE Good(k + 1)
  <2> DEFINE kind == frame[k + 1]
             log == Log(kind)
             line == <<n, kind>>
             pre == Prefix(frame, k)
             was == f[k]
             is == f[k + 1]
  <2>1. /\ k + 1 \in 1 .. Len(frame) /\ k \in 0 .. Len(frame) /\ (k + 1) - 1 = k
        /\ kind \in Kinds /\ pre \in Seq(Kinds) /\ Prefix(frame, k + 1) = Append(pre, kind)
        /\ is = OnFrameMsg(was, kind) /\ was \in OutState /\ was.s_header = n
    <3>1. k + 1 \in 1 .. Len(frame) /\ k \in 0 .. Len(frame) /\ (k + 1) - 1 = k
      BY <1>3
    <3>2. was \in OutState /\ was.s_header = n
      BY <1>5
    <3>3. is = OnFrameMsg(f[(k + 1) - 1], kind)
      BY <1>1, <3>1
    <3>4. Prefix(frame, k + 1) = Append(Prefix(frame, (k + 1) - 1), kind)
      BY <1>2, <3>1
    <3> QED
      BY <1>2, <1>3, <3>1, <3>2, <3>3, <3>4
  <2> HIDE DEF kind, pre, was, is
  <2>2. /\ is \in OutState /\ is.s_header = n
        /\ is.logged = Append(was.logged, line)
        /\ is.shown = (IF s_server = "up" THEN was.shown \o log ELSE was.shown)
        /\ is.recorded = (IF s_writer = "open" THEN was.recorded \o log ELSE was.recorded)
    BY <2>1, MessageDone
  <2>3. Append(LinesUpTo(k), line) = LinesUpTo(k + 1)
    <3> DEFINE tags == Tagged(n, pre)
               V == Nat \X Kinds
    <3>1. tags \in Seq(V) /\ line \in V
      BY <2>1, TaggedType
    <3>2. Tagged(n, Prefix(frame, k + 1)) = Append(tags, line)
      BY <2>1, TaggedAppend
    <3> HIDE DEF tags, line
    <3>3. Append(lines \o tags, line) = lines \o Append(tags, line)
      <4>1. lines \in Seq(V)
        OBVIOUS
      <4> HIDE DEF V
      <4> QED BY <3>1, <4>1, AppendToConcat
    <3>4. LinesUpTo(k) = lines \o tags
      BY DEF tags, pre
    <3>5. LinesUpTo(k + 1) = lines \o Append(tags, line)
      BY <3>2
    <3> HIDE DEF LinesUpTo
    <3> QED
      BY <3>3, <3>4, <3>5
  <2>4. Published(UpTo(k + 1)) = Published(UpTo(k)) \o log
    <3>1. UpTo(k) = messages \o pre /\ UpTo(k) \in Seq(Kinds)
      BY <2>1 DEF pre
    <3>2. UpTo(k + 1) = Append(messages \o pre, kind)
      <4>1. Append(messages \o pre, kind) = messages \o Append(pre, kind)
        <5>1. messages \in Seq(Kinds) /\ pre \in Seq(Kinds) /\ kind \in Kinds
          BY <2>1
        <5> QED
          BY <5>1, AppendToConcat
      <4>2. UpTo(k + 1) = messages \o Append(pre, kind)
        BY <2>1
      <4> QED
        BY <4>1, <4>2
    <3>3. Published(Append(messages \o pre, kind)) = Published(messages \o pre) \o log
      BY <2>1, <3>1, PublishedAppend
    <3> QED
      BY <3>1, <3>2, <3>3
  <2> HIDE DEF LinesUpTo, UpTo, line, log
  <2>5. Agrees(st, lines, messages) => Agrees(is, LinesUpTo(k + 1), UpTo(k + 1))
    <3> SUFFICES ASSUME Agrees(st, lines, messages)
                 PROVE  Agrees(is, LinesUpTo(k + 1), UpTo(k + 1))
      OBVIOUS
    <3>1. Agrees(was, LinesUpTo(k), UpTo(k))
      BY <1>5 DEF was
    <3> QED
      BY <2>2, <2>3, <2>4, <3>1 DEF Agrees
  <2> QED
    BY <2>2, <2>5 DEF is
<1>6. \A k \in 0 .. Len(frame) : Good(k)
  <2> HIDE DEF Good
  <2>1. 0 \in T /\ \A k \in 0 .. (Len(frame) - 1) : k \in T => k + 1 \in T
    BY <1>3, <1>4, <1>5
  <2> HIDE DEF T
  <2>2. \A k \in 0 .. Len(frame) : k \in T
    BY <1>3, <2>1, Induction
  <2> QED
    BY <2>2 DEF T
<1>7. Good(Len(frame))
  <2> HIDE DEF Good
  <2> QED BY <1>3, <1>6
<1> QED
  BY <1>2, <1>7 DEF f
\* A piece of data consists of frames, and they of messages.
LEMMA ChunkType ==
    ASSUME NEW chunk \in Chunks
    PROVE  chunk \in Seq(Seq(Kinds))
<1>1. Frames \subseteq Seq(Kinds)
  BY LimitAssumption DEF Frames
<1>2. PICK n \in 0 .. FrameMax : chunk \in [1 .. n -> Frames]
  BY DEF Chunks
<1>3. n \in Nat
  BY LimitAssumption
<1>4. chunk \in [1 .. n -> Seq(Kinds)]
  BY <1>1, <1>2
<1> HIDE DEF Frames
<1> QED
  BY <1>3, <1>4

\* OnFrames is what its recursion says.
LEMMA OnFramesStep ==
    ASSUME out \in OutState, received \in Seq(Seq(Kinds)), NEW chunk \in Seq(Seq(Kinds))
    PROVE  /\ OnFrames(chunk)[0] = out
           /\ \A n \in 1 .. Len(chunk) :
                  OnFrames(chunk)[n] =
                      OnFrame(OnFrames(chunk)[n - 1], Len(received) + n, chunk[n])[Len(chunk[n])]
<1> DEFINE N == Len(chunk)
           Do(v, n) == OnFrame(v, Len(received) + n, chunk[n])[Len(chunk[n])]
           F == [n \in 1 .. N |-> [v \in OutState |-> Do(v, n)]]
           Eq(g) == g = [n \in 0 .. N |-> IF n = 0 THEN out ELSE Do(g[n - 1], n)]
           f == OnFrames(chunk)
<1>1. N \in Nat /\ \A n \in 1 .. N : chunk[n] \in Seq(Kinds) /\ Len(received) + n \in Nat
  OBVIOUS
<1>2. \A n \in 1 .. N : \A v \in OutState : Do(v, n) \in OutState
  <2>1. << >> \in Seq(Nat \X Kinds) /\ << >> \in Seq(Kinds)
    OBVIOUS
  <2> HIDE DEF N
  <2> QED
    BY <1>1, <2>1, FrameDone
<1> HIDE DEF Do
<1>3. F \in [1 .. N -> [OutState -> OutState]]
  BY <1>2
<1>4. PICK g : g \in Solutions(N, OutState, out, F)
  <2> HIDE DEF F, N
  <2> QED BY <1>1, <1>3, RecursionExists
<1>5. Eq(g)
  <2>1. /\ g \in [0 .. N -> OutState] /\ g[0] = out
        /\ \A n \in 1 .. N : g[n] = F[n][g[n - 1]]
    BY <1>4 DEF Solutions
  <2>2. ASSUME NEW n \in 1 .. N PROVE g[n] = Do(g[n - 1], n)
    <3>1. n - 1 \in 0 .. N
      BY <1>1
    <3>2. g[n - 1] \in OutState
      BY <2>1, <3>1
    <3> QED
      BY <2>1, <3>2
  <2> HIDE DEF F, N
  <2> QED
    BY <1>1, <2>1, <2>2
<1>6. f = CHOOSE h : Eq(h)
  BY DEF OnFrames, Do
<1> HIDE DEF Eq
<1>7. Eq(f)
  BY <1>5, <1>6
<1> HIDE DEF f
<1>8. f[0] = out /\ \A n \in 1 .. N : f[n] = Do(f[n - 1], n)
  <2>1. f = [n \in 0 .. N |-> IF n = 0 THEN out ELSE Do(f[n - 1], n)]
    BY <1>7 DEF Eq
  <2>2. 0 \in 0 .. N /\ \A n \in 1 .. N : n \in 0 .. N /\ n # 0
    BY <1>1
  <2>3. f[0] = out
    BY <2>1, <2>2
  <2>4. ASSUME NEW n \in 1 .. N PROVE f[n] = Do(f[n - 1], n)
    <3>1. n \in 0 .. N /\ n # 0
      BY <2>2
    <3> HIDE DEF N
    <3> QED
      BY <2>1, <3>1, Zenon
  <2> QED
    BY <2>3, <2>4
<1> QED
  BY <1>8 DEF f, Do

\* What log, server and recording have got is right.
Right(st, frames) == Agrees(st, Logged(frames), SX!FlattenSeq(frames))

\* The frames that a piece of data completes, one after the other.
LEMMA FramesDone ==
    ASSUME out \in OutState, received \in Seq(Seq(Kinds)), NEW chunk \in Seq(Seq(Kinds)),
           Right(out, received)
    PROVE  /\ OnFrames(chunk)[Len(chunk)] \in OutState
           /\ Right(OnFrames(chunk)[Len(chunk)], received \o chunk)
<1> DEFINE f == OnFrames(chunk)
           UpTo(n) == received \o Prefix(chunk, n)
           Good(n) == f[n] \in OutState /\ Right(f[n], UpTo(n))
           T == {n \in 0 .. Len(chunk) : Good(n)}
           V == Seq(Kinds)
<1>1. /\ f[0] = out
      /\ \A n \in 1 .. Len(chunk) :
            f[n] = OnFrame(f[n - 1], Len(received) + n, chunk[n])[Len(chunk[n])]
  BY OnFramesStep
<1>2. /\ Prefix(chunk, 0) = << >> /\ Prefix(chunk, Len(chunk)) = chunk
      /\ \A n \in 0 .. Len(chunk) : Prefix(chunk, n) \in Seq(V) /\ Len(Prefix(chunk, n)) = n
      /\ \A n \in 1 .. Len(chunk) : Prefix(chunk, n) = Append(Prefix(chunk, n - 1), chunk[n])
  <2> HIDE DEF V
  <2> QED BY PrefixGrows DEF V
<1>3. Len(chunk) \in Nat /\ Len(received) \in Nat /\ \A n \in 1 .. Len(chunk) : chunk[n] \in V
  OBVIOUS
<1> HIDE DEF f
<1>4. Good(0)
  <2>1. UpTo(0) = received
    BY <1>2, ConcatEmptySeq
  <2> QED
    BY <1>1, <2>1
<1>5. ASSUME NEW n \in 0 .. (Len(chunk) - 1), Good(n) PROVE Good(n + 1)
  <2> DEFINE frame == chunk[n + 1]
             number == Len(received) + (n + 1)
             pre == Prefix(chunk, n)
             was == f[n]
             is == f[n + 1]
             frames == received \o pre
             lines == Logged(frames)
             messages == SX!FlattenSeq(frames)
  <2>1. /\ frame \in V /\ pre \in Seq(V) /\ Len(pre) = n
        /\ Prefix(chunk, n + 1) = Append(pre, frame)
        /\ number \in Nat /\ is = OnFrame(was, number, frame)[Len(frame)]
    <3>1. n + 1 \in 1 .. Len(chunk) /\ n \in 0 .. Len(chunk) /\ (n + 1) - 1 = n
      BY <1>3
    <3>2. is = OnFrame(f[(n + 1) - 1], number, frame)[Len(frame)]
      BY <1>1, <3>1
    <3>3. Prefix(chunk, n + 1) = Append(Prefix(chunk, (n + 1) - 1), frame)
      BY <1>2, <3>1
    <3>4. pre \in Seq(V) /\ Len(pre) = n
      BY <1>2, <3>1
    <3>5. frame \in V /\ number \in Nat
      BY <1>3, <3>1
    <3> QED
      BY <3>2, <3>3, <3>4, <3>5
  <2>2. frames \in Seq(V) /\ Len(frames) + 1 = number
    <3>1. received \in Seq(V) /\ pre \in Seq(V) /\ Len(pre) = n
      BY <2>1
    <3> HIDE DEF V, pre
    <3>2. frames \in Seq(V) /\ Len(frames) = Len(received) + n
      BY <3>1, ConcatProperties
    <3> QED
      BY <1>3, <3>2
  <2>3. UpTo(n + 1) = Append(frames, frame)
    <3>1. received \in Seq(V) /\ pre \in Seq(V) /\ frame \in V
      BY <2>1
    <3> HIDE DEF pre, frame, V
    <3>2. Append(received \o pre, frame) = received \o Append(pre, frame)
      BY <3>1, AppendToConcat
    <3> QED
      BY <2>1, <3>2
  <2>4. was \in OutState /\ Agrees(was, lines, messages)
    BY <1>5 DEF Right
  <2> HIDE DEF frame, number, pre, was, is, frames
  <2>5. /\ lines \in Seq(Nat \X Kinds)
        /\ Logged(Append(frames, frame)) = lines \o Tagged(number, frame)
    BY <2>1, <2>2, LoggedAppend
  <2>6. /\ messages \in Seq(Kinds)
        /\ SX!FlattenSeq(Append(frames, frame)) = messages \o frame
    BY <2>1, <2>2, FlattenAppend
  <2> HIDE DEF lines, messages, UpTo, V
  <2>7. is \in OutState /\ Agrees(is, lines \o Tagged(number, frame), messages \o frame)
    BY <2>1, <2>4, <2>5, <2>6, FrameDone DEF V
  <2>8. Right(is, UpTo(n + 1))
    BY <2>3, <2>5, <2>6, <2>7 DEF Right
  <2> QED
    BY <2>7, <2>8 DEF is
<1>6. \A n \in 0 .. Len(chunk) : Good(n)
  <2> HIDE DEF Good
  <2>1. 0 \in T /\ \A n \in 0 .. (Len(chunk) - 1) : n \in T => n + 1 \in T
    BY <1>3, <1>4, <1>5
  <2> HIDE DEF T
  <2>2. \A n \in 0 .. Len(chunk) : n \in T
    BY <1>3, <2>1, Induction
  <2> QED
    BY <2>2 DEF T
<1>7. Good(Len(chunk))
  <2> HIDE DEF Good
  <2> QED BY <1>3, <1>6
<1> QED
  BY <1>2, <1>7 DEF f

----------------------------------------------------------------------------
\* The inductive invariant of reader: nothing arrives before server and
\* recording are started or have failed to, and nothing after they are gone.
OutInv ==
    /\ out \in OutState /\ received \in Seq(Seq(Kinds))
    /\ s_server \in {"none", "up", "gone"}
    /\ s_writer \in {"none", "open", "closed", "damaged"}
    /\ app = "writer" => s_server = "none" /\ s_writer = "none"
    /\ program \in {"init", "record"} =>
           /\ received = << >> /\ s_writer = "none"
           /\ out.logged = << >> /\ out.shown = << >> /\ out.recorded = << >>
    /\ program = "init" => s_server = "none"
    /\ program \in {"record", "serial"} => s_server # "gone"
    /\ program = "serial" => s_writer \in {"none", "open"}
    /\ OutputsIndependent

\* It holds at the start ...
LEMMA OutInvInit == ToolInit => OutInv
<1> SUFFICES ASSUME ToolInit PROVE OutInv
  OBVIOUS
<1>1. out \in OutState /\ received \in Seq(Seq(Kinds))
  BY DEF ToolInit, OutState
<1>2. OutputsIndependent
  BY LoggedNothing DEF ToolInit, OutputsIndependent
<1> QED
  BY <1>1, <1>2 DEF ToolInit, OutInv

\* The steps that concern neither what arrives nor where it goes.
LEMMA OutUnchanged ==
    ASSUME OutInv, UNCHANGED <<choices, program, sinks, out, received>>
    PROVE  OutInv'
<1> USE DEF choices, sinks
<1>1. Existing' = Existing
  BY DEF Existing
<1>2. OutputsIndependent'
  BY <1>1 DEF OutInv, OutputsIndependent, Logged, Published, Log
<1> QED
  BY <1>2 DEF OutInv

\* What there is to publish of nothing does not depend on the channels.
LEMMA NothingYet ==
    ASSUME received' = << >>, out'.logged = << >>, out'.shown = << >>, out'.recorded = << >>,
           program' # "returned"
    PROVE  OutputsIndependent'
<1>1. Logged(received)' = << >>
  BY LoggedNothing DEF Logged
<1>2. Published(SX!FlattenSeq(received))' = << >>
  BY PublishedNothing DEF Published
<1> QED
  BY <1>1, <1>2 DEF OutputsIndependent

\* ... and every step keeps it.
LEMMA OutInvStep == OutInv /\ [ToolNext]_allvars => OutInv'
<1> SUFFICES ASSUME OutInv, [ToolNext]_allvars PROVE OutInv'
  OBVIOUS
<1>1. CASE UNCHANGED allvars
  BY <1>1, OutUnchanged DEF allvars, toolvars
<1>2. CASE StartServer
  <2>1. /\ program' \in {"record", "serial"} /\ s_server' \in {"none", "up"}
        /\ s_writer' = "none" /\ received' = << >> /\ UNCHANGED out /\ app' = "reader"
    BY <1>2 DEF StartServer, At, OutInv, choices
  <2>2. OutputsIndependent'
    BY <1>2, <2>1, NothingYet DEF OutInv, StartServer, At
  <2> QED
    BY <1>2, <2>1, <2>2 DEF OutInv, StartServer, At
<1>3. CASE RecordStart
  <2>1. /\ program' = "serial" /\ s_writer' \in {"none", "open"} /\ UNCHANGED s_server
        /\ received' = << >> /\ UNCHANGED out /\ app' = "reader"
    BY <1>3 DEF RecordStart, At, OutInv, choices
  <2>2. OutputsIndependent'
    BY <1>3, <2>1, NothingYet DEF OutInv, RecordStart, At
  <2> QED
    BY <1>3, <2>1, <2>2 DEF OutInv, RecordStart, At
<1>4. CASE StartThread
  <2>1. /\ program' = "serial" /\ UNCHANGED <<sinks, out>> /\ received' = << >>
        /\ s_server' = "none" /\ s_writer' = "none"
    BY <1>4 DEF StartThread, At, OutInv, sinks
  <2>2. OutputsIndependent'
    BY <1>4, <2>1, NothingYet DEF OutInv, StartThread, At
  <2> QED
    BY <1>4, <2>1, <2>2 DEF OutInv, StartThread, At
<1>5. CASE Shutdown \/ Join
  <2>1. /\ program = "serial" /\ program' = "returned" /\ UNCHANGED <<out, received, channels, choices>>
        /\ s_server' # "up" /\ s_writer' # "open"
        /\ s_server' # "none" => s_server # "none"
        /\ s_writer' # "none" => s_writer # "none"
        /\ s_server' \in {"none", "up", "gone"}
        /\ s_writer' \in {"none", "open", "closed", "damaged"}
        /\ app' = "writer" => s_server' = "none" /\ s_writer' = "none"
    BY <1>5 DEF Shutdown, Join, At, OutInv, sinks, choices
  <2>2. Existing' = Existing
    BY <2>1 DEF Existing, choices
  <2>3. OutputsIndependent'
    BY <2>1, <2>2 DEF OutInv, OutputsIndependent, Logged, Published, Log
  <2> QED
    BY <2>1, <2>3 DEF OutInv
<1>6. CASE InMainCommon
  BY <1>6, OutUnchanged DEF InMainCommon, toolvars
<1>7. CASE \E chunk \in Chunks : OnData(chunk)
  <2>1. PICK chunk \in Chunks : OnData(chunk)
    BY <1>7
  <2>2. /\ program = "serial" /\ received' = received \o chunk
        /\ out' = OnFrames(chunk)[Len(chunk)]
        /\ UNCHANGED <<choices, program, sinks>>
    BY <2>1 DEF OnData
  <2>3. /\ out \in OutState /\ received \in Seq(Seq(Kinds)) /\ chunk \in Seq(Seq(Kinds))
        /\ s_server \in {"none", "up"} /\ s_writer \in {"none", "open"}
    BY <2>2, ChunkType DEF OutInv
  <2>4. Right(out, received)
    BY <2>3 DEF OutInv, OutputsIndependent, Right, Agrees
  <2>5. out' \in OutState /\ Right(out', received')
    BY <2>2, <2>3, <2>4, FramesDone
  <2>6. received' \in Seq(Seq(Kinds))
    BY <2>2, <2>3
  <2>7. Existing' = Existing
    BY <2>2 DEF Existing, choices, sinks
  <2>8. OutputsIndependent'
    BY <2>2, <2>3, <2>5, <2>7 DEF OutputsIndependent, Right, Agrees, Logged, Published, Log, sinks
  <2> QED
    BY <2>2, <2>3, <2>5, <2>6, <2>8 DEF OutInv, choices, sinks
<1>8. CASE SendThread \/ CtrlC
  BY <1>8, OutUnchanged DEF SendThread, Raise, Wake, SendMsg, CtrlC
<1>9. CASE Device /\ UNCHANGED toolvars
  BY <1>9, OutUnchanged DEF toolvars
<1> QED
  BY <1>1, <1>2, <1>3, <1>4, <1>5, <1>6, <1>7, <1>8, <1>9 DEF ToolNext, MainThread

\* The inductive invariant of reader holds throughout.
THEOREM ReaderInvariance == ToolSafeSpec => []OutInv
BY OutInvInit, OutInvStep, PTL DEF ToolSafeSpec

\* Whatever arrives, in however large pieces, is logged, shown and recorded
\* alike: a server or a recording that could not be started keeps nothing from
\* the others, and the file is closed when main returns.
THEOREM OutputsDoNotInterfere == ToolSafeSpec => []OutputsIndependent
<1>1. OutInv => OutputsIndependent
  BY DEF OutInv
<1> QED
  BY <1>1, ReaderInvariance, PTL
=============================================================================
