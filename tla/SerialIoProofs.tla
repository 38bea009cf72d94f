--------------------------- MODULE SerialIoProofs ---------------------------
(***************************************************************************)
(* The safety properties of SerialIo hold for any threads that send, any   *)
(* number of frames and of pieces of incoming data, whatever the device    *)
(* does and whenever a signal comes.                                       *)
(***************************************************************************)
EXTENDS SerialIo, SequenceLemmas

----------------------------------------------------------------------------
\* The inductive invariant.

\* At most one handler of this kind is ready.
Single(op) == \A j, k \in DOMAIN ready : ready[j].op = op /\ ready[k].op = op => j = k

\* The port exists while main is where it uses it.
MainInv ==
    /\ io \in {"start", "open"} => ~alive /\ ~g_serial
    /\ io \in {"publish", "run", "clear", "destroy", "throw"} => alive
    /\ io \in {"destroy", "done"} => ~g_serial

\* There is one read: under way, or done and about to be handled.
ReadInv ==
    /\ Waiting("read") => ~reading /\ reads < ReadMax
    /\ Single("read")
    /\ io \in {"start", "open"} => ~reading /\ ~Waiting("read")

\* There is one write, of the frame at the queue's front.
WriteInv ==
    /\ OneWriteInFlight
    /\ Waiting("written") => write_queue # << >>
    /\ Single("written")

\* Neither chain breaks before a handler throws or the loop is left.
ChainInv ==
    /\ io \in {"publish", "run"} => reading \/ Waiting("read") \/ Waiting("error")
    /\ io \in {"start", "open", "publish", "run"} /\ write_queue # << >> =>
           in_flight # << >> \/ Waiting("written") \/ Waiting("error")

\* Frames are posted in the order of their counts, which are below the one
\* that the sender has come to.
SenderInv ==
    /\ \A s \in Senders : sender[s] # "idle" => sent[s] < SendMax
    /\ \A k \in DOMAIN submitted : submitted[k][2] < sent[submitted[k][1]]
    /\ \A j, k \in DOMAIN submitted :
           j < k /\ submitted[j][1] = submitted[k][1] => submitted[j][2] < submitted[k][2]

IInv == /\ TypeOK /\ MainInv /\ ReadInv /\ WriteInv /\ ChainInv /\ SenderInv
        /\ NothingLost

----------------------------------------------------------------------------
\* What a step does to the handlers that are ready.

\* Nothing changes without a change of the handlers that are ready.
LEMMA ReadyKept ==
    ASSUME ready' = ready, NEW op
    PROVE  (Waiting(op)' <=> Waiting(op)) /\ (Single(op)' <=> Single(op))
BY DEF Waiting, Single

\* A completion makes one more handler ready, ...
LEMMA ReadyAdded ==
    ASSUME ready \in Seq(Event), NEW e \in Event, ready' = Append(ready, e), NEW op
    PROVE  /\ Waiting(op)' <=> Waiting(op) \/ e.op = op
           /\ Single(op) /\ (e.op # op \/ ~Waiting(op)) => Single(op)'
<1>1. /\ DOMAIN ready = 1 .. Len(ready) /\ DOMAIN ready' = 1 .. Len(ready) + 1
      /\ \A k \in DOMAIN ready : ready'[k] = ready[k]
      /\ ready'[Len(ready) + 1] = e /\ Len(ready) \in Nat
  OBVIOUS
<1>2. Waiting(op)' <=> Waiting(op) \/ e.op = op
  BY <1>1 DEF Waiting
<1>3. Single(op) /\ (e.op # op \/ ~Waiting(op)) => Single(op)'
  BY <1>1 DEF Single, Waiting
<1> QED
  BY <1>2, <1>3

\* ... and a handler that runs is ready no longer.
LEMMA ReadyTaken ==
    ASSUME ready \in Seq(Event), NEW op, Handler(op), NEW other
    PROVE  /\ Waiting(op)
           /\ Single(op) => ~Waiting(op)'
           /\ Single(other) => Single(other)'
           /\ other # op => (Waiting(other)' <=> Waiting(other))
<1>1. /\ DOMAIN ready = 1 .. Len(ready) /\ DOMAIN ready' = 1 .. Len(ready) - 1
      /\ \A k \in DOMAIN ready' : ready'[k] = ready[k + 1]
      /\ Len(ready) \in Nat \ {0} /\ ready[1].op = op
  BY DEF Handler
<1>2. Waiting(op)
  BY <1>1 DEF Waiting
<1>3. Single(op) => ~Waiting(op)'
  BY <1>1 DEF Waiting, Single
<1>4. Single(other) => Single(other)'
  BY <1>1 DEF Single
<1>5. ASSUME other # op PROVE Waiting(other)' <=> Waiting(other)
  <2>1. ASSUME NEW k \in DOMAIN ready, ready[k].op = other PROVE Waiting(other)'
    <3>1. k # 1 /\ k - 1 \in DOMAIN ready' /\ ready'[k - 1] = ready[k]
      BY <1>1, <1>5, <2>1
    <3> QED BY <2>1, <3>1 DEF Waiting
  <2>2. Waiting(other)' => Waiting(other)
    BY <1>1 DEF Waiting
  <2> QED
    BY <2>1, <2>2 DEF Waiting
<1> QED
  BY <1>2, <1>3, <1>4, <1>5

\* Every handler that is ready is one of five.
LEMMA EventOps ==
    /\ \A op \in {"written", "read", "error", "signal"} : Ev(op) \in Event /\ Ev(op).op = op
    /\ \A f \in AllFrames : Post(f) \in Event /\ Post(f).op = "post" /\ Post(f).frame = f
    /\ \A e \in Event : e.op = "post" => e.frame \in AllFrames /\ e = Post(e.frame)
<1>1. \A op \in {"written", "read", "error", "signal"} : Ev(op) \in Event /\ Ev(op).op = op
  BY DEF Event, Ev
<1>2. \A f \in AllFrames : Post(f) \in Event /\ Post(f).op = "post" /\ Post(f).frame = f
  BY DEF Event, Post
<1>3. ASSUME NEW e \in Event, e.op = "post"
      PROVE  e.frame \in AllFrames /\ e = Post(e.frame)
  <2>1. \A op \in {"written", "read", "error", "signal"} : Ev(op).op # "post"
    BY <1>1
  <2>2. PICK f \in AllFrames : e = Post(f)
    BY <1>3, <2>1 DEF Event
  <2> QED BY <1>2, <2>2
<1> QED
  BY <1>1, <1>2, <1>3

----------------------------------------------------------------------------
\* A frame in the making is the sender's next.
LEMMA FrameType ==
    ASSUME TypeOK, SenderInv, NEW s \in Senders, sender[s] # "idle"
    PROVE  Frame(s) \in AllFrames /\ Frame(s)[1] = s /\ Frame(s)[2] = sent[s]
BY BoundAssumption DEF Frame, AllFrames, TypeOK, SenderInv

\* The frame at the queue's front is written next.
LEMMA StartWriteType ==
    ASSUME in_flight \in Seq(AllFrames), NEW q \in Seq(AllFrames), StartWrite(q)
    PROVE  in_flight' \in Seq(AllFrames)
BY DEF StartWrite

\* A call that returns leaves the sender idle or lets it go on.
LEMMA ReturnsType ==
    ASSUME TypeOK, NEW s \in Senders, sent[s] < SendMax, Returns(s)
    PROVE  /\ sender' \in [Senders -> {"idle", "flag", "write"}]
           /\ sent' \in [Senders -> 0 .. SendMax]
BY BoundAssumption DEF Returns, Goto, TypeOK

\* Every step keeps the types, ...
LEMMA TypeStep ==
    ASSUME TypeOK, MainInv, ReadInv, WriteInv, SenderInv, [Next]_vars
    PROVE  TypeOK'
<1> USE DEF mainvars, readvars, writevars, sendervars, vars
<1>1. CASE Begin
  BY <1>1 DEF Begin, TypeOK
<1>2. CASE OpenPort
  BY <1>2 DEF OpenPort, TypeOK
<1>3. CASE OpenFails
  BY <1>3 DEF OpenFails, TypeOK
<1>4. CASE Publish
  BY <1>4 DEF Publish, TypeOK, MainInv
<1>5. CASE RunReturns
  BY <1>5 DEF RunReturns, TypeOK, MainInv
<1>6. CASE ClearPointer
  BY <1>6 DEF ClearPointer, TypeOK
<1>7. CASE Destroy
  <2>1. in_flight' \in Seq(AllFrames)
    BY <1>7, EmptySeq DEF Destroy
  <2> QED
    BY <1>7, <2>1 DEF Destroy, TypeOK, MainInv
<1>8. CASE Unwind
  <2>1. in_flight' \in Seq(AllFrames)
    BY <1>8, EmptySeq DEF Unwind
  <2> QED
    BY <1>8, <2>1 DEF Unwind, TypeOK
<1>9. CASE Exit
  BY <1>9 DEF Exit, TypeOK
<1>10. CASE OnPost
  <2>1. Head(ready) \in Event /\ Head(ready).op = "post" /\ ready' \in Seq(Event)
    BY <1>10 DEF OnPost, Handler, TypeOK
  <2>2. write_queue' \in Seq(AllFrames)
    BY <1>10, <2>1, EventOps DEF OnPost, TypeOK
  <2>3. in_flight' \in Seq(AllFrames)
    BY <1>10, <2>2, StartWriteType DEF OnPost, TypeOK
  <2> QED
    BY <1>10, <2>1, <2>2, <2>3 DEF OnPost, TypeOK
<1>11. CASE OnWritten
  <2>1. ready' \in Seq(Event)
    BY <1>11 DEF OnWritten, Handler, TypeOK
  <2>2. write_queue # << >>
    BY <1>11, ReadyTaken DEF OnWritten, WriteInv, TypeOK
  <2>3. write_queue' \in Seq(AllFrames)
    BY <1>11, <2>2 DEF OnWritten, TypeOK
  <2>4. in_flight' \in Seq(AllFrames)
    BY <1>11, <2>3, StartWriteType DEF OnWritten, TypeOK
  <2> QED
    BY <1>11, <2>1, <2>3, <2>4 DEF OnWritten, TypeOK
<1>12. CASE OnRead
  <2>1. ready' \in Seq(Event)
    BY <1>12 DEF OnRead, Handler, TypeOK
  <2>2. Waiting("read")
    BY <1>12, ReadyTaken DEF OnRead, TypeOK
  <2>3. reads' \in 0 .. ReadMax
    BY <1>12, <2>2, BoundAssumption DEF OnRead, ReadInv, TypeOK
  <2> QED
    BY <1>12, <2>1, <2>3 DEF OnRead, TypeOK
<1>13. CASE OnError
  <2>1. in_flight' \in Seq(AllFrames)
    BY <1>13, EmptySeq DEF OnError
  <2>2. ready' \in Seq(Event)
    BY <1>13 DEF OnError, Handler, TypeOK
  <2> QED
    BY <1>13, <2>1, <2>2 DEF OnError, Handler, TypeOK, MainInv
<1>14. CASE OnSignal
  <2>1. ready' \in Seq(Event)
    BY <1>14 DEF OnSignal, Handler, TypeOK
  <2> QED
    BY <1>14, <2>1 DEF OnSignal, TypeOK
<1>15. CASE DeviceTakes
  BY <1>15, EventOps DEF DeviceTakes, TypeOK
<1>16. CASE DeviceRefuses
  BY <1>16, EventOps DEF DeviceRefuses, TypeOK
<1>17. CASE DeviceSends
  <2>1. ready' \in Seq(Event)
    BY <1>17, EventOps DEF DeviceSends, TypeOK
  <2> QED
    BY <1>17, <2>1 DEF DeviceSends, TypeOK
<1>18. CASE DeviceLeaves
  <2>1. ready' \in Seq(Event)
    BY <1>18, EventOps DEF DeviceLeaves, TypeOK
  <2> QED
    BY <1>18, <2>1 DEF DeviceLeaves, TypeOK
<1>19. CASE Signal
  BY <1>19, EventOps DEF Signal, TypeOK
<1>20. ASSUME NEW s \in Senders, ReadFlag(s) PROVE TypeOK'
  BY <1>20, ReturnsType DEF ReadFlag, Goto, TypeOK
<1>21. ASSUME NEW s \in Senders, ReadPointer(s) PROVE TypeOK'
  BY <1>21, ReturnsType DEF ReadPointer, Goto, TypeOK, SenderInv
<1>22. ASSUME NEW s \in Senders, Write(s) PROVE TypeOK'
  <2>1. sender[s] # "idle" /\ sent[s] < SendMax
    BY <1>22 DEF Write, SenderInv
  <2>2. Frame(s) \in AllFrames /\ Post(Frame(s)) \in Event
    BY <2>1, FrameType, EventOps
  <2>3. submitted' \in Seq(AllFrames) /\ ready' \in Seq(Event)
    BY <1>22, <2>2 DEF Write, TypeOK
  <2>4. /\ sender' \in [Senders -> {"idle", "flag", "write"}]
        /\ sent' \in [Senders -> 0 .. SendMax]
    BY <1>22, <2>1, ReturnsType DEF Write
  <2> QED
    BY <1>22, <2>3, <2>4 DEF Write, TypeOK
<1>23. ASSUME NEW s \in Senders, WriteAstray(s) PROVE TypeOK'
  <2>1. sender[s] # "idle" /\ sent[s] < SendMax
    BY <1>23 DEF WriteAstray, SenderInv
  <2>2. /\ sender' \in [Senders -> {"idle", "flag", "write"}]
        /\ sent' \in [Senders -> 0 .. SendMax]
    BY <1>23, <2>1, ReturnsType DEF WriteAstray
  <2> QED
    BY <1>23, <2>2 DEF WriteAstray, TypeOK
<1>24. CASE UNCHANGED vars
  BY <1>24 DEF TypeOK
<1> QED
  BY <1>1, <1>2, <1>3, <1>4, <1>5, <1>6, <1>7, <1>8, <1>9, <1>10, <1>11, <1>12,
     <1>13, <1>14, <1>15, <1>16, <1>17, <1>18, <1>19, <1>20, <1>21, <1>22, <1>23,
     <1>24 DEF Next, Main, Handlers, Device, Sending

----------------------------------------------------------------------------
\* ... what main_common_init has set up, ...
LEMMA MainStep ==
    ASSUME MainInv, TypeOK, [Next]_vars
    PROVE  MainInv'
<1> USE DEF mainvars, vars, MainInv
<1>1. CASE Main
  BY <1>1 DEF Main, Begin, OpenPort, OpenFails, Publish, RunReturns, ClearPointer,
     Destroy, Unwind, Exit
<1>2. CASE Handlers
  BY <1>2 DEF Handlers, Handler, OnPost, OnWritten, OnRead, OnError, OnSignal
<1>3. CASE Device
  BY <1>3 DEF Device, DeviceTakes, DeviceRefuses, DeviceSends, DeviceLeaves
<1>4. CASE Signal
  BY <1>4 DEF Signal
<1>5. ASSUME NEW s \in Senders, Sending(s) PROVE MainInv'
  BY <1>5 DEF Sending, ReadFlag, ReadPointer, Write, WriteAstray
<1>6. CASE UNCHANGED vars
  BY <1>6
<1> QED
  BY <1>1, <1>2, <1>3, <1>4, <1>5, <1>6 DEF Next

----------------------------------------------------------------------------
\* ... the chain of reads, ...
LEMMA ReadStep ==
    ASSUME TypeOK, ReadInv, MainInv, SenderInv, [Next]_vars
    PROVE  ReadInv'
<1> USE DEF mainvars, readvars, vars
<1>0. ready \in Seq(Event)
  BY DEF TypeOK
<1>1. CASE Main
  <2>1. ready' = ready /\ reads' = reads /\ (reading' = reading \/ (io = "open" /\ io' = "publish") \/ reading' = FALSE)
        /\ (io' \in {"start", "open"} => io \in {"start", "open"} /\ reading' = reading)
    BY <1>1 DEF Main, Begin, OpenPort, OpenFails, Publish, RunReturns, ClearPointer,
       Destroy, Unwind, Exit
  <2>2. (Waiting("read")' <=> Waiting("read")) /\ (Single("read")' <=> Single("read"))
    BY <2>1, ReadyKept
  <2> QED
    BY <2>1, <2>2 DEF ReadInv
<1>2. CASE OnPost \/ OnWritten \/ OnSignal
  <2>1. PICK op \in {"post", "written", "signal"} :
            Handler(op) /\ reading' = reading /\ reads' = reads /\ io' = io
    BY <1>2 DEF OnPost, OnWritten, OnSignal
  <2>2. (Waiting("read")' <=> Waiting("read")) /\ (Single("read") => Single("read")')
    BY <1>0, <2>1, ReadyTaken
  <2> QED
    BY <2>1, <2>2 DEF ReadInv
<1>3. CASE OnRead
  <2>1. Handler("read") /\ reads' = reads + 1 /\ io' = io /\ io = "run"
    BY <1>3 DEF OnRead, Handler
  <2>2. Waiting("read") /\ ~Waiting("read")' /\ Single("read")'
    BY <1>0, <2>1, ReadyTaken DEF ReadInv
  <2> QED
    BY <2>1, <2>2 DEF ReadInv
<1>4. CASE OnError
  <2>1. Handler("error") /\ reads' = reads /\ io' = "throw" /\ ~reading'
    BY <1>4 DEF OnError
  <2>2. (Waiting("read")' <=> Waiting("read")) /\ (Single("read") => Single("read")')
    BY <1>0, <2>1, ReadyTaken
  <2> QED
    BY <2>1, <2>2 DEF ReadInv
<1>5. CASE DeviceSends
  <2>1. /\ Ev("read") \in Event /\ Ev("read").op = "read"
        /\ ready' = Append(ready, Ev("read"))
        /\ reading /\ ~reading' /\ reads' = reads /\ reads < ReadMax /\ io' = io
    BY <1>5, EventOps DEF DeviceSends
  <2>2. Waiting("read")' /\ ~Waiting("read")
    BY <1>0, <2>1, ReadyAdded DEF ReadInv
  <2>3. Single("read")'
    BY <1>0, <2>1, <2>2, ReadyAdded DEF ReadInv
  <2> QED
    BY <2>1, <2>2, <2>3 DEF ReadInv
<1>6. CASE DeviceTakes \/ DeviceRefuses \/ DeviceLeaves \/ Signal
  <2>1. PICK op \in {"written", "error", "signal"} :
            /\ Ev(op) \in Event /\ Ev(op).op = op /\ ready' = Append(ready, Ev(op))
            /\ reads' = reads /\ io' = io /\ (reading' = reading \/ ~reading')
            /\ (reading' # reading => reading)
    BY <1>6, EventOps DEF DeviceTakes, DeviceRefuses, DeviceLeaves, Signal
  <2>2. (Waiting("read")' <=> Waiting("read")) /\ (Single("read") => Single("read")')
    BY <1>0, <2>1, ReadyAdded
  <2> QED
    BY <2>1, <2>2 DEF ReadInv
<1>7. ASSUME NEW s \in Senders, Write(s) PROVE ReadInv'
  <2>1. /\ Post(Frame(s)) \in Event /\ Post(Frame(s)).op = "post"
        /\ ready' = Append(ready, Post(Frame(s)))
        /\ reads' = reads /\ io' = io /\ reading' = reading
    BY <1>7, FrameType, EventOps DEF Write
  <2>2. (Waiting("read")' <=> Waiting("read")) /\ (Single("read") => Single("read")')
    BY <1>0, <2>1, ReadyAdded
  <2> QED
    BY <2>1, <2>2 DEF ReadInv
<1>8. ASSUME NEW s \in Senders, ReadFlag(s) \/ ReadPointer(s) \/ WriteAstray(s)
      PROVE  ReadInv'
  <2>1. ready' = ready /\ reads' = reads /\ reading' = reading /\ io' \in {io, "exited"}
    BY <1>8 DEF ReadFlag, ReadPointer, WriteAstray
  <2>2. (Waiting("read")' <=> Waiting("read")) /\ (Single("read")' <=> Single("read"))
    BY <2>1, ReadyKept
  <2> QED
    BY <2>1, <2>2 DEF ReadInv
<1>9. CASE UNCHANGED vars
  <2>1. ready' = ready /\ reads' = reads /\ reading' = reading /\ io' = io
    BY <1>9
  <2>2. (Waiting("read")' <=> Waiting("read")) /\ (Single("read")' <=> Single("read"))
    BY <2>1, ReadyKept
  <2> QED
    BY <2>1, <2>2 DEF ReadInv
<1> QED
  BY <1>1, <1>2, <1>3, <1>4, <1>5, <1>6, <1>7, <1>8, <1>9
     DEF Next, Handlers, Device, Sending

----------------------------------------------------------------------------
\* ... the one write under way, ...
LEMMA WriteStep ==
    ASSUME TypeOK, WriteInv, MainInv, SenderInv, [Next]_vars
    PROVE  WriteInv'
<1> USE DEF mainvars, writevars, vars
<1>0. ready \in Seq(Event) /\ write_queue \in Seq(AllFrames) /\ in_flight \in Seq(AllFrames)
  BY DEF TypeOK
<1>1. CASE Main
  <2>1. /\ ready' = ready /\ write_queue' = write_queue
        /\ in_flight' = in_flight \/ in_flight' = << >>
    BY <1>1 DEF Main, Begin, OpenPort, OpenFails, Publish, RunReturns, ClearPointer,
       Destroy, Unwind, Exit
  <2>2. (Waiting("written")' <=> Waiting("written")) /\ (Single("written")' <=> Single("written"))
    BY <2>1, ReadyKept
  <2> QED
    BY <2>1, <2>2 DEF WriteInv, OneWriteInFlight
<1>2. CASE OnPost
  <2>1. Handler("post")
    BY <1>2 DEF OnPost
  <2>2. (Waiting("written")' <=> Waiting("written")) /\ (Single("written") => Single("written")')
    BY <1>0, <2>1, ReadyTaken
  <2>3. Head(ready).frame \in AllFrames
    BY <1>0, <2>1, EventOps DEF Handler
  <2>4. write_queue' # << >> /\ (write_queue # << >> => Head(write_queue') = Head(write_queue))
    BY <1>0, <1>2, <2>3 DEF OnPost
  <2>5. CASE write_queue = << >>
    <3>1. in_flight = << >> /\ ~Waiting("written")
      BY <2>5 DEF WriteInv, OneWriteInFlight
    <3>2. Len(write_queue') = 1
      BY <1>2, <2>5 DEF OnPost
    <3>3. Len(in_flight') = 1 /\ in_flight'[1] = Head(write_queue')
      BY <1>2, <2>4, <3>1, <3>2 DEF OnPost, StartWrite
    <3> QED
      BY <2>2, <2>4, <3>1, <3>3 DEF WriteInv, OneWriteInFlight
  <2>6. CASE write_queue # << >>
    <3>1. in_flight' = in_flight
      BY <1>0, <1>2, <2>3, <2>6 DEF OnPost
    <3> QED
      BY <2>2, <2>4, <2>6, <3>1 DEF WriteInv, OneWriteInFlight
  <2> QED
    BY <2>5, <2>6
<1>3. CASE OnWritten
  <2>1. Handler("written")
    BY <1>3 DEF OnWritten
  <2>2. Waiting("written") /\ ~Waiting("written")' /\ Single("written")'
    BY <1>0, <2>1, ReadyTaken DEF WriteInv
  <2>3. in_flight = << >>
    BY <2>2 DEF WriteInv, OneWriteInFlight
  <2>4. \/ write_queue' = << >> /\ in_flight' = << >>
        \/ write_queue' # << >> /\ Len(in_flight') = 1 /\ in_flight'[1] = Head(write_queue')
    BY <1>3, <2>3 DEF OnWritten, StartWrite
  <2> QED
    BY <2>2, <2>4 DEF WriteInv, OneWriteInFlight
<1>4. CASE OnRead \/ OnError \/ OnSignal
  <2>1. PICK op \in {"read", "error", "signal"} :
            /\ Handler(op) /\ write_queue' = write_queue
            /\ in_flight' = in_flight \/ in_flight' = << >>
    BY <1>4 DEF OnRead, OnError, OnSignal
  <2>2. (Waiting("written")' <=> Waiting("written")) /\ (Single("written") => Single("written")')
    BY <1>0, <2>1, ReadyTaken
  <2> QED
    BY <2>1, <2>2 DEF WriteInv, OneWriteInFlight
<1>5. CASE DeviceTakes
  <2>1. /\ Ev("written") \in Event /\ Ev("written").op = "written"
        /\ ready' = Append(ready, Ev("written"))
        /\ in_flight # << >> /\ in_flight' = Tail(in_flight) /\ write_queue' = write_queue
    BY <1>5, EventOps DEF DeviceTakes
  <2>2. ~Waiting("written") /\ write_queue # << >> /\ in_flight' = << >>
    BY <1>0, <2>1 DEF WriteInv, OneWriteInFlight
  <2>3. Single("written")'
    BY <1>0, <2>1, <2>2, ReadyAdded DEF WriteInv
  <2> QED
    BY <2>1, <2>2, <2>3 DEF WriteInv, OneWriteInFlight
<1>6. CASE DeviceRefuses \/ DeviceSends \/ DeviceLeaves \/ Signal
  <2>1. PICK op \in {"read", "error", "signal"} :
            /\ Ev(op) \in Event /\ Ev(op).op = op /\ ready' = Append(ready, Ev(op))
            /\ write_queue' = write_queue
            /\ in_flight' = in_flight \/ (in_flight # << >> /\ in_flight' = Tail(in_flight))
    BY <1>6, EventOps DEF DeviceRefuses, DeviceSends, DeviceLeaves, Signal
  <2>2. (Waiting("written")' <=> Waiting("written")) /\ (Single("written") => Single("written")')
    BY <1>0, <2>1, ReadyAdded
  <2>3. in_flight' = in_flight \/ in_flight' = << >>
    BY <1>0, <2>1 DEF WriteInv, OneWriteInFlight
  <2> QED
    BY <2>1, <2>2, <2>3 DEF WriteInv, OneWriteInFlight
<1>7. ASSUME NEW s \in Senders, Write(s) PROVE WriteInv'
  <2>1. /\ Post(Frame(s)) \in Event /\ Post(Frame(s)).op = "post"
        /\ ready' = Append(ready, Post(Frame(s)))
        /\ write_queue' = write_queue /\ in_flight' = in_flight
    BY <1>7, FrameType, EventOps DEF Write
  <2>2. (Waiting("written")' <=> Waiting("written")) /\ (Single("written") => Single("written")')
    BY <1>0, <2>1, ReadyAdded
  <2> QED
    BY <2>1, <2>2 DEF WriteInv, OneWriteInFlight
<1>8. ASSUME NEW s \in Senders, ReadFlag(s) \/ ReadPointer(s) \/ WriteAstray(s)
      PROVE  WriteInv'
  <2>1. ready' = ready /\ write_queue' = write_queue /\ in_flight' = in_flight
    BY <1>8 DEF ReadFlag, ReadPointer, WriteAstray
  <2>2. (Waiting("written")' <=> Waiting("written")) /\ (Single("written")' <=> Single("written"))
    BY <2>1, ReadyKept
  <2> QED
    BY <2>1, <2>2 DEF WriteInv, OneWriteInFlight
<1>9. CASE UNCHANGED vars
  <2>1. ready' = ready /\ write_queue' = write_queue /\ in_flight' = in_flight
    BY <1>9
  <2>2. (Waiting("written")' <=> Waiting("written")) /\ (Single("written")' <=> Single("written"))
    BY <2>1, ReadyKept
  <2> QED
    BY <2>1, <2>2 DEF WriteInv, OneWriteInFlight
<1> QED
  BY <1>1, <1>2, <1>3, <1>4, <1>5, <1>6, <1>7, <1>8, <1>9
     DEF Next, Handlers, Device, Sending

----------------------------------------------------------------------------
\* ... the reasons for a chain's end, ...
LEMMA ChainStep ==
    ASSUME TypeOK, ChainInv, WriteInv, MainInv, SenderInv, [Next]_vars
    PROVE  ChainInv'
<1> USE DEF mainvars, readvars, writevars, vars
<1>0. ready \in Seq(Event) /\ write_queue \in Seq(AllFrames) /\ in_flight \in Seq(AllFrames)
  BY DEF TypeOK
<1>1. CASE Main
  <2>1. /\ ready' = ready /\ write_queue' = write_queue
        /\ io' \in {"start", "open", "publish", "run"} =>
               /\ in_flight' = in_flight /\ io \in {"start", "open", "publish", "run"}
               /\ reading' = reading \/ reading'
        /\ io' \in {"publish", "run"} => io \in {"publish", "run"} \/ reading'
    BY <1>1 DEF Main, Begin, OpenPort, OpenFails, Publish, RunReturns, ClearPointer,
       Destroy, Unwind, Exit
  <2>2. \A op \in {"read", "written", "error"} : Waiting(op)' <=> Waiting(op)
    BY <2>1, ReadyKept
  <2> QED
    BY <2>1, <2>2 DEF ChainInv
<1>2. CASE OnPost
  <2>1. Handler("post") /\ io' = io /\ reading' = reading
    BY <1>2 DEF OnPost
  <2>2. \A op \in {"read", "written", "error"} : Waiting(op)' <=> Waiting(op)
    BY <1>0, <2>1, ReadyTaken
  <2>3. write_queue = << >> => in_flight' # << >>
    BY <1>0, <1>2 DEF OnPost, StartWrite
  <2>4. in_flight # << >> => in_flight' # << >>
    BY <1>0, <1>2 DEF OnPost, StartWrite
  <2> QED
    BY <2>1, <2>2, <2>3, <2>4 DEF ChainInv
<1>3. CASE OnWritten
  <2>1. Handler("written") /\ io' = io /\ reading' = reading
    BY <1>3 DEF OnWritten
  <2>2. \A op \in {"read", "error"} : Waiting(op)' <=> Waiting(op)
    BY <1>0, <2>1, ReadyTaken
  <2>3. write_queue' # << >> => in_flight' # << >>
    BY <1>0, <1>3 DEF OnWritten, StartWrite
  <2> QED
    BY <2>1, <2>2, <2>3 DEF ChainInv
<1>4. CASE OnRead \/ OnSignal
  <2>1. PICK op \in {"read", "signal"} :
            /\ Handler(op) /\ io' = io /\ write_queue' = write_queue
            /\ in_flight' = in_flight /\ (reading' \/ (op = "signal" /\ reading' = reading))
    BY <1>4 DEF OnRead, OnSignal
  <2>2. \A other \in {"read", "written", "error"} :
            other # op => (Waiting(other)' <=> Waiting(other))
    BY <1>0, <2>1, ReadyTaken
  <2> QED
    BY <2>1, <2>2 DEF ChainInv
<1>5. CASE OnError
  BY <1>5 DEF OnError, ChainInv
<1>6. CASE Device \/ Signal
  <2>1. PICK op \in {"written", "read", "error", "signal"} :
            /\ Ev(op) \in Event /\ Ev(op).op = op /\ ready' = Append(ready, Ev(op))
            /\ io' = io /\ write_queue' = write_queue
            /\ reading' = reading \/ op \in {"read", "error"}
            /\ in_flight' = in_flight \/ op \in {"written", "error"}
    BY <1>6, EventOps DEF Device, DeviceTakes, DeviceRefuses, DeviceSends, DeviceLeaves, Signal
  <2>2. \A other \in {"read", "written", "error"} :
            Waiting(other)' <=> Waiting(other) \/ op = other
    BY <1>0, <2>1, ReadyAdded
  <2> QED
    BY <2>1, <2>2 DEF ChainInv
<1>7. ASSUME NEW s \in Senders, Write(s) PROVE ChainInv'
  <2>1. /\ Post(Frame(s)) \in Event /\ Post(Frame(s)).op = "post"
        /\ ready' = Append(ready, Post(Frame(s))) /\ io' = io /\ reading' = reading
        /\ write_queue' = write_queue /\ in_flight' = in_flight
    BY <1>7, FrameType, EventOps DEF Write
  <2>2. \A op \in {"read", "written", "error"} : Waiting(op)' <=> Waiting(op)
    BY <1>0, <2>1, ReadyAdded
  <2> QED
    BY <2>1, <2>2 DEF ChainInv
<1>8. ASSUME NEW s \in Senders, ReadFlag(s) \/ ReadPointer(s) \/ WriteAstray(s)
      PROVE  ChainInv'
  <2>1. /\ ready' = ready /\ write_queue' = write_queue /\ in_flight' = in_flight
        /\ io' \in {io, "exited"} /\ reading' = reading
    BY <1>8 DEF ReadFlag, ReadPointer, WriteAstray
  <2>2. \A op \in {"read", "written", "error"} : Waiting(op)' <=> Waiting(op)
    BY <2>1, ReadyKept
  <2> QED
    BY <2>1, <2>2 DEF ChainInv
<1>9. CASE UNCHANGED vars
  <2>1. /\ ready' = ready /\ write_queue' = write_queue /\ in_flight' = in_flight
        /\ io' = io /\ reading' = reading
    BY <1>9
  <2>2. \A op \in {"read", "written", "error"} : Waiting(op)' <=> Waiting(op)
    BY <2>1, ReadyKept
  <2> QED
    BY <2>1, <2>2 DEF ChainInv
<1> QED
  BY <1>1, <1>2, <1>3, <1>4, <1>5, <1>6, <1>7, <1>8, <1>9 DEF Next, Handlers, Sending

----------------------------------------------------------------------------
\* ... and where the senders are.
LEMMA SenderStep ==
    ASSUME TypeOK, SenderInv, [Next]_vars
    PROVE  SenderInv'
<1> USE DEF sendervars, vars
<1>0. /\ submitted \in Seq(AllFrames) /\ sent \in [Senders -> 0 .. SendMax]
      /\ sender \in [Senders -> {"idle", "flag", "write"}]
  BY DEF TypeOK
<1>1. ASSUME UNCHANGED sendervars PROVE SenderInv'
  BY <1>1 DEF SenderInv
<1>2. CASE Main \/ Handlers \/ Device \/ Signal \/ UNCHANGED vars
  <2>1. UNCHANGED sendervars
    BY <1>2 DEF Main, Begin, OpenPort, OpenFails, Publish, RunReturns, ClearPointer,
       Destroy, Unwind, Exit, Handlers, OnPost, OnWritten, OnRead, OnError, OnSignal,
       Device, DeviceTakes, DeviceRefuses, DeviceSends, DeviceLeaves, Signal
  <2> QED
    BY <2>1, <1>1
<1>3. ASSUME NEW s \in Senders, ReadFlag(s) \/ ReadPointer(s) \/ WriteAstray(s)
      PROVE  SenderInv'
  <2>1. /\ submitted' = submitted /\ sent[s] < SendMax
        /\ \/ sent' = sent /\ \E pc : Goto(s, pc)
           \/ Returns(s)
    BY <1>0, <1>3 DEF ReadFlag, ReadPointer, WriteAstray, SenderInv
  <2>2. \A r \in Senders \ {s} : sender'[r] = sender[r] /\ sent'[r] = sent[r]
    BY <1>0, <2>1 DEF Goto, Returns
  <2>3. sent'[s] = sent[s] \/ (sent'[s] = sent[s] + 1 /\ sender'[s] = "idle")
    BY <1>0, <2>1 DEF Goto, Returns
  <2>4. \A k \in DOMAIN submitted : submitted[k][1] \in Senders /\ submitted[k][2] \in Int
    BY <1>0, BoundAssumption DEF AllFrames
  <2>5. \A r \in Senders : sent'[r] \in Int /\ sent[r] \in Int /\ sent[r] <= sent'[r]
    BY <1>0, <2>2, <2>3, BoundAssumption
  <2>6. \A r \in Senders : sender'[r] # "idle" => sent'[r] < SendMax
    BY <2>1, <2>2, <2>3 DEF SenderInv
  <2>7. \A k \in DOMAIN submitted : submitted[k][2] < sent'[submitted[k][1]]
    BY <2>4, <2>5 DEF SenderInv
  <2> QED
    BY <2>1, <2>6, <2>7 DEF SenderInv
<1>4. ASSUME NEW s \in Senders, Write(s) PROVE SenderInv'
  <2> DEFINE n == Len(submitted)
  <2>1. /\ submitted' = Append(submitted, Frame(s)) /\ Returns(s) /\ sender[s] # "idle"
    BY <1>4 DEF Write
  <2>2. Frame(s) \in AllFrames /\ Frame(s)[1] = s /\ Frame(s)[2] = sent[s]
    BY <2>1, FrameType
  <2>3. \A r \in Senders \ {s} : sender'[r] = sender[r] /\ sent'[r] = sent[r]
    BY <1>0, <2>1 DEF Goto, Returns
  <2>4. sent'[s] = sent[s] + 1 /\ sender'[s] = "idle"
    BY <1>0, <2>1 DEF Goto, Returns
  <2>5. /\ n \in Nat /\ DOMAIN submitted = 1 .. n /\ DOMAIN submitted' = 1 .. n + 1
        /\ \A k \in 1 .. n : submitted'[k] = submitted[k]
        /\ submitted'[n + 1] = Frame(s)
    BY <1>0, <2>1, <2>2
  <2>6. \A k \in 1 .. n : /\ submitted[k][1] \in Senders /\ submitted[k][2] \in Int
                          /\ submitted[k][2] < sent[submitted[k][1]]
    BY <1>0, BoundAssumption DEF AllFrames, SenderInv
  <2>7. \A r \in Senders : sent'[r] \in Int /\ sent[r] \in Int /\ sent[r] <= sent'[r]
    BY <1>0, <2>3, <2>4, BoundAssumption
  <2>8. \A r \in Senders : sender'[r] # "idle" => sent'[r] < SendMax
    BY <2>3, <2>4 DEF SenderInv
  <2>9. \A k \in DOMAIN submitted' : submitted'[k][2] < sent'[submitted'[k][1]]
    <3>1. submitted'[n + 1][2] < sent'[submitted'[n + 1][1]]
      BY <2>2, <2>4, <2>5, <2>7
    <3>2. \A k \in 1 .. n : submitted'[k][2] < sent'[submitted'[k][1]]
      BY <2>5, <2>6, <2>7
    <3> QED
      BY <2>5, <3>1, <3>2
  <2>10. ASSUME NEW j \in DOMAIN submitted', NEW k \in DOMAIN submitted',
                j < k, submitted'[j][1] = submitted'[k][1]
         PROVE  submitted'[j][2] < submitted'[k][2]
    <3>1. CASE k = n + 1
      BY <2>2, <2>5, <2>6, <2>10, <3>1
    <3>2. CASE k # n + 1
      BY <2>5, <2>10, <3>2 DEF SenderInv
    <3> QED
      BY <3>1, <3>2
  <2> QED
    BY <2>8, <2>9, <2>10 DEF SenderInv
<1> QED
  BY <1>2, <1>3, <1>4 DEF Next, Sending

----------------------------------------------------------------------------
\* The closures still to run, and the frames they carry.
Posts == {Post(f) : f \in AllFrames}
FramesOf(posts) == [k \in DOMAIN posts |-> posts[k].frame]

\* The frames of posts are frames, ...
LEMMA FramesType ==
    ASSUME NEW posts \in Seq(Event \cap Posts)
    PROVE  /\ FramesOf(posts) \in Seq(AllFrames) /\ Len(FramesOf(posts)) = Len(posts)
           /\ \A k \in 1 .. Len(posts) : FramesOf(posts)[k] = posts[k].frame
<1>1. /\ Len(posts) \in Nat /\ DOMAIN posts = 1 .. Len(posts)
      /\ \A k \in 1 .. Len(posts) : posts[k] \in Posts
  BY LenProperties, ElementOfSeq
<1>2. \A k \in 1 .. Len(posts) : posts[k].frame \in AllFrames
  BY <1>1, EventOps DEF Posts
<1>3. FramesOf(posts) \in [1 .. Len(posts) -> AllFrames]
  BY <1>1, <1>2 DEF FramesOf
<1> QED
  BY <1>1, <1>3 DEF FramesOf

\* ... one more for a post more, ...
LEMMA FramesAppend ==
    ASSUME NEW posts \in Seq(Event \cap Posts), NEW f \in AllFrames
    PROVE  FramesOf(Append(posts, Post(f))) = Append(FramesOf(posts), f)
<1> DEFINE more == Append(posts, Post(f))
<1>1. Post(f) \in Event \cap Posts /\ Post(f).frame = f
  BY EventOps DEF Posts
<1>2. /\ more \in Seq(Event \cap Posts) /\ Len(more) = Len(posts) + 1
      /\ \A k \in 1 .. Len(posts) : more[k] = posts[k]
      /\ more[Len(posts) + 1] = Post(f)
  BY <1>1, AppendProperties
<1> HIDE DEF more
<1>3. /\ FramesOf(more) \in Seq(AllFrames) /\ Len(FramesOf(more)) = Len(posts) + 1
      /\ \A k \in 1 .. Len(posts) : FramesOf(more)[k] = posts[k].frame
      /\ FramesOf(more)[Len(posts) + 1] = f
  <2>1. Len(posts) \in Nat
    BY LenProperties
  <2> QED BY <1>1, <1>2, <2>1, FramesType
<1>4. /\ FramesOf(posts) \in Seq(AllFrames) /\ Len(FramesOf(posts)) = Len(posts)
      /\ \A k \in 1 .. Len(posts) : FramesOf(posts)[k] = posts[k].frame
  BY FramesType
<1>5. /\ Append(FramesOf(posts), f) \in Seq(AllFrames)
      /\ Len(Append(FramesOf(posts), f)) = Len(posts) + 1
      /\ \A k \in 1 .. Len(posts) : Append(FramesOf(posts), f)[k] = posts[k].frame
      /\ Append(FramesOf(posts), f)[Len(posts) + 1] = f
  BY <1>4, AppendProperties
<1> HIDE DEF FramesOf
<1>6. \A k \in 1 .. Len(posts) + 1 : FramesOf(more)[k] = Append(FramesOf(posts), f)[k]
  <2>1. Len(posts) \in Nat
    BY LenProperties
  <2> QED BY <1>3, <1>5, <2>1
<1>7. FramesOf(more) = Append(FramesOf(posts), f)
  BY <1>3, <1>5, <1>6, SeqEqual
<1> QED
  BY <1>7 DEF more

\* ... wherever it is put.
LEMMA FramesConcat ==
    ASSUME NEW posts \in Seq(Event \cap Posts), NEW f \in AllFrames
    PROVE  FramesOf(<<Post(f)>> \o posts) = <<f>> \o FramesOf(posts)
<1> DEFINE more == <<Post(f)>> \o posts
           both == <<f>> \o FramesOf(posts)
<1>1. Post(f) \in Event \cap Posts /\ Post(f).frame = f /\ Len(posts) \in Nat
  BY EventOps, LenProperties DEF Posts
<1>2. /\ more \in Seq(Event \cap Posts) /\ Len(more) = Len(posts) + 1
      /\ more[1] = Post(f) /\ \A k \in 1 .. Len(posts) : more[k + 1] = posts[k]
  BY <1>1, NewFirst
<1> HIDE DEF more
<1>3. /\ FramesOf(more) \in Seq(AllFrames) /\ Len(FramesOf(more)) = Len(posts) + 1
      /\ \A k \in 1 .. Len(posts) + 1 : FramesOf(more)[k] = more[k].frame
  BY <1>1, <1>2, FramesType
<1>4. /\ FramesOf(posts) \in Seq(AllFrames) /\ Len(FramesOf(posts)) = Len(posts)
      /\ \A k \in 1 .. Len(posts) : FramesOf(posts)[k] = posts[k].frame
  BY FramesType
<1>5. /\ both \in Seq(AllFrames) /\ Len(both) = Len(posts) + 1
      /\ both[1] = f /\ \A k \in 1 .. Len(posts) : both[k + 1] = FramesOf(posts)[k]
  BY <1>4, NewFirst
<1> HIDE DEF both
<1>6. ASSUME NEW k \in 1 .. Len(posts) + 1 PROVE FramesOf(more)[k] = both[k]
  <2>1. CASE k = 1
    BY <1>1, <1>2, <1>3, <1>5, <2>1
  <2>2. CASE k # 1
    <3>1. PICK i \in 1 .. Len(posts) : k = i + 1
      <4>1. k - 1 \in 1 .. Len(posts) /\ k = (k - 1) + 1
        BY <1>1, <2>2
      <4> QED BY <4>1
    <3>2. FramesOf(more)[i + 1] = posts[i].frame /\ both[i + 1] = posts[i].frame
      BY <1>1, <1>2, <1>3, <1>4, <1>5
    <3> QED BY <3>1, <3>2
  <2> QED BY <2>1, <2>2
<1>7. FramesOf(more) = both
  BY <1>3, <1>5, <1>6, SeqEqual
<1> QED
  BY <1>7 DEF more, both

\* The frames posted are those of the posts among the ready handlers, ...
LEMMA PostedIs == Posted = FramesOf(Selected(ready, Posts))
BY DEF Posted, FramesOf, Posts

\* ... which are frames, ...
LEMMA PostedType ==
    ASSUME ready \in Seq(Event)
    PROVE  Posted \in Seq(AllFrames)
BY SelectedType, FramesType, PostedIs

\* ... one more when a post is added, ...
LEMMA PostedAdded ==
    ASSUME ready \in Seq(Event), NEW e \in Event, ready' = Append(ready, e)
    PROVE  Posted' = IF e.op = "post" THEN Append(Posted, e.frame) ELSE Posted
<1>1. Selected(ready, Posts) \in Seq(Event \cap Posts)
  BY SelectedType
<1>2. Selected(ready', Posts) = IF e \in Posts THEN Append(Selected(ready, Posts), e)
                                               ELSE Selected(ready, Posts)
  BY SelectedAppend
<1>3. e.op = "post" => e.frame \in AllFrames /\ e = Post(e.frame)
  BY EventOps
<1>4. e \in Posts <=> e.op = "post"
  BY <1>3, EventOps DEF Posts
<1>5. Posted' = FramesOf(Selected(ready', Posts))
  BY DEF Posted, FramesOf, Posts
<1>6. CASE e.op = "post"
  <2>1. FramesOf(Append(Selected(ready, Posts), Post(e.frame)))
            = Append(FramesOf(Selected(ready, Posts)), e.frame)
    BY <1>1, <1>3, <1>6, FramesAppend
  <2> QED
    BY <1>2, <1>3, <1>4, <1>5, <1>6, <2>1, PostedIs
<1>7. CASE e.op # "post"
  BY <1>2, <1>4, <1>5, <1>7, PostedIs
<1> QED
  BY <1>6, <1>7

\* ... and one less when one is taken.
LEMMA PostedTaken ==
    ASSUME ready \in Seq(Event), NEW op, Handler(op)
    PROVE  Posted = IF op = "post" THEN <<Head(ready).frame>> \o Posted' ELSE Posted'
<1> DEFINE e == Head(ready)
<1>1. ready # << >> /\ e.op = op /\ ready' = Tail(ready) /\ e \in Event
      /\ ready' \in Seq(Event)
  BY DEF Handler
<1> HIDE DEF e
<1>2. Selected(ready', Posts) \in Seq(Event \cap Posts)
  BY <1>1, SelectedType
<1>3. Selected(ready, Posts) = (IF e \in Posts THEN <<e>> ELSE << >>) \o Selected(ready', Posts)
  BY <1>1, SelectedTail DEF e
<1>4. op = "post" => e.frame \in AllFrames /\ e = Post(e.frame)
  BY <1>1, EventOps
<1>5. e \in Posts <=> op = "post"
  BY <1>1, <1>4, EventOps DEF Posts
<1>6. Posted' = FramesOf(Selected(ready', Posts))
  BY DEF Posted, FramesOf, Posts
<1>7. CASE op = "post"
  <2>1. FramesOf(<<Post(e.frame)>> \o Selected(ready', Posts))
            = <<e.frame>> \o FramesOf(Selected(ready', Posts))
    BY <1>2, <1>4, <1>7, FramesConcat
  <2> QED
    BY <1>3, <1>4, <1>5, <1>6, <1>7, <2>1, PostedIs DEF e
<1>8. CASE op # "post"
  <2>1. Selected(ready, Posts) = Selected(ready', Posts)
    BY <1>2, <1>3, <1>5, <1>8, ConcatEmptySeq
  <2> QED
    BY <1>6, <1>8, <2>1, PostedIs
<1> QED
  BY <1>7, <1>8

\* What is on its way to the device is a sequence of frames.
LEMMA OnTheWayType ==
    ASSUME TypeOK, WriteInv
    PROVE  /\ transmitted \in Seq(AllFrames) /\ write_queue \in Seq(AllFrames)
           /\ Unwritten \in Seq(AllFrames) /\ Posted \in Seq(AllFrames)
BY PostedType DEF TypeOK, WriteInv, Unwritten

\* Frames stay where they are, between the device, the queue and the closures.
LEMMA NothingMoves ==
    ASSUME NothingLost, submitted' = submitted, transmitted' = transmitted,
           Unwritten' = Unwritten, Posted' = Posted
    PROVE  NothingLost'
BY DEF NothingLost

\* No step loses a frame or takes one twice.
LEMMA LostStep ==
    ASSUME TypeOK, WriteInv, SenderInv, NothingLost, [Next]_vars
    PROVE  NothingLost'
<1> USE DEF writevars, sendervars, vars
<1>0. ready \in Seq(Event)
  BY DEF TypeOK
<1>1. CASE UNCHANGED <<ready, write_queue, transmitted, submitted>>
  <2>1. Waiting("written")' <=> Waiting("written")
    BY <1>1, ReadyKept
  <2>2. Unwritten' = Unwritten /\ Posted' = Posted
    BY <1>1, <2>1 DEF Unwritten, Posted
  <2> QED
    BY <1>1, <2>2, NothingMoves
<1>2. CASE OnPost
  <2> DEFINE f == Head(ready).frame
  <2>1. /\ Handler("post") /\ f \in AllFrames
        /\ write_queue' = Append(write_queue, f)
        /\ submitted' = submitted /\ transmitted' = transmitted
    BY <1>0, <1>2, EventOps DEF OnPost, Handler
  <2> HIDE DEF f
  <2>2. Waiting("written")' <=> Waiting("written")
    BY <1>0, <2>1, ReadyTaken
  <2>3. Unwritten' = Append(Unwritten, f)
    BY <2>1, <2>2, OnTheWayType, HeadTailAppend DEF Unwritten, WriteInv
  <2>4. Posted = <<f>> \o Posted'
    BY <1>0, <2>1, PostedTaken DEF f
  <2>5. Posted' \in Seq(AllFrames)
    <3>1. ready' \in Seq(Event)
      BY <1>0, <2>1 DEF Handler
    <3>2. Selected(ready', Posts) \in Seq(Event \cap Posts)
      BY <3>1, SelectedType
    <3> QED
      BY <3>2, FramesType DEF Posted, FramesOf, Posts
  <2> DEFINE P == Posted'
             T == transmitted
             U == Unwritten
  <2>6. P \in Seq(AllFrames) /\ T \in Seq(AllFrames) /\ U \in Seq(AllFrames) /\ f \in AllFrames
    BY <2>1, <2>5, OnTheWayType
  <2>7. submitted = (T \o U) \o (<<f>> \o P) /\ Unwritten' = Append(U, f)
    BY <2>3, <2>4 DEF NothingLost
  <2>8. NothingLost' <=> submitted = (T \o Append(U, f)) \o P
    BY <2>1, <2>3 DEF NothingLost
  <2> HIDE DEF P, T, U
  <2>9. Append(T \o U, f) = T \o Append(U, f)
    BY <2>6, AppendToConcat
  <2> DEFINE TU == T \o U
  <2>10. TU \in Seq(AllFrames)
    BY <2>6
  <2> HIDE DEF TU
  <2>11. Append(TU, f) \o P = TU \o (<<f>> \o P)
    BY <2>6, <2>10, MoveToFirst
  <2> QED
    BY <2>7, <2>8, <2>9, <2>11 DEF TU
<1>3. CASE OnWritten
  <2>1. /\ Handler("written") /\ write_queue' = Tail(write_queue)
        /\ submitted' = submitted /\ transmitted' = transmitted
    BY <1>3 DEF OnWritten
  <2>2. Waiting("written") /\ ~Waiting("written")'
    BY <1>0, <2>1, ReadyTaken DEF WriteInv
  <2>3. Unwritten' = Unwritten
    BY <2>1, <2>2 DEF Unwritten
  <2>4. Posted' = Posted
    BY <1>0, <2>1, PostedTaken
  <2> QED
    BY <2>1, <2>3, <2>4, NothingMoves
<1>4. CASE OnRead \/ OnError \/ OnSignal
  <2>1. PICK op \in {"read", "error", "signal"} :
            /\ Handler(op) /\ write_queue' = write_queue
            /\ submitted' = submitted /\ transmitted' = transmitted
    BY <1>4 DEF OnRead, OnError, OnSignal
  <2>2. Waiting("written")' <=> Waiting("written")
    BY <1>0, <2>1, ReadyTaken
  <2>3. Unwritten' = Unwritten /\ Posted' = Posted
    BY <1>0, <2>1, <2>2, PostedTaken DEF Unwritten
  <2> QED
    BY <2>1, <2>3, NothingMoves
<1>5. CASE DeviceTakes
  <2>1. /\ Ev("written") \in Event /\ Ev("written").op = "written"
        /\ ready' = Append(ready, Ev("written"))
        /\ in_flight # << >> /\ write_queue' = write_queue /\ submitted' = submitted
        /\ transmitted' = Append(transmitted, in_flight[1])
    BY <1>5, EventOps DEF DeviceTakes, TypeOK
  <2>2. /\ ~Waiting("written") /\ write_queue # << >> /\ in_flight[1] = Head(write_queue)
    BY <2>1 DEF WriteInv, OneWriteInFlight
  <2>3. Waiting("written")'
    BY <1>0, <2>1, ReadyAdded
  <2>4. Unwritten = write_queue /\ Unwritten' = Tail(write_queue)
    BY <2>1, <2>2, <2>3 DEF Unwritten
  <2>5. Posted' = Posted
    BY <1>0, <2>1, PostedAdded
  <2> DEFINE h == Head(write_queue)
             r == Tail(write_queue)
  <2>6. h \in AllFrames /\ r \in Seq(AllFrames) /\ transmitted \in Seq(AllFrames)
        /\ write_queue = <<h>> \o r
    BY <2>2, OnTheWayType, HeadTailProperties, HeadThenTail
  <2>7. submitted = transmitted \o write_queue \o Posted
    BY <2>4 DEF NothingLost
  <2>8. NothingLost' <=> submitted = (Append(transmitted, h) \o r) \o Posted
    BY <2>1, <2>2, <2>4, <2>5 DEF NothingLost
  <2> HIDE DEF h, r
  <2>9. Append(transmitted, h) \o r = transmitted \o (<<h>> \o r)
    BY <2>6, MoveToFirst
  <2> QED
    BY <2>6, <2>7, <2>8, <2>9
<1>6. CASE DeviceRefuses \/ DeviceSends \/ DeviceLeaves \/ Signal
  <2>1. PICK op \in {"read", "error", "signal"} :
            /\ Ev(op) \in Event /\ Ev(op).op = op /\ ready' = Append(ready, Ev(op))
            /\ write_queue' = write_queue
            /\ submitted' = submitted /\ transmitted' = transmitted
    BY <1>6, EventOps DEF DeviceRefuses, DeviceSends, DeviceLeaves, Signal
  <2>2. Waiting("written")' <=> Waiting("written")
    BY <1>0, <2>1, ReadyAdded
  <2>3. Unwritten' = Unwritten /\ Posted' = Posted
    BY <1>0, <2>1, <2>2, PostedAdded DEF Unwritten
  <2> QED
    BY <2>1, <2>3, NothingMoves
<1>7. ASSUME NEW s \in Senders, Write(s) PROVE NothingLost'
  <2> DEFINE f == Frame(s)
  <2>1. /\ f \in AllFrames /\ Post(f) \in Event /\ Post(f).op = "post" /\ Post(f).frame = f
        /\ ready' = Append(ready, Post(f)) /\ submitted' = Append(submitted, f)
        /\ write_queue' = write_queue /\ transmitted' = transmitted
    BY <1>7, FrameType, EventOps DEF Write
  <2> HIDE DEF f
  <2>2. Waiting("written")' <=> Waiting("written")
    BY <1>0, <2>1, ReadyAdded
  <2>3. Unwritten' = Unwritten
    BY <2>1, <2>2 DEF Unwritten
  <2>4. Posted' = Append(Posted, f)
    BY <1>0, <2>1, PostedAdded
  <2> DEFINE TU == transmitted \o Unwritten
             P == Posted
  <2>5. TU \in Seq(AllFrames) /\ P \in Seq(AllFrames)
    BY OnTheWayType
  <2>6. submitted = TU \o P
    BY DEF NothingLost
  <2>7. NothingLost' <=> Append(submitted, f) = TU \o Append(P, f)
    BY <2>1, <2>3, <2>4 DEF NothingLost
  <2> HIDE DEF TU, P
  <2>8. f \in AllFrames
    BY <2>1
  <2>9. Append(TU \o P, f) = TU \o Append(P, f)
    BY <2>5, <2>8, AppendToConcat
  <2> QED
    BY <2>6, <2>7, <2>9
<1>8. ASSUME Main \/ UNCHANGED vars \/
             \E s \in Senders : ReadFlag(s) \/ ReadPointer(s) \/ WriteAstray(s)
      PROVE  UNCHANGED <<ready, write_queue, transmitted, submitted>>
  BY <1>8 DEF Main, Begin, OpenPort, OpenFails, Publish, RunReturns, ClearPointer,
     Destroy, Unwind, Exit, ReadFlag, ReadPointer, WriteAstray
<1> QED
  BY <1>1, <1>2, <1>3, <1>4, <1>5, <1>6, <1>7, <1>8 DEF Next, Handlers, Device, Sending

----------------------------------------------------------------------------
\* The invariant holds at the start ...
LEMMA IInvInit == Init => IInv
<1> SUFFICES ASSUME Init PROVE IInv
  OBVIOUS
<1>1. /\ << >> \in Seq(Event) /\ << >> \in Seq(AllFrames) /\ Len(<< >>) = 0
  BY EmptySeq
<1>2. TypeOK
  <2>1. 0 \in 0 .. ReadMax /\ 0 \in 0 .. SendMax
    BY BoundAssumption
  <2>2. /\ sender \in [Senders -> {"idle", "flag", "write"}]
        /\ sent \in [Senders -> 0 .. SendMax]
    BY <2>1 DEF Init
  <2>3. /\ ready \in Seq(Event) /\ write_queue \in Seq(AllFrames)
        /\ in_flight \in Seq(AllFrames) /\ submitted \in Seq(AllFrames)
        /\ transmitted \in Seq(AllFrames)
    BY <1>1 DEF Init
  <2> QED
    BY <2>1, <2>2, <2>3 DEF Init, TypeOK
<1>3. \A op : ~Waiting(op) /\ Single(op)
  <2>1. DOMAIN ready = {}
    BY <1>1 DEF Init
  <2> QED
    BY <2>1 DEF Waiting, Single
<1>4. MainInv /\ ReadInv /\ ChainInv
  BY <1>3 DEF Init, MainInv, ReadInv, ChainInv
<1>5. WriteInv
  BY <1>3, <1>1 DEF Init, WriteInv, OneWriteInFlight
<1>6. SenderInv
  BY <1>1 DEF Init, SenderInv
<1>7. NothingLost
  <2>1. Selected(ready, Posts) = << >>
    BY SelectedEmpty DEF Init
  <2>2. Posted = << >>
    BY <2>1, PostedIs DEF FramesOf
  <2>3. Unwritten = << >>
    BY <1>3 DEF Init, Unwritten
  <2> QED
    BY <2>2, <2>3 DEF Init, NothingLost
<1> QED
  BY <1>2, <1>4, <1>5, <1>6, <1>7 DEF IInv

\* ... and every step keeps it.
LEMMA IInvStep == IInv /\ [Next]_vars => IInv'
BY TypeStep, MainStep, ReadStep, WriteStep, ChainStep, SenderStep, LostStep DEF IInv

----------------------------------------------------------------------------
\* For the programs around: the process may end from outside of
\* main_common_init, ...
Exits == /\ io' = "exited"
         /\ UNCHANGED <<can_use_serial, g_serial, alive, stopped, ready, readvars,
                        writevars, sendervars, signalled>>

\* ... which keeps the invariant.
LEMMA ExitKeeps == IInv /\ Exits => IInv'
<1> SUFFICES ASSUME IInv, Exits PROVE IInv'
  OBVIOUS
<1>1. /\ ready' = ready /\ Unwritten' = Unwritten /\ Posted' = Posted
      /\ transmitted' = transmitted /\ submitted' = submitted
  BY DEF Exits, writevars, sendervars, Unwritten, Posted, Waiting
<1>2. NothingLost'
  BY <1>1, NothingMoves DEF IInv
<1>3. TypeOK'
  BY DEF Exits, IInv, TypeOK, readvars, writevars, sendervars
<1>4. MainInv' /\ ReadInv' /\ WriteInv' /\ ChainInv' /\ SenderInv'
  BY DEF Exits, IInv, MainInv, ReadInv, WriteInv, ChainInv, SenderInv,
         OneWriteInFlight, Waiting, Single, readvars, writevars, sendervars
<1> QED
  BY <1>2, <1>3, <1>4 DEF IInv

\* A port that is open is seen by all threads.
FlagInv ==
    /\ io \in {"start", "open", "publish", "run"} /\ ~stopped => can_use_serial
    /\ io = "run" => g_serial

\* Every step keeps it, and what is before the loop stays so.
LEMMA FlagStep ==
    ASSUME FlagInv, [Next]_vars \/ Exits
    PROVE  FlagInv' /\ (io' \in {"start", "open", "publish"} => io \in {"start", "open", "publish"})
<1> USE DEF mainvars, FlagInv
<1>1. CASE Exits
  BY <1>1 DEF Exits
<1>2. CASE UNCHANGED vars
  BY <1>2 DEF vars
<1>3. CASE Begin \/ OpenPort \/ OpenFails \/ Publish \/ RunReturns \/ ClearPointer
             \/ Destroy \/ Unwind \/ Exit
  BY <1>3 DEF Begin, OpenPort, OpenFails, Publish, RunReturns, ClearPointer, Destroy,
              Unwind, Exit
<1>4. CASE Handlers
  BY <1>4 DEF Handlers, Handler, OnPost, OnWritten, OnRead, OnError, OnSignal
<1>5. CASE Device \/ Signal
  BY <1>5 DEF Device, DeviceTakes, DeviceRefuses, DeviceSends, DeviceLeaves, Signal
<1>6. CASE \E s \in Senders : Sending(s)
  BY <1>6 DEF Sending, ReadFlag, ReadPointer, Write, WriteAstray
<1> QED
  BY <1>1, <1>2, <1>3, <1>4, <1>5, <1>6 DEF Next, Main

----------------------------------------------------------------------------
\* The inductive invariant holds of every state that the program reaches.
THEOREM Invariance == SafeSpec => []IInv
BY IInvInit, IInvStep, PTL DEF SafeSpec

\* Types, and a global pointer that never dangles before an exception ends
\* the process.
THEOREM TypeCorrect == SafeSpec => []TypeOK
<1>1. IInv => TypeOK
  BY DEF IInv
<1> QED
  BY <1>1, Invariance, PTL

\* Two writes never overlap on the port, whatever the senders do.
THEOREM WritesDoNotOverlap == SafeSpec => []OneWriteInFlight
<1>1. IInv => OneWriteInFlight
  BY DEF IInv, WriteInv
<1> QED
  BY <1>1, Invariance, PTL

\* The port never falls silent while the program runs: a read is always on
\* its way, and a write whenever frames wait.
THEOREM ChainsHold == SafeSpec => []ChainsUnbroken
<1>1. IInv => ChainsUnbroken
  BY DEF IInv, ChainInv, ChainsUnbroken
<1> QED
  BY <1>1, Invariance, PTL

\* Every frame a sender has posted is with the device, in the queue or in a
\* closure still to run, once and in the order posted.
THEOREM FramesAreKept == SafeSpec => []NothingLost
<1>1. IInv => NothingLost
  BY DEF IInv
<1> QED
  BY <1>1, Invariance, PTL

\* What the device has got is what was posted first.
LEMMA DeviceGetsFirst ==
    ASSUME IInv
    PROVE  /\ transmitted \in Seq(AllFrames) /\ submitted \in Seq(AllFrames)
           /\ Len(transmitted) \in Nat /\ Len(submitted) \in Nat
           /\ Len(transmitted) <= Len(submitted)
           /\ \A k \in 1 .. Len(transmitted) : submitted[k] = transmitted[k]
<1> DEFINE T == transmitted
           rest == Unwritten \o Posted
<1>1. TypeOK /\ WriteInv /\ NothingLost
  BY DEF IInv
<1>2. T \in Seq(AllFrames) /\ Unwritten \in Seq(AllFrames) /\ Posted \in Seq(AllFrames)
  BY <1>1, OnTheWayType
<1>3. submitted = T \o rest
  BY <1>1, <1>2, ConcatAssociative DEF NothingLost
<1>4. rest \in Seq(AllFrames)
  BY <1>2
<1> HIDE DEF rest
<1> QED
  BY <1>2, <1>3, <1>4, ConcatProperties, LenProperties
=============================================================================
