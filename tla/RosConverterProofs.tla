------------------------- MODULE RosConverterProofs -------------------------
(***************************************************************************)
(* The safety properties of RosConverter hold for any topics, depth of the *)
(* subscriptions and range of counts, whenever the context is shut down.   *)
(***************************************************************************)
EXTENDS RosConverter, SerialIoProofs

----------------------------------------------------------------------------
\* The inductive invariant, on top of that of SerialIo.

\* Where main is, the loop, the spinning thread and the handle.
ProgramInv ==
    /\ program \in {"init", "handle", "serial", "shutdown", "joined", "returned"}
    /\ spinner \in {"none", "spinning", "callback", "ended"}
    /\ program \in {"init", "handle"} => spinner = "none" /\ io \in {"start", "exited"}
    /\ program \in {"shutdown", "joined", "returned"} => io \in {"done", "exited"}
    /\ program \in {"joined", "returned"} => spinner = "ended"
    /\ program \in {"handle", "serial", "shutdown", "joined"} => s_self

\* The spinning thread sends one command after another, each once.
Counts == 0 .. (CntRange - 1)
Command1 == [topic : Topics, number : Nat, open : BOOLEAN, cnt : Counts]
TakenInv ==
    /\ commanded \in Nat /\ g_tx_cnt \in Counts
    /\ inbox \in [Topics -> Seq(1 .. commanded)]
    /\ taken \in Seq(Command1)
    /\ \A s \in Senders : Len(taken) = sent[s] + (IF spinner = "callback" THEN 1 ELSE 0)
    /\ \A s \in Senders : sender[s] # "idle" => spinner = "callback"

\* A port that is open is seen by all threads, and was not open before.
OpenInv ==
    /\ FlagInv
    /\ io \in {"start", "open", "publish"} => \A k \in DOMAIN taken : ~taken[k].open
    /\ NoCommandSwallowed

\* Commands wait in the order they were published in, behind those taken.
Increasing(q) == \A j, k \in DOMAIN q : j < k => q[j] < q[k]
OrderInv ==
    /\ \A t \in Topics : Increasing(inbox[t])
    /\ \A t \in Topics : \A k \in DOMAIN taken :
           taken[k].topic = t => \A j \in DOMAIN inbox[t] : taken[k].number < inbox[t][j]
    /\ \A k \in DOMAIN taken : taken[k].number <= commanded
    /\ \A j, k \in DOMAIN taken :
           j < k /\ taken[j].topic = taken[k].topic => taken[j].number < taken[k].number

\* Each command taken gets the count after the last one's.
CountInv ==
    /\ \A k \in 1 .. (Len(taken) - 1) : taken[k + 1].cnt = NextCount(taken[k].cnt)
    /\ taken # << >> => g_tx_cnt = NextCount(taken[Len(taken)].cnt)

\* What the flag and the pointer tell of where the main thread is.
PointerInv ==
    /\ io \in {"start", "open", "publish"} =>
           ~g_serial /\ submitted = << >> /\ \A s \in Senders : sender[s] # "write"
    /\ io \in {"run", "throw", "catch"} => g_serial
    /\ io \in {"clear", "destroy", "done"} => ~can_use_serial

\* No call that comes to nothing is followed by one that posts its frame: once
\* one has been posted, the next is as well, or none is any more.
Shut(s) == ~alive \/ (~can_use_serial /\ sender[s] = "idle")
CallsInv ==
    /\ \A k \in 1 .. (Len(submitted) - 1) : submitted[k + 1][2] = submitted[k][2] + 1
    /\ submitted # << >> => \A s \in Senders :
           submitted[Len(submitted)][2] + 1 = sent[s] \/ Shut(s)

RosInv == IInv /\ ProgramInv /\ TakenInv /\ OpenInv /\ OrderInv /\ CountInv
            /\ PointerInv /\ CallsInv

----------------------------------------------------------------------------
\* The steps of SerialIo, and what happens to them here.

\* A step of the converter is one of the port's owner, or ends the process.
LEMMA StepKinds ==
    ASSUME [RosNext]_allvars
    PROVE  [Next]_vars \/ Exits
BY DEF RosNext, MainThread, SpinThread, Port, Construct, ConstructThrows, StartSpin,
       InMainCommon, OnData, Shutdown, Join, ReturnMain, SpinEnds, Callback, EarlySignal,
       LateSignal, Command, Take, Next, Handlers, Exits, allvars

\* So it keeps the invariant of SerialIo.
LEMMA IInvKept ==
    ASSUME IInv, [RosNext]_allvars
    PROVE  IInv'
BY StepKinds, IInvStep, ExitKeeps

\* The port opens once, when no frame is in the making.
LEMMA PortStep ==
    ASSUME [Next]_vars \/ Exits
    PROVE  PortOpen' => PortOpen \/ (io = "publish" /\ UNCHANGED <<sent, submitted>>)
<1> USE DEF mainvars, sendervars
<1>1. CASE Exits
  BY <1>1 DEF Exits, PortOpen
<1>2. CASE UNCHANGED vars
  BY <1>2 DEF vars, PortOpen
<1>3. CASE Begin \/ OpenPort \/ OpenFails \/ Publish \/ RunReturns \/ ClearPointer
             \/ Destroy \/ Unwind \/ Exit
  BY <1>3 DEF Begin, OpenPort, OpenFails, Publish, RunReturns, ClearPointer, Destroy,
              Unwind, Exit, PortOpen
<1>4. CASE Handlers
  BY <1>4 DEF Handlers, Handler, OnPost, OnWritten, OnRead, OnError, OnSignal, PortOpen
<1>5. CASE Device \/ Signal
  BY <1>5 DEF Device, DeviceTakes, DeviceRefuses, DeviceSends, DeviceLeaves, Signal, PortOpen
<1>6. CASE \E s \in Senders : Sending(s)
  BY <1>6 DEF Sending, ReadFlag, ReadPointer, Write, WriteAstray, PortOpen
<1> QED
  BY <1>1, <1>2, <1>3, <1>4, <1>5, <1>6 DEF Next, Main

\* Only the callback of the spinning thread sends.
Sends == \E s \in Senders : Callback(s)
Takes == \E s \in Senders, t \in Topics : Take(s, t)
Commands == \E t \in Topics : Command(t)

\* But for the callbacks, the commands and their delivery nothing touches a command.
LEMMA OthersKeep ==
    ASSUME [RosNext]_allvars, ~Sends, ~Takes, ~Commands
    PROVE  /\ UNCHANGED <<commanded, inbox, g_tx_cnt, taken, sender, sent, submitted>>
           /\ ProgramInv => (spinner' = "callback" <=> spinner = "callback")
<1> USE DEF mainvars, sendervars, inros, outros, mainros, rosvars
<1>1. CASE UNCHANGED allvars
  BY <1>1 DEF allvars, vars
<1>2. CASE InMainCommon
  BY <1>2 DEF InMainCommon, Main, Begin, OpenPort, OpenFails, Publish, RunReturns,
              ClearPointer, Destroy, Unwind, Exit, OnPost, OnWritten, OnError, OnSignal
<1>3. CASE \E chunk \in Pieces : OnData(chunk)
  BY <1>3 DEF OnData, OnRead
<1>4. CASE Port
  BY <1>4 DEF Port, Device, DeviceTakes, DeviceRefuses, DeviceSends, DeviceLeaves, Signal
<1>5. CASE Construct \/ ConstructThrows \/ StartSpin \/ Shutdown \/ Join \/ ReturnMain
             \/ SpinEnds \/ EarlySignal \/ LateSignal
  BY <1>5 DEF Construct, ConstructThrows, StartSpin, Shutdown, Join, ReturnMain, SpinEnds,
              EarlySignal, LateSignal, At, vars, ProgramInv
<1> QED
  BY <1>1, <1>2, <1>3, <1>4, <1>5
     DEF RosNext, MainThread, SpinThread, Sends, Takes, Commands

----------------------------------------------------------------------------
\* Where main and the spin thread are stays consistent, ...
LEMMA ProgramStep ==
    ASSUME ProgramInv, [RosNext]_allvars
    PROVE  ProgramInv'
<1> USE DEF ProgramInv, mainvars, sendervars, inros, outros, mainros, rosvars
<1>1. CASE UNCHANGED allvars
  BY <1>1 DEF allvars, vars
<1>2. CASE InMainCommon
  <2>1. UNCHANGED rosvars /\ program = "serial"
    BY <1>2 DEF InMainCommon
  <2> QED
    BY <2>1
<1>3. CASE \E chunk \in Pieces : OnData(chunk)
  BY <1>3 DEF OnData, OnRead
<1>4. CASE Port
  BY <1>4 DEF Port, Device, DeviceTakes, DeviceRefuses, DeviceSends, DeviceLeaves, Signal
<1>5. CASE Construct \/ ConstructThrows \/ StartSpin \/ Shutdown \/ Join \/ ReturnMain
             \/ SpinEnds \/ EarlySignal \/ LateSignal
  BY <1>5 DEF Construct, ConstructThrows, StartSpin, Shutdown, Join, ReturnMain, SpinEnds,
              EarlySignal, LateSignal, At, vars
<1>6. CASE Sends
  <2>1. PICK s \in Senders : Callback(s)
    BY <1>6 DEF Sends
  <2>2. /\ spinner = "callback" /\ spinner' \in {"spinning", "callback"}
        /\ UNCHANGED mainros /\ io' \in {io, "exited"}
    BY <2>1 DEF Callback, Sending, ReadFlag, ReadPointer, Write, WriteAstray
  <2> QED
    BY <2>2
<1>7. CASE Takes \/ Commands
  BY <1>7 DEF Takes, Commands, Take, Command, vars
<1> QED
  BY <1>1, <1>2, <1>3, <1>4, <1>5, <1>6, <1>7
     DEF RosNext, MainThread, SpinThread, Sends, Takes, Commands

----------------------------------------------------------------------------
\* A step of the callback: the sender goes on, or returns and has counted.
LEMMA CallbackStep ==
    ASSUME TypeOK, NEW s \in Senders, Callback(s)
    PROVE  /\ spinner = "callback" /\ UNCHANGED <<commanded, inbox, g_tx_cnt, taken>>
           /\ Senders = {s}
           /\ \/ /\ sender' = [sender EXCEPT ![s] = "flag"] \/ sender' = [sender EXCEPT ![s] = "write"]
                 /\ UNCHANGED sent /\ spinner' = "callback"
              \/ /\ sender' = [sender EXCEPT ![s] = "idle"] /\ spinner' = "spinning"
                 /\ sent' = [sent EXCEPT ![s] = @ + 1]
<1>1. Senders = {s}
  BY SpinnerAssumption
<1>2. sender \in [Senders -> {"idle", "flag", "write"}]
  BY DEF TypeOK
<1>3. /\ spinner = "callback" /\ UNCHANGED <<commanded, inbox, g_tx_cnt, taken>>
      /\ spinner' = IF sender'[s] = "idle" THEN "spinning" ELSE "callback"
  BY DEF Callback, inros
<1>4. \/ (Goto(s, "flag") \/ Goto(s, "write")) /\ UNCHANGED sent
      \/ Returns(s)
  BY DEF Callback, Sending, ReadFlag, ReadPointer, Write, WriteAstray
<1> QED
  BY <1>1, <1>2, <1>3, <1>4 DEF Goto, Returns

\* After a count comes a count.
LEMMA NextIsCount == \A n \in Counts : NextCount(n) \in Counts
BY CountAssumption DEF Counts, NextCount

\* ... so do the commands taken and the sender's calls, ...
LEMMA TakenStep ==
    ASSUME TypeOK, ProgramInv, TakenInv, [RosNext]_allvars
    PROVE  TakenInv'
<1>0. /\ sender \in [Senders -> {"idle", "flag", "write"}] /\ sent \in [Senders -> 0 .. SendMax]
      /\ \A s \in Senders : sent[s] \in Nat
      /\ g_tx_cnt \in Counts
  BY BoundAssumption DEF TypeOK, TakenInv
<1>1. CASE Sends
  <2>1. PICK s \in Senders : Callback(s)
    BY <1>1 DEF Sends
  <2>2. /\ spinner = "callback" /\ UNCHANGED <<commanded, inbox, g_tx_cnt, taken>> /\ Senders = {s}
        /\ \/ /\ sender' = [sender EXCEPT ![s] = "flag"] \/ sender' = [sender EXCEPT ![s] = "write"]
              /\ UNCHANGED sent /\ spinner' = "callback"
           \/ /\ sender' = [sender EXCEPT ![s] = "idle"] /\ spinner' = "spinning"
              /\ sent' = [sent EXCEPT ![s] = @ + 1]
    BY <2>1, CallbackStep
  <2> QED
    BY <1>0, <2>2 DEF TakenInv
<1>2. CASE Takes
  <2>1. PICK s \in Senders, t \in Topics : Take(s, t)
    BY <1>2 DEF Takes
  <2> DEFINE q == inbox[t]
             rest == Tail(q)
             new == [topic |-> t, number |-> Head(q), open |-> PortOpen,
                     cnt |-> g_tx_cnt]
  <2>2. /\ spinner = "spinning" /\ spinner' = "callback" /\ q # << >>
        /\ inbox' = [inbox EXCEPT ![t] = rest] /\ taken' = Append(taken, new)
        /\ commanded' = commanded /\ UNCHANGED <<sender, sent>>
        /\ g_tx_cnt' \in Counts
    BY <1>0, <2>1, NextIsCount DEF Take, vars, sendervars
  <2>3. /\ q \in Seq(1 .. commanded) /\ commanded \in Nat
        /\ inbox \in [Topics -> Seq(1 .. commanded)] /\ taken \in Seq(Command1)
    BY DEF TakenInv
  <2>4. rest \in Seq(1 .. commanded) /\ Head(q) \in Nat
    <3> HIDE DEF q
    <3> QED
      BY <2>2, <2>3, HeadTailProperties
  <2>5. new \in Command1
    BY <1>0, <2>4 DEF Command1, PortOpen
  <2> HIDE DEF new, rest
  <2>6. taken' \in Seq(Command1) /\ Len(taken') = Len(taken) + 1
    BY <2>2, <2>3, <2>5, AppendProperties
  <2>7. inbox' \in [Topics -> Seq(1 .. commanded)]
    BY <2>2, <2>3, <2>4
  <2> QED
    BY <1>0, <2>2, <2>3, <2>6, <2>7 DEF TakenInv
<1>3. CASE Commands
  <2>1. PICK t \in Topics : Command(t)
    BY <1>3 DEF Commands
  <2> DEFINE q == Append(inbox[t], commanded')
             new == IF Len(q) > Depth THEN Tail(q) ELSE q
  <2>2. /\ commanded' = commanded + 1 /\ inbox' = [inbox EXCEPT ![t] = new]
        /\ UNCHANGED <<spinner, g_tx_cnt, taken, sender, sent>>
    BY <2>1 DEF Command, vars, sendervars
  <2>3. /\ commanded \in Nat /\ commanded' \in 1 .. commanded'
        /\ inbox \in [Topics -> Seq(1 .. commanded)]
    BY <2>2 DEF TakenInv
  <2>4. \A u \in Topics : inbox[u] \in Seq(1 .. commanded')
    <3>1. 1 .. commanded \subseteq 1 .. commanded'
      BY <2>2, <2>3
    <3> QED
      BY <2>3, <3>1, SeqMonotonic
  <2>5. q \in Seq(1 .. commanded') /\ q # << >>
    <3>1. inbox[t] \in Seq(1 .. commanded')
      BY <2>4
    <3> QED
      BY <2>3, <3>1, AppendProperties
  <2>6. new \in Seq(1 .. commanded')
    <3> HIDE DEF q
    <3> QED
      BY <2>5, HeadTailProperties
  <2>7. inbox' \in [Topics -> Seq(1 .. commanded')]
    <3> HIDE DEF new
    <3>1. \A u \in Topics : inbox'[u] = IF u = t THEN new ELSE inbox[u]
      BY <2>2, <2>3
    <3> QED
      BY <2>2, <2>3, <2>4, <2>6, <3>1
  <2> QED
    BY <2>2, <2>3, <2>7 DEF TakenInv
<1>4. CASE ~Sends /\ ~Takes /\ ~Commands
  <2>1. /\ UNCHANGED <<commanded, inbox, g_tx_cnt, taken, sender, sent>>
        /\ spinner' = "callback" <=> spinner = "callback"
    BY <1>4, OthersKeep
  <2> QED
    BY <2>1 DEF TakenInv
<1> QED
  BY <1>1, <1>2, <1>3, <1>4

----------------------------------------------------------------------------
\* While the port is open a callback that returns has handed over its command.
LEMMA CallbackSends ==
    ASSUME TypeOK, MainInv, SenderInv, OpenInv, NEW s \in Senders, Callback(s),
           PortOpen, sent' # sent
    PROVE  submitted' = Append(submitted, Frame(s))
<1>1. can_use_serial /\ g_serial /\ alive /\ io = "run"
  BY DEF OpenInv, FlagInv, PortOpen, MainInv
<1>2. Write(s) \/ sent' = sent
  BY <1>1 DEF Callback, Sending, ReadFlag, ReadPointer, WriteAstray
<1> QED
  BY <1>2 DEF Write

\* ... and what was open stays open as long as it should.
LEMMA OpenStep ==
    ASSUME TypeOK, MainInv, SenderInv, ProgramInv, TakenInv, OpenInv, [RosNext]_allvars
    PROVE  OpenInv'
<1>0. /\ sent \in [Senders -> 0 .. SendMax] /\ submitted \in Seq(AllFrames)
      /\ \A s \in Senders : sent[s] \in Nat
      /\ taken \in Seq(Command1) /\ Len(taken) \in Nat /\ DOMAIN taken = 1 .. Len(taken)
      /\ \A s \in Senders : Len(taken) = sent[s] + (IF spinner = "callback" THEN 1 ELSE 0)
  BY BoundAssumption DEF TypeOK, TakenInv
<1>1. /\ FlagInv'
      /\ io' \in {"start", "open", "publish"} => io \in {"start", "open", "publish"}
      /\ PortOpen' => PortOpen \/ (io = "publish" /\ UNCHANGED <<sent, submitted>>)
  BY StepKinds, FlagStep, PortStep DEF OpenInv
<1>2. /\ Len(taken') \in Nat /\ DOMAIN taken' = 1 .. Len(taken') /\ Len(taken) <= Len(taken')
      /\ \A k \in DOMAIN taken : taken'[k] = taken[k]
      /\ io \in {"start", "open", "publish"} =>
             \A k \in DOMAIN taken' : k \notin DOMAIN taken => ~taken'[k].open
  <2>1. CASE Takes
    <3>1. PICK s \in Senders, t \in Topics : Take(s, t)
      BY <2>1 DEF Takes
    <3> DEFINE new == [topic |-> t, number |-> Head(inbox[t]), open |-> PortOpen,
                      cnt |-> g_tx_cnt]
    <3>2. taken' = Append(taken, new) /\ new.open = PortOpen
      BY <3>1 DEF Take
    <3>3. io \in {"start", "open", "publish"} => ~PortOpen
      BY DEF PortOpen
    <3> HIDE DEF new
    <3>4. /\ Len(taken') = Len(taken) + 1 /\ DOMAIN taken' = 1 .. Len(taken) + 1
          /\ \A k \in 1 .. Len(taken) : taken'[k] = taken[k]
          /\ taken'[Len(taken) + 1] = new
      BY <1>0, <3>2
    <3> QED
      BY <1>0, <3>2, <3>3, <3>4
  <2>2. CASE ~Takes
    <3>1. taken' = taken
      <4>1. CASE Sends
        BY <4>1 DEF Sends, Callback, inros
      <4>2. CASE Commands
        BY <4>2 DEF Commands, Command
      <4> QED
        BY <2>2, <4>1, <4>2, OthersKeep
    <3> QED
      BY <1>0, <3>1
  <2> QED
    BY <2>1, <2>2
<1>3. io' \in {"start", "open", "publish"} => \A k \in DOMAIN taken' : ~taken'[k].open
  BY <1>1, <1>2 DEF OpenInv
<1>4. NoCommandSwallowed'
  <2> SUFFICES ASSUME PortOpen', NEW s \in Senders, NEW k \in 1 .. sent'[s], taken'[k].open
               PROVE  \E j \in DOMAIN submitted' : submitted'[j] = <<s, k - 1>>
    BY DEF NoCommandSwallowed
  <2>1. CASE io = "publish" /\ UNCHANGED <<sent, submitted>>
    <3>1. k \in DOMAIN taken
      BY <1>0, <2>1
    <3> QED
      BY <1>2, <2>1, <3>1 DEF OpenInv
  <2>2. CASE PortOpen /\ k \in 1 .. sent[s]
    <3>1. k \in DOMAIN taken /\ taken[k].open
      <4>1. k \in DOMAIN taken
        BY <1>0, <2>2
      <4>2. taken'[k] = taken[k]
        BY <1>2, <4>1
      <4> QED
        BY <4>1, <4>2
    <3>2. PICK j \in DOMAIN submitted : submitted[j] = <<s, k - 1>>
      BY <2>2, <3>1 DEF OpenInv, NoCommandSwallowed
    <3>3. j \in DOMAIN submitted' /\ submitted'[j] = submitted[j]
      <4>1. submitted' = submitted \/ \E f \in AllFrames : submitted' = Append(submitted, f)
        <5>1. CASE Sends
          <6>1. PICK r \in Senders : Callback(r)
            BY <5>1 DEF Sends
          <6>2. submitted' = submitted \/ (sender[r] = "write" /\ submitted' = Append(submitted, Frame(r)))
            BY <6>1 DEF Callback, Sending, ReadFlag, ReadPointer, Write, WriteAstray
          <6> QED
            BY <6>2, FrameType
        <5>2. CASE Commands \/ Takes
          BY <5>2 DEF Commands, Takes, Command, Take, vars, sendervars
        <5> QED
          BY <5>1, <5>2, OthersKeep
      <4>2. ASSUME NEW f \in AllFrames, submitted' = Append(submitted, f)
            PROVE  j \in DOMAIN submitted' /\ submitted'[j] = submitted[j]
        BY <1>0, <4>2
      <4> QED
        BY <4>1, <4>2
    <3> QED
      BY <3>2, <3>3
  <2>3. CASE PortOpen /\ k \notin 1 .. sent[s]
    <3>1. sent' # sent
      BY <2>3
    <3>2. PICK r \in Senders : Callback(r)
      <4>1. Sends
        <5>1. CASE Commands \/ Takes
          BY <3>1, <5>1 DEF Commands, Takes, Command, Take, vars, sendervars
        <5> QED
          BY <3>1, <5>1, OthersKeep
      <4> QED
        BY <4>1 DEF Sends
    <3>3. Senders = {r} /\ r = s /\ sent' = [sent EXCEPT ![s] = @ + 1]
      BY <3>1, <3>2, CallbackStep
    <3>4. k = sent[s] + 1
      BY <1>0, <2>3, <3>3
    <3>5. submitted' = Append(submitted, Frame(s))
      BY <2>3, <3>1, <3>2, <3>3, CallbackSends
    <3>6. /\ Len(submitted) + 1 \in DOMAIN submitted'
          /\ submitted'[Len(submitted) + 1] = Frame(s)
      BY <1>0, <3>5
    <3>7. Frame(s) = <<s, k - 1>>
      BY <1>0, <3>4 DEF Frame
    <3> QED
      BY <3>6, <3>7
  <2> QED
    BY <1>1, <2>1, <2>2, <2>3
<1> QED
  BY <1>1, <1>3, <1>4 DEF OpenInv

----------------------------------------------------------------------------
\* What follows the first of rising numbers rises and is above it.
LEMMA TailRises ==
    ASSUME NEW n, NEW q \in Seq(1 .. n), q # << >>, Increasing(q)
    PROVE  /\ Increasing(Tail(q)) /\ Head(q) \in 1 .. n
           /\ \A j \in DOMAIN Tail(q) : /\ Head(q) < Tail(q)[j] /\ j + 1 \in DOMAIN q
                                        /\ Tail(q)[j] = q[j + 1]
           /\ 1 \in DOMAIN q /\ q[1] = Head(q)
<1> DEFINE r == Tail(q)
<1>1. /\ Len(q) \in Nat \ {0} /\ DOMAIN q = 1 .. Len(q) /\ Head(q) = q[1]
      /\ r \in Seq(1 .. n) /\ Len(r) = Len(q) - 1 /\ DOMAIN r = 1 .. Len(q) - 1
      /\ \A j \in 1 .. Len(q) - 1 : r[j] = q[j + 1]
  OBVIOUS
<1> HIDE DEF r
<1>2. \A j \in DOMAIN r : j + 1 \in DOMAIN q /\ 1 < j + 1 /\ r[j] = q[j + 1]
  BY <1>1
<1>3. 1 \in DOMAIN q /\ Head(q) \in 1 .. n
  <2>1. 1 \in 1 .. Len(q)
    BY <1>1
  <2>2. q[1] \in 1 .. n
    BY <2>1, ElementOfSeq
  <2> QED
    BY <1>1, <2>1, <2>2
<1>4. \A j \in DOMAIN r : Head(q) < r[j]
  BY <1>1, <1>2, <1>3 DEF Increasing
<1>5. Increasing(r)
  <2> SUFFICES ASSUME NEW j \in DOMAIN r, NEW k \in DOMAIN r, j < k PROVE r[j] < r[k]
    BY DEF Increasing
  <2>1. j + 1 < k + 1
    BY <1>1
  <2> QED
    BY <1>2, <2>1 DEF Increasing
<1> QED
  BY <1>1, <1>2, <1>3, <1>4, <1>5 DEF r

\* A number above all is appended.
LEMMA AppendRises ==
    ASSUME NEW n \in Nat, NEW q \in Seq(1 .. n), Increasing(q), NEW e \in Nat, n < e
    PROVE  /\ Increasing(Append(q, e))
           /\ \A j \in DOMAIN Append(q, e) : Append(q, e)[j] = e \/ (j \in DOMAIN q /\ Append(q, e)[j] = q[j])
<1> DEFINE r == Append(q, e)
<1>1. /\ Len(q) \in Nat /\ DOMAIN q = 1 .. Len(q) /\ DOMAIN r = 1 .. Len(q) + 1
      /\ \A j \in 1 .. Len(q) : r[j] = q[j] /\ q[j] \in 1 .. n
      /\ r[Len(q) + 1] = e
  <2>1. /\ Len(q) \in Nat /\ DOMAIN q = 1 .. Len(q) /\ \A j \in 1 .. Len(q) : q[j] \in 1 .. n
    BY LenProperties, ElementOfSeq
  <2>2. q \in Seq(Nat)
    <3>1. 1 .. n \subseteq Nat
      OBVIOUS
    <3> QED
      BY <3>1, SeqMonotonic
  <2>3. /\ r \in Seq(Nat) /\ Len(r) = Len(q) + 1 /\ r[Len(q) + 1] = e
        /\ \A j \in 1 .. Len(q) : r[j] = q[j]
    BY <2>2, AppendProperties
  <2> HIDE DEF r
  <2> QED
    BY <2>1, <2>3, LenProperties
<1> HIDE DEF r
<1>2. Increasing(r)
  BY <1>1 DEF Increasing
<1>3. \A j \in DOMAIN r : r[j] = e \/ (j \in DOMAIN q /\ r[j] = q[j])
  BY <1>1
<1> QED
  BY <1>2, <1>3 DEF r

\* A command put in its topic's queue is younger than all before it.
LEMMA CommandKeepsOrder ==
    ASSUME TakenInv, OrderInv, NEW t \in Topics, Command(t)
    PROVE  OrderInv'
<1> DEFINE q == inbox[t]
           e == commanded'
           more == Append(q, e)
           new == IF Len(more) > Depth THEN Tail(more) ELSE more
<1>1. commanded' = commanded + 1 /\ inbox' = [inbox EXCEPT ![t] = new] /\ taken' = taken
  BY DEF Command
<1>2. /\ commanded \in Nat /\ e \in Nat /\ commanded < e /\ q \in Seq(1 .. commanded)
      /\ inbox \in [Topics -> Seq(1 .. commanded)] /\ Increasing(q)
      /\ taken \in Seq(Command1)
  BY <1>1 DEF TakenInv, OrderInv
<1>3. \A k \in DOMAIN taken : taken[k].number \in Nat /\ taken[k].number < e
  <2>1. \A k \in DOMAIN taken : taken[k] \in Command1
    BY <1>2
  <2> QED
    BY <1>2, <2>1 DEF OrderInv, Command1
<1> HIDE DEF q, e
<1>4. /\ Increasing(more)
      /\ \A j \in DOMAIN more : more[j] = e \/ (j \in DOMAIN q /\ more[j] = q[j])
  BY <1>2, AppendRises
<1>5. more \in Seq(1 .. e) /\ more # << >>
  <2>1. q \in Seq(1 .. e) /\ e \in 1 .. e
    <3>1. 1 .. commanded \subseteq 1 .. e
      BY <1>2
    <3>2. e \in 1 .. e
      BY <1>2
    <3> QED
      BY <1>2, <3>1, <3>2, SeqMonotonic
  <2> QED
    BY <2>1, AppendProperties
<1> HIDE DEF more
<1>6. /\ Increasing(new)
      /\ \A j \in DOMAIN new : new[j] = e \/ \E i \in DOMAIN q : new[j] = q[i]
  <2>1. CASE Len(more) > Depth
    <3>1. /\ Increasing(Tail(more))
          /\ \A j \in DOMAIN Tail(more) : j + 1 \in DOMAIN more /\ Tail(more)[j] = more[j + 1]
      BY <1>4, <1>5, TailRises
    <3>2. new = Tail(more)
      BY <2>1
    <3> HIDE DEF new
    <3> QED
      BY <1>4, <3>1, <3>2
  <2>2. CASE ~(Len(more) > Depth)
    <3>1. new = more
      BY <2>2
    <3> HIDE DEF new
    <3> QED
      BY <1>4, <3>1
  <2> QED
    BY <2>1, <2>2
<1> HIDE DEF new
<1>7. \A u \in Topics : inbox'[u] = IF u = t THEN new ELSE inbox[u]
  BY <1>1, <1>2
<1>8. \A u \in Topics : Increasing(inbox'[u])
  BY <1>6, <1>7 DEF OrderInv
<1>9. ASSUME NEW u \in Topics, NEW k \in DOMAIN taken, taken[k].topic = u,
             NEW j \in DOMAIN inbox'[u]
      PROVE  taken[k].number < inbox'[u][j]
  <2>1. CASE u = t
    <3>1. inbox'[u] = new
      BY <1>7, <2>1
    <3>2. new[j] = e \/ \E i \in DOMAIN q : new[j] = q[i]
      BY <1>6, <1>9, <3>1
    <3>3. \A i \in DOMAIN q : taken[k].number < q[i]
      BY <1>9, <2>1 DEF OrderInv, q
    <3> QED
      BY <1>3, <3>1, <3>2, <3>3
  <2>2. CASE u # t
    BY <1>7, <1>9, <2>2 DEF OrderInv
  <2> QED
    BY <2>1, <2>2
<1>10. \A k \in DOMAIN taken : taken[k].number <= e
  BY <1>2, <1>3
<1> QED
  BY <1>1, <1>8, <1>9, <1>10 DEF OrderInv, e

\* A command taken is the oldest of its topic.
LEMMA TakeKeepsOrder ==
    ASSUME TakenInv, OrderInv, NEW s \in Senders, NEW t \in Topics, Take(s, t)
    PROVE  OrderInv'
<1> DEFINE q == inbox[t]
           rest == Tail(q)
           h == Head(q)
           new == [topic |-> t, number |-> h, open |-> PortOpen, cnt |-> g_tx_cnt]
           n == Len(taken)
<1>1. /\ q # << >> /\ inbox' = [inbox EXCEPT ![t] = rest] /\ taken' = Append(taken, new)
      /\ commanded' = commanded /\ new.topic = t /\ new.number = h
  BY DEF Take
<1>2. /\ commanded \in Nat /\ q \in Seq(1 .. commanded) /\ Increasing(q)
      /\ inbox \in [Topics -> Seq(1 .. commanded)] /\ taken \in Seq(Command1)
  BY DEF TakenInv, OrderInv
<1> HIDE DEF q, new
<1>3. /\ Increasing(rest) /\ h \in 1 .. commanded
      /\ \A j \in DOMAIN rest : h < rest[j] /\ j + 1 \in DOMAIN q /\ rest[j] = q[j + 1]
      /\ 1 \in DOMAIN q /\ q[1] = h
  BY <1>1, <1>2, TailRises
<1> HIDE DEF rest, h
<1>4. \A u \in Topics : inbox'[u] = IF u = t THEN rest ELSE inbox[u]
  BY <1>1, <1>2
<1>5. /\ n \in Nat /\ DOMAIN taken = 1 .. n /\ DOMAIN taken' = 1 .. n + 1
      /\ \A k \in 1 .. n : taken'[k] = taken[k]
      /\ taken'[n + 1] = new
  BY <1>1, <1>2
<1> HIDE DEF n
<1>6. \A u \in Topics : Increasing(inbox'[u])
  BY <1>3, <1>4 DEF OrderInv
<1>7. \A k \in 1 .. n : taken[k].topic = t => \A j \in DOMAIN q : taken[k].number < q[j]
  BY <1>5 DEF OrderInv, q
<1>8. ASSUME NEW u \in Topics, NEW k \in DOMAIN taken', taken'[k].topic = u,
             NEW j \in DOMAIN inbox'[u]
      PROVE  taken'[k].number < inbox'[u][j]
  <2>1. CASE k = n + 1
    <3>1. u = t /\ inbox'[u] = rest /\ taken'[k].number = h
      BY <1>1, <1>4, <1>5, <1>8, <2>1
    <3> QED
      BY <1>3, <1>8, <3>1
  <2>2. CASE k \in 1 .. n /\ u = t
    <3>1. inbox'[u] = rest /\ taken'[k] = taken[k] /\ taken[k].topic = t
      BY <1>4, <1>5, <1>8, <2>2
    <3>2. j + 1 \in DOMAIN q /\ rest[j] = q[j + 1]
      BY <1>3, <1>8, <3>1
    <3> QED
      BY <1>7, <2>2, <3>1, <3>2
  <2>3. CASE k \in 1 .. n /\ u # t
    BY <1>4, <1>5, <1>8, <2>3 DEF OrderInv
  <2> QED
    BY <1>5, <2>1, <2>2, <2>3
<1>9. \A k \in DOMAIN taken' : taken'[k].number <= commanded
  <2>1. \A k \in 1 .. n : taken[k].number <= commanded
    BY <1>5 DEF OrderInv
  <2> QED
    BY <1>1, <1>2, <1>3, <1>5, <2>1
<1>10. ASSUME NEW j \in DOMAIN taken', NEW k \in DOMAIN taken', j < k,
              taken'[j].topic = taken'[k].topic
       PROVE  taken'[j].number < taken'[k].number
  <2>1. CASE k = n + 1
    <3>1. j \in 1 .. n /\ taken[j].topic = t /\ taken'[j] = taken[j] /\ taken'[k].number = h
      BY <1>1, <1>5, <1>10, <2>1
    <3> QED
      BY <1>3, <1>7, <3>1
  <2>2. CASE k \in 1 .. n
    <3>1. j \in 1 .. n
      BY <1>5, <1>10, <2>2
    <3> QED
      BY <1>5, <1>10, <2>2, <3>1 DEF OrderInv
  <2> QED
    BY <1>5, <2>1, <2>2
<1> QED
  BY <1>1, <1>6, <1>8, <1>9, <1>10 DEF OrderInv

\* The order within a topic is kept by every step.
LEMMA OrderStep ==
    ASSUME TypeOK, TakenInv, OrderInv, [RosNext]_allvars
    PROVE  OrderInv'
<1>1. CASE Commands
  BY <1>1, CommandKeepsOrder DEF Commands
<1>2. CASE Takes
  BY <1>2, TakeKeepsOrder DEF Takes
<1>3. CASE ~Commands /\ ~Takes
  <2>1. UNCHANGED <<commanded, inbox, g_tx_cnt, taken>>
    <3>1. CASE Sends
      BY <3>1, CallbackStep DEF Sends
    <3> QED
      BY <1>3, <3>1, OthersKeep
  <2> QED
    BY <2>1 DEF OrderInv
<1> QED
  BY <1>1, <1>2, <1>3

----------------------------------------------------------------------------
\* The counts go on with every command taken, ...
LEMMA CountStep ==
    ASSUME TypeOK, ProgramInv, TakenInv, CountInv, [RosNext]_allvars
    PROVE  CountInv'
<1>1. CASE Takes
  <2>1. PICK s \in Senders, t \in Topics : Take(s, t)
    BY <1>1 DEF Takes
  <2> DEFINE new == [topic |-> t, number |-> Head(inbox[t]), open |-> PortOpen,
                     cnt |-> g_tx_cnt]
  <2>2. taken' = Append(taken, new) /\ new.cnt = g_tx_cnt /\ g_tx_cnt' = NextCount(g_tx_cnt)
    BY <2>1 DEF Take
  <2>3. taken \in Seq(Command1) /\ Len(taken) \in Nat
    BY DEF TakenInv
  <2> HIDE DEF new
  <2>4. /\ Len(taken') = Len(taken) + 1 /\ taken' # << >>
        /\ \A k \in 1 .. Len(taken) : taken'[k] = taken[k]
        /\ taken'[Len(taken) + 1] = new
    BY <2>2, <2>3
  <2>5. ASSUME NEW k \in 1 .. Len(taken)
        PROVE  taken'[k + 1].cnt = NextCount(taken'[k].cnt)
    <3>1. CASE k = Len(taken)
      <4>1. taken # << >>
        BY <2>3, <3>1
      <4> QED
        BY <2>2, <2>4, <3>1, <4>1 DEF CountInv
    <3>2. CASE k # Len(taken)
      <4>1. k \in 1 .. (Len(taken) - 1) /\ k + 1 \in 1 .. Len(taken)
        BY <2>3, <3>2
      <4> QED
        BY <2>4, <4>1 DEF CountInv
    <3> QED
      BY <3>1, <3>2
  <2>6. /\ g_tx_cnt' = NextCount(taken'[Len(taken')].cnt)
        /\ 1 .. (Len(taken') - 1) = 1 .. Len(taken)
    BY <2>2, <2>3, <2>4
  <2> QED
    BY <2>4, <2>5, <2>6 DEF CountInv
<1>2. CASE ~Takes
  <2>1. UNCHANGED <<g_tx_cnt, taken>>
    <3>1. CASE Sends
      BY <3>1, CallbackStep DEF Sends
    <3>2. CASE Commands
      BY <3>2 DEF Commands, Command
    <3> QED
      BY <1>2, <3>1, <3>2, OthersKeep
  <2> QED
    BY <2>1 DEF CountInv
<1> QED
  BY <1>1, <1>2

\* ... the pointer and the flag go with the main thread, ...
LEMMA PointerStep ==
    ASSUME TypeOK, PointerInv, [RosNext]_allvars
    PROVE  PointerInv'
<1> USE DEF mainvars, sendervars, PointerInv
<1>0. [Next]_vars \/ Exits
  BY StepKinds
<1>1. CASE Exits
  BY <1>1 DEF Exits
<1>2. CASE UNCHANGED vars
  BY <1>2 DEF vars
<1>3. CASE Begin \/ OpenPort \/ OpenFails \/ Publish \/ RunReturns \/ ClearPointer
             \/ Destroy \/ Unwind \/ Exit
  BY <1>3 DEF Begin, OpenPort, OpenFails, Publish, RunReturns, ClearPointer, Destroy,
              Unwind, Exit
<1>4. CASE Handlers
  BY <1>4 DEF Handlers, Handler, OnPost, OnWritten, OnRead, OnError, OnSignal
<1>5. CASE Device \/ Signal
  BY <1>5 DEF Device, DeviceTakes, DeviceRefuses, DeviceSends, DeviceLeaves, Signal
<1>6. CASE \E s \in Senders : Sending(s)
  <2>1. PICK s \in Senders : Sending(s)
    BY <1>6
  <2>2. sender \in [Senders -> {"idle", "flag", "write"}]
    BY DEF TypeOK
  <2> QED
    BY <2>1, <2>2 DEF Sending, ReadFlag, ReadPointer, Write, WriteAstray, Goto, Returns
<1> QED
  BY <1>0, <1>1, <1>2, <1>3, <1>4, <1>5, <1>6 DEF Next, Main

\* ... so that the posted frames are those of calls without a gap.
LEMMA CallsStep ==
    ASSUME TypeOK, MainInv, PointerInv, CallsInv, [RosNext]_allvars
    PROVE  CallsInv'
<1> USE DEF mainvars, sendervars
<1>0. [Next]_vars \/ Exits
  BY StepKinds
<1>a. /\ submitted \in Seq(AllFrames) /\ Len(submitted) \in Nat
      /\ sender \in [Senders -> {"idle", "flag", "write"}]
      /\ sent \in [Senders -> 0 .. SendMax] /\ \A s \in Senders : sent[s] \in Nat
  BY BoundAssumption DEF TypeOK
<1>b. /\ io \in {"start", "open", "publish"} => submitted = << >>
      /\ io \in {"run", "throw", "catch"} => g_serial
      /\ io \in {"clear", "destroy", "done"} => ~can_use_serial
  BY DEF PointerInv
<1>7. CASE UNCHANGED sendervars
  <2>1. submitted # << >> => (~alive => ~alive') /\ (~can_use_serial => ~can_use_serial')
    <3>1. CASE Exits
      BY <3>1 DEF Exits
    <3>2. CASE UNCHANGED vars
      BY <3>2 DEF vars
    <3>3. CASE Begin \/ OpenPort \/ OpenFails \/ Publish \/ RunReturns \/ ClearPointer
                 \/ Destroy \/ Unwind \/ Exit
      BY <1>b, <3>3 DEF Begin, OpenPort, OpenFails, Publish, RunReturns, ClearPointer,
                        Destroy, Unwind, Exit
    <3>4. CASE Handlers
      BY <3>4 DEF Handlers, Handler, OnPost, OnWritten, OnRead, OnError, OnSignal
    <3>5. CASE Device \/ Signal
      BY <3>5 DEF Device, DeviceTakes, DeviceRefuses, DeviceSends, DeviceLeaves, Signal
    <3>6. CASE \E s \in Senders : Sending(s)
      BY <3>6 DEF Sending, ReadFlag, ReadPointer, Write, WriteAstray
    <3> QED
      BY <1>0, <3>1, <3>2, <3>3, <3>4, <3>5, <3>6 DEF Next, Main
  <2> QED
    BY <1>7, <2>1 DEF CallsInv, Shut
<1>8. CASE \E s \in Senders : Sending(s)
  <2>1. PICK s \in Senders : Sending(s)
    BY <1>8
  <2>2. Senders = {s}
    BY SpinnerAssumption
  <2>3. CASE Write(s)
    <3>1. /\ alive /\ sender[s] = "write" /\ submitted' = Append(submitted, Frame(s))
          /\ sent' = [sent EXCEPT ![s] = @ + 1]
      BY <2>3 DEF Write, Returns
    <3>2. Frame(s)[2] = sent[s] /\ sent'[s] = sent[s] + 1
      BY <1>a, <3>1 DEF Frame
    <3>3. submitted # << >> => submitted[Len(submitted)][2] + 1 = sent[s]
      BY <3>1 DEF CallsInv, Shut
    <3>4. /\ Len(submitted') = Len(submitted) + 1 /\ submitted'[Len(submitted) + 1] = Frame(s)
          /\ \A k \in 1 .. Len(submitted) : submitted'[k] = submitted[k]
      BY <1>a, <3>1
    <3>5. ASSUME NEW k \in 1 .. Len(submitted)
          PROVE  submitted'[k + 1][2] = submitted'[k][2] + 1
      <4>1. CASE k = Len(submitted)
        <5>1. submitted # << >>
          BY <1>a, <4>1
        <5> QED
          BY <3>2, <3>3, <3>4, <4>1, <5>1
      <4>2. CASE k # Len(submitted)
        <5>1. k \in 1 .. (Len(submitted) - 1) /\ k + 1 \in 1 .. Len(submitted)
          BY <1>a, <4>2
        <5> QED
          BY <3>4, <5>1 DEF CallsInv
      <4> QED
        BY <4>1, <4>2
    <3>6. 1 .. (Len(submitted') - 1) = 1 .. Len(submitted)
      BY <1>a, <3>4
    <3>7. submitted'[Len(submitted')][2] + 1 = sent'[s]
      BY <3>2, <3>4
    <3> QED
      BY <2>2, <3>5, <3>6, <3>7 DEF CallsInv
  <2>4. CASE ReadFlag(s) \/ ReadPointer(s) \/ WriteAstray(s)
    <3>1. submitted' = submitted /\ alive' = alive /\ can_use_serial' = can_use_serial
      BY <2>4 DEF ReadFlag, ReadPointer, WriteAstray
    <3>2. CASE sent' = sent
      <4>1. ~can_use_serial => sender[s] # "idle"
        BY <1>a, <2>4, <3>2 DEF ReadFlag, ReadPointer, WriteAstray, Returns
      <4> QED
        BY <2>2, <3>1, <3>2, <4>1 DEF CallsInv, Shut
    <3>3. CASE sent' # sent
      <4>1. sender' = [sender EXCEPT ![s] = "idle"]
        BY <2>4, <3>3 DEF ReadFlag, ReadPointer, WriteAstray, Returns, Goto
      <4>2. submitted # << >> => ~alive \/ ~can_use_serial
        <5>1. io \in {"start", "open", "publish", "run", "clear", "destroy", "done",
                      "throw", "catch"}
          BY <2>4 DEF ReadFlag, ReadPointer, WriteAstray, TypeOK
        <5> QED
          BY <1>b, <2>4, <3>3, <5>1 DEF ReadFlag, ReadPointer, WriteAstray
      <4> QED
        BY <1>a, <2>2, <3>1, <4>1, <4>2 DEF CallsInv, Shut
    <3> QED
      BY <3>2, <3>3
  <2> QED
    BY <2>1, <2>3, <2>4 DEF Sending
<1>9. UNCHANGED sendervars \/ \E s \in Senders : Sending(s)
  <2>1. CASE Exits \/ UNCHANGED vars
    BY <2>1 DEF Exits, vars
  <2>2. CASE Begin \/ OpenPort \/ OpenFails \/ Publish \/ RunReturns \/ ClearPointer
               \/ Destroy \/ Unwind \/ Exit
    BY <2>2 DEF Begin, OpenPort, OpenFails, Publish, RunReturns, ClearPointer, Destroy,
                Unwind, Exit
  <2>3. CASE Handlers
    BY <2>3 DEF Handlers, OnPost, OnWritten, OnRead, OnError, OnSignal
  <2>4. CASE Device \/ Signal
    BY <2>4 DEF Device, DeviceTakes, DeviceRefuses, DeviceSends, DeviceLeaves, Signal
  <2> QED
    BY <1>0, <2>1, <2>2, <2>3, <2>4 DEF Next, Main
<1> QED
  BY <1>7, <1>8, <1>9

----------------------------------------------------------------------------
\* What the device has got are calls that the thread made for commands it
\* took, one after the other.
LEMMA WhatTheDeviceGot ==
    ASSUME RosInv
    PROVE  /\ \A k \in DOMAIN transmitted :
                  transmitted[k][2] \in Nat /\ transmitted[k][2] + 1 \in DOMAIN taken
           /\ \A j, k \in DOMAIN transmitted :
                  j < k => transmitted[j][2] + 1 < transmitted[k][2] + 1
<1>1. IInv /\ TakenInv /\ TypeOK /\ SenderInv
  BY DEF RosInv, IInv
<1>2. PICK s : Senders = {s}
  BY SpinnerAssumption
<1>3. /\ taken \in Seq(Command1) /\ Len(taken) \in Nat /\ DOMAIN taken = 1 .. Len(taken)
      /\ sent[s] \in Nat /\ Len(taken) >= sent[s]
  BY <1>1, <1>2, BoundAssumption DEF TypeOK, TakenInv
<1>4. /\ transmitted \in Seq(AllFrames) /\ submitted \in Seq(AllFrames)
      /\ Len(transmitted) \in Nat /\ Len(submitted) \in Nat
      /\ Len(transmitted) <= Len(submitted)
      /\ \A k \in 1 .. Len(transmitted) : submitted[k] = transmitted[k]
  BY <1>1, DeviceGetsFirst
<1>5. /\ DOMAIN transmitted = 1 .. Len(transmitted)
      /\ \A k \in DOMAIN transmitted : k \in DOMAIN submitted /\ submitted[k] = transmitted[k]
  BY <1>4
<1>6. \A k \in DOMAIN transmitted : transmitted[k][1] = s /\ transmitted[k][2] \in Nat
  <2>1. \A k \in DOMAIN transmitted : transmitted[k] \in AllFrames
    BY <1>4
  <2> QED
    BY <1>2, <2>1 DEF AllFrames
<1>7. \A k \in DOMAIN transmitted : transmitted[k][2] < sent[s]
  BY <1>1, <1>5, <1>6 DEF SenderInv
<1>8. \A j, k \in DOMAIN transmitted : j < k => transmitted[j][2] < transmitted[k][2]
  BY <1>1, <1>5, <1>6 DEF SenderInv
<1> QED
  BY <1>3, <1>6, <1>7, <1>8

----------------------------------------------------------------------------
\* The theorems.

\* The invariant holds at the start ...
LEMMA RosInvInit == RosInit => RosInv
<1> SUFFICES ASSUME RosInit PROVE RosInv
  OBVIOUS
<1>0. /\ Init /\ program = "init" /\ spinner = "none" /\ s_self = FALSE /\ context = TRUE
      /\ inbox = [t \in Topics |-> << >>] /\ commanded = 0 /\ taken = << >>
      /\ g_tx_cnt = 0
  BY DEF RosInit
<1>1. io = "start" /\ can_use_serial = TRUE /\ sender = [s \in Senders |-> "idle"]
      /\ sent = [s \in Senders |-> 0] /\ stopped = FALSE
  BY <1>0 DEF Init
<1>2. /\ \A A : << >> \in Seq(A)
      /\ Len(<< >>) = 0 /\ DOMAIN << >> = {}
  BY EmptySeq
<1>3. IInv
  BY <1>0, IInvInit
<1>4. ProgramInv
  BY <1>0, <1>1 DEF ProgramInv
<1>5. TakenInv
  BY <1>0, <1>1, <1>2, CountAssumption DEF TakenInv, Counts
<1>6. OpenInv
  BY <1>0, <1>1, <1>2 DEF OpenInv, FlagInv, NoCommandSwallowed, PortOpen
<1>7. OrderInv
  BY <1>0, <1>2 DEF OrderInv, Increasing
<1>8. CountInv /\ PointerInv /\ CallsInv
  BY <1>0, <1>1, <1>2 DEF Init, CountInv, PointerInv, CallsInv
<1> QED
  BY <1>3, <1>4, <1>5, <1>6, <1>7, <1>8 DEF RosInv

\* ... and every step keeps it.
LEMMA RosInvStep == RosInv /\ [RosNext]_allvars => RosInv'
<1> SUFFICES ASSUME RosInv, [RosNext]_allvars PROVE RosInv'
  OBVIOUS
<1>1. /\ IInv /\ ProgramInv /\ TakenInv /\ OpenInv /\ OrderInv
      /\ CountInv /\ PointerInv /\ CallsInv /\ TypeOK /\ MainInv /\ SenderInv
  BY DEF RosInv, IInv
<1> QED
  BY <1>1, IInvKept, ProgramStep, TakenStep, OpenStep, OrderStep, CountStep,
     PointerStep, CallsStep DEF RosInv

\* The inductive invariant: SerialIo's, and what main, the spinning thread, the
\* subscriptions and the publishers keep between them.
THEOREM RosInvariance == RosSafeSpec => []RosInv
BY RosInvInit, RosInvStep, PTL DEF RosSafeSpec

\* ROS2DataHandle: neither a callback nor on_frame_msg runs when the handle
\* does not exist, whenever the context is shut down or a signal comes.
THEOREM HandleOutlives == RosSafeSpec => []HandleOutlivesUsers
<1>1. RosInv => HandleOutlivesUsers
  BY DEF RosInv, IInv, TypeOK, ProgramInv, HandleOutlivesUsers
<1> QED
  BY <1>1, RosInvariance, PTL

\* main_common_send_msg: a command taken while the port is open is posted to it.
THEOREM CommandsGetToPort == RosSafeSpec => []NoCommandSwallowed
<1>1. RosInv => NoCommandSwallowed
  BY DEF RosInv, OpenInv
<1> QED
  BY <1>1, RosInvariance, PTL

\* The device gets the commands of a topic in the order they were published
\* in, however many a subscription forgets.
THEOREM CommandsKeepTheirOrder == RosSafeSpec => []CommandsInOrder
<1>1. RosInv => CommandsInOrder
  <2> SUFFICES ASSUME RosInv PROVE CommandsInOrder
    OBVIOUS
  <2>1. \A k \in DOMAIN transmitted : transmitted[k][2] \in Nat /\ transmitted[k][2] + 1 \in DOMAIN taken
    BY WhatTheDeviceGot
  <2>2. \A j, k \in DOMAIN transmitted :
            j < k => transmitted[j][2] + 1 < transmitted[k][2] + 1
    BY WhatTheDeviceGot
  <2> QED
    BY <2>1, <2>2 DEF RosInv, CommandsInOrder, OrderInv
<1> QED
  BY <1>1, RosInvariance, PTL

\* main_common_send_msg: the device sees no gap in the counts of what it gets,
\* whatever of the commands a closed port or a program that stops drops.
THEOREM CountsHaveNoGap == RosSafeSpec => []CountsConsecutive
<1>1. RosInv => CountsConsecutive
  <2> SUFFICES ASSUME RosInv, NEW k \in 1 .. (Len(transmitted) - 1)
               PROVE  taken[transmitted[k + 1][2] + 1].cnt
                          = (taken[transmitted[k][2] + 1].cnt + 1) % CntRange
    BY DEF CountsConsecutive
  <2> DEFINE c == transmitted[k][2] + 1
  <2>1. /\ transmitted \in Seq(AllFrames) /\ Len(transmitted) \in Nat
        /\ Len(submitted) \in Nat /\ Len(transmitted) <= Len(submitted)
        /\ \A j \in 1 .. Len(transmitted) : submitted[j] = transmitted[j]
    BY DeviceGetsFirst DEF RosInv
  <2>2. /\ k \in 1 .. Len(transmitted) /\ k + 1 \in 1 .. Len(transmitted)
        /\ k \in 1 .. (Len(submitted) - 1)
        /\ DOMAIN transmitted = 1 .. Len(transmitted)
    BY <2>1
  <2>3. transmitted[k + 1][2] = transmitted[k][2] + 1
    BY <2>1, <2>2 DEF RosInv, CallsInv
  <2>4. c \in Nat /\ c \in DOMAIN taken /\ c + 1 \in DOMAIN taken
    BY <2>2, <2>3, WhatTheDeviceGot
  <2>5. /\ Len(taken) \in Nat /\ DOMAIN taken = 1 .. Len(taken)
        /\ \A j \in 1 .. (Len(taken) - 1) : taken[j + 1].cnt = NextCount(taken[j].cnt)
    BY DEF RosInv, TakenInv, CountInv
  <2>6. c \in 1 .. (Len(taken) - 1)
    BY <2>4, <2>5
  <2>7. taken[c + 1].cnt = NextCount(taken[c].cnt)
    BY <2>5, <2>6
  <2> QED
    BY <2>3, <2>7 DEF NextCount
<1> QED
  BY <1>1, RosInvariance, PTL
=============================================================================
