--------------------------- MODULE BeamSrvProofs ----------------------------
(***************************************************************************)
(* Proofs about BeamSrv, for any number of slaves, clients and blocks.     *)
(***************************************************************************)
EXTENDS BeamSrv, SequenceTheorems, TLAPS

USE DEF MainGoto, InGoto, ServerGoto, Goto, SlaveGoto, mainVars, inVars,
        outVars, slaveVars, clVars, NoBeam, READY, PARAMS, Streaming, Gone

\* The numbers of slaves and blocks, and what counts as a beam.
LEMMA Ranges ==
    /\ Slaves \subseteq Nat \ {0} /\ 1 \in Slaves
    /\ \A s \in Slaves : s < iProcCount => s + 1 \in Slaves
    /\ \A s \in Slaves : s <= iProcCount
    /\ 0 \in Blocks /\ <<0, 0>> \in Beams
    /\ \A s \in Slaves, b \in Blocks : <<s, b>> \in Beams
BY BeamAssumption DEF Slaves, Blocks, Beams

\* The initial state satisfies the inductive invariant.
LEMMA InitInv == Init => IInv
<1> SUFFICES ASSUME Init PROVE IInv
  OBVIOUS
<1>1. TypeOK
  BY Ranges DEF Init, TypeOK, MasterTypeOK, SlaveTypeOK, ClientTypeOK
<1>2. StartInv /\ SocketInv /\ BeamsInv /\ ClientInv
  BY BeamAssumption DEF Init, StartInv, SocketInv, BeamsInv, ClientInv
<1>3. SemaphoreCountsQueue /\ LiveChannelsAreRight
  BY DEF Init, SemaphoreCountsQueue, LiveChannelsAreRight
<1> QED
  BY <1>1, <1>2, <1>3 DEF IInv
-----------------------------------------------------------------------------
\* Only slaves that live are reached by what the master sends.
LEMMA ReachedLives == ASSUME NEW s \in Reached PROVE s \in Slaves /\ ~Gone(s)
BY Ranges DEF Reached

\* A message is sent to a slave that has none on its way.
LEMMA SendType ==
    ASSUME SlaveTypeOK, NEW m \in Blocks, Send(m),
           \A s \in Slaves : ~Gone(s) => toSlave[s] = <<>> /\ fromSlave[s] = <<>>
    PROVE  /\ toSlave' \in [Slaves -> Seq(Blocks)]
           /\ \A s \in Slaves : /\ toSlave'[s] = IF s \in Reached THEN <<m>>
                                                 ELSE toSlave[s]
                                /\ Len(toSlave'[s]) + Len(fromSlave[s]) <= 1
<1>1. ASSUME NEW s \in Slaves
      PROVE  toSlave'[s] = IF s \in Reached THEN <<m>> ELSE toSlave[s]
  <2>1. s \in Reached => toSlave[s] = <<>>
    BY ReachedLives
  <2>2. Append(<<>>, m) = <<m>>
    OBVIOUS
  <2> QED
    BY <2>1, <2>2 DEF Send
<1>2. ASSUME NEW s \in Slaves
      PROVE  /\ toSlave'[s] \in Seq(Blocks)
             /\ Len(toSlave'[s]) + Len(fromSlave[s]) <= 1
  <2>1. CASE s \in Reached
    <3>1. fromSlave[s] = <<>> /\ toSlave'[s] = <<m>>
      BY <1>1, <2>1, ReachedLives
    <3> QED
      BY <3>1
  <2>2. CASE s \notin Reached
    BY <1>1, <2>2 DEF SlaveTypeOK
  <2> QED
    BY <2>1, <2>2
<1> QED
  BY <1>1, <1>2 DEF Send

\* Taking the first of at most one message leaves none.
LEMMA TailOfOne == ASSUME NEW S, NEW q \in Seq(S), q # <<>>, Len(q) <= 1
                   PROVE  Tail(q) = <<>> /\ Head(q) \in S
<1>1. Len(q) \in Nat \ {0}
  BY EmptySeq
<1>2. Len(q) = 1
  BY <1>1
<1>3. Tail(q) \in Seq(S) /\ Len(Tail(q)) = 0 /\ Head(q) \in S
  BY <1>2, HeadTailProperties
<1> QED
  BY <1>3, EmptySeq

\* A socket that holds a message has none the other way.
LEMMA OneMessage ==
    ASSUME SlaveTypeOK, NEW s \in Slaves
    PROVE  /\ toSlave[s] # <<>> => /\ fromSlave[s] = <<>>
                                   /\ Tail(toSlave[s]) = <<>>
                                   /\ Head(toSlave[s]) \in Blocks
           /\ fromSlave[s] # <<>> => /\ toSlave[s] = <<>>
                                     /\ Tail(fromSlave[s]) = <<>>
                                     /\ Head(fromSlave[s]) \in Beams
<1> DEFINE to == toSlave[s]
           from == fromSlave[s]
<1>1. to \in Seq(Blocks) /\ from \in Seq(Beams) /\ Len(to) + Len(from) <= 1
  BY DEF SlaveTypeOK
<1>2. Len(to) \in Nat /\ Len(from) \in Nat
  BY <1>1, LenProperties
<1>3. to # <<>> => Len(to) > 0
  BY <1>1, EmptySeq
<1>4. from # <<>> => Len(from) > 0
  BY <1>1, EmptySeq
<1> HIDE DEF to, from
<1>5. Len(to) <= 1 /\ Len(from) <= 1
  BY <1>1, <1>2
<1>6. to # <<>> => from = <<>> /\ Tail(to) = <<>> /\ Head(to) \in Blocks
  <2> SUFFICES ASSUME to # <<>>
               PROVE  from = <<>> /\ Tail(to) = <<>> /\ Head(to) \in Blocks
    OBVIOUS
  <2>1. from = <<>>
    BY <1>1, <1>2, <1>3, <1>4
  <2>2. Tail(to) = <<>> /\ Head(to) \in Blocks
    BY <1>1, <1>5, TailOfOne
  <2> QED
    BY <2>1, <2>2
<1>7. from # <<>> => to = <<>> /\ Tail(from) = <<>> /\ Head(from) \in Beams
  BY <1>1, <1>2, <1>3, <1>4, <1>5, TailOfOne
<1> QED
  BY <1>6, <1>7 DEF to, from
-----------------------------------------------------------------------------
\* What the threads of the master leave alone, and what slaves do.
LEMMA InputLeaves ==
    ASSUME Input
    PROVE  /\ UNCHANGED <<proc, mainVars, pcServer, outVars, slaveVars, clVars>>
           /\ bRun' => bRun
BY DEF Input, InTest, InRead, InPut, PutBlock, PostBlock

LEMMA ServerLeaves ==
    ASSUME Server
    PROVE  /\ UNCHANGED <<proc, bRun, mainVars, inVars, outVars, slaveVars,
                          iLBlockCntr, lost>>
           /\ UNCHANGED pc \/ \E c \in Clients : /\ pc[c] = "unborn"
                                                /\ pc' = [pc EXCEPT ![c] = "start"]
BY DEF Server, ServerTest, ServerTestThen, ServerAccept

LEMMA ServeLeaves ==
    ASSUME NEW c \in Clients, Serve(c)
    PROVE  UNCHANGED <<proc, bRun, mainVars, inVars, pcServer, OutData, outBlk,
                       iBlockCntr, slaveVars>>
BY DEF Serve, Start, Test, WaitOut, WakeUp, Awake, SendBlock, End

LEMMA SlaveLeaves ==
    ASSUME NEW s \in Slaves, Slave(s) \/ SlaveDies(s)
    PROVE  UNCHANGED <<proc, bRun, mainVars, inVars, pcServer, outVars, clVars>>
BY DEF Slave, SlaveStart, SlaveWork, SlaveEOF, SlaveDies

LEMMA OthersLeave ==
    ASSUME Signal \/ Kill \/ Terminated \/ UNCHANGED vars
    PROVE  /\ UNCHANGED <<mainVars, inVars, pcServer, outVars, slaveVars, clVars>>
           /\ bRun' => bRun
BY DEF Signal, Kill, Terminated, vars

LEMMA MainLeaves ==
    ASSUME Main
    PROVE  UNCHANGED clVars /\ (bRun' => bRun)
<1>1. CASE MainSetup
  <2>1. bRun' = FALSE \/ bRun' = (bRun /\ Reached = Slaves)
    BY <1>1, Zenon DEF MainSetup
  <2> QED
    BY <1>1, <2>1 DEF MainSetup
<1>2. CASE ~MainSetup
  BY <1>2 DEF Main, MainReady, MainCreate, MainTest, MainSem, MainGet, MainSend,
              MainRecv, MainPublish, MainExit
<1> QED
  BY <1>1, <1>2

\* A slave works through a message that it was sent.
LEMMA SlaveWorks ==
    ASSUME SlaveTypeOK, NEW s \in Slaves, SlaveWork(s)
    PROVE  /\ pcSlave' = pcSlave /\ pcSlave[s] = "data"
           /\ toSlave[s] # <<>> /\ fromSlave[s] = <<>>
           /\ Head(toSlave[s]) \in Blocks
           /\ toSlave' = [toSlave EXCEPT ![s] = <<>>]
           /\ fromSlave' = [fromSlave EXCEPT ![s] = <<<<s, Head(toSlave[s])>>>>]
<1>1. toSlave[s] # <<>>
  BY DEF SlaveWork, SlaveReads
<1>2. /\ fromSlave[s] = <<>> /\ Tail(toSlave[s]) = <<>>
      /\ Head(toSlave[s]) \in Blocks
  BY <1>1, OneMessage
<1>3. <<>> \o Result(s) = Result(s)
  BY DEF Result
<1>4. fromSlave' = [fromSlave EXCEPT ![s] = <<<<s, Head(toSlave[s])>>>>]
  BY <1>2, <1>3 DEF SlaveWork, SlaveSends, Result, Beam
<1> QED
  BY <1>1, <1>2, <1>4 DEF SlaveWork, SlaveReads, SlaveTypeOK

\* A slave that starts answers that it is ready, or ends.
LEMMA SlaveStarts ==
    ASSUME SlaveTypeOK, NEW s \in Slaves, SlaveStart(s)
    PROVE  /\ pcSlave[s] = "params"
           /\ toSlave[s] # <<>> /\ fromSlave[s] = <<>>
           /\ toSlave' = [toSlave EXCEPT ![s] = <<>>]
           /\ \/ /\ pcSlave' = [pcSlave EXCEPT ![s] = "data"]
                 /\ fromSlave' = [fromSlave EXCEPT ![s] = <<READY>>]
              \/ /\ pcSlave' = [pcSlave EXCEPT ![s] = "gone"]
                 /\ UNCHANGED fromSlave
<1>1. toSlave[s] # <<>>
  BY DEF SlaveStart, SlaveReads
<1>2. fromSlave[s] = <<>> /\ Tail(toSlave[s]) = <<>>
  BY <1>1, OneMessage
<1>3. <<>> \o <<READY>> = <<READY>>
  OBVIOUS
<1> QED
  BY <1>1, <1>2, <1>3 DEF SlaveStart, SlaveReads, SlaveSends
-----------------------------------------------------------------------------
\* Every step keeps the types: the master's,
LEMMA MasterType == ASSUME IInv, [Next]_vars PROVE MasterTypeOK'
<1> USE DEF MasterTypeOK
<1>0. MasterTypeOK /\ SlaveTypeOK
  BY DEF IInv, TypeOK
<1>1. CASE Signal \/ Kill \/ Terminated \/ UNCHANGED vars
  <2>1. bRun' \in BOOLEAN /\ proc' \in {"running", "exited", "killed"}
    BY <1>0, <1>1 DEF Signal, Kill, Terminated, vars
  <2> QED
    BY <1>0, <1>1, <2>1, OthersLeave
<1>2. CASE Main
  <2>1. CASE MainSetup
    <3>1. bRun' \in BOOLEAN /\ pcMain' = "ready"
      BY <1>0, <2>1, Zenon DEF MainSetup
    <3> QED
      BY <1>0, <2>1, <3>1 DEF MainSetup
  <2>2. CASE MainReady
    <3>1. iNode' \in Slaves /\ pcMain' \in {"ready", "create"}
      BY <1>0, <2>2, Ranges DEF MainReady
    <3>2. bRun' \in BOOLEAN
      BY <1>0, <2>2 DEF MainReady
    <3> QED
      BY <1>0, <2>2, <3>1, <3>2 DEF MainReady
  <2>3. CASE MainCreate
    BY <1>0, <2>3 DEF MainCreate
  <2>4. CASE MainTest
    BY <1>0, <2>4 DEF MainTest
  <2>5. CASE MainSem
    BY <1>0, <2>5 DEF MainSem
  <2>6. CASE MainGet
    <3>1. InBuf' \in Seq(Blocks) /\ InData' \in Blocks
      BY <1>0, <2>6, HeadTailProperties DEF MainGet
    <3>2. pcMain' \in {"test", "send", "join"}
      BY <2>6 DEF MainGet
    <3> QED
      BY <1>0, <2>6, <3>1, <3>2 DEF MainGet
  <2>7. CASE MainSend
    BY <1>0, <2>7 DEF MainSend
  <2>8. CASE MainRecv
    <3>1. iNode' \in Slaves /\ pcMain' \in {"recv", "publish"}
      BY <1>0, <2>8, Ranges DEF MainRecv
    <3>2. NodeRes' \in Beams
      BY <1>0, <2>8, OneMessage DEF MainRecv, RecvNodeRes, NodeResThen, Answered
    <3>3. LOutData' \in [Slaves -> Beams]
      BY <1>0, <2>8, <3>2 DEF MainRecv
    <3> QED
      BY <1>0, <2>8, <3>1, <3>2, <3>3 DEF MainRecv
  <2>9. CASE MainPublish
    BY <1>0, <2>9 DEF MainPublish
  <2>10. CASE MainExit
    BY <1>0, <2>10 DEF MainExit
  <2> QED
    BY <1>2, <2>1, <2>2, <2>3, <2>4, <2>5, <2>6, <2>7, <2>8, <2>9, <2>10 DEF Main
<1>3. CASE Input
  <2> UNCHANGED <<proc, mainVars, pcServer, outVars>>
    BY <1>3, InputLeaves
  <2>1. CASE InTest
    BY <1>0, <2>1 DEF InTest
  <2>2. CASE InRead
    <3>1. read' \in Blocks
      BY <1>0, <2>2, BeamAssumption DEF InRead, Blocks
    <3>2. pcIn' \in {"put", "dead"} /\ bRun' \in BOOLEAN
      BY <1>0, <2>2 DEF InRead
    <3> QED
      BY <1>0, <2>2, <3>1, <3>2 DEF InRead
  <2>3. CASE PutBlock("put", "post")
    BY <1>0, <2>3 DEF PutBlock
  <2>4. CASE PostBlock("post", "test")
    BY <1>0, <2>4 DEF PostBlock
  <2> QED
    BY <1>3, <2>1, <2>2, <2>3, <2>4 DEF Input, InPut
<1>4. CASE Server
  <2>1. pcServer' \in {"none", "test", "accept", "ended"}
    BY <1>4 DEF Server, ServerTest, ServerTestThen, ServerAccept
  <2> QED
    BY <1>0, <1>4, <2>1, ServerLeaves
<1>5. ASSUME NEW c \in Clients, Serve(c) PROVE MasterTypeOK'
  BY <1>0, <1>5, ServeLeaves
<1>6. ASSUME NEW s \in Slaves, Slave(s) \/ SlaveDies(s) PROVE MasterTypeOK'
  BY <1>0, <1>6, SlaveLeaves
<1> QED
  BY <1>1, <1>2, <1>3, <1>4, <1>5, <1>6 DEF Next

\* those of the sockets and the slaves,
LEMMA SlaveType == ASSUME IInv, [Next]_vars PROVE SlaveTypeOK'
<1>0. /\ MasterTypeOK /\ SlaveTypeOK /\ SocketInv
      /\ pcSlave \in [Slaves -> {"params", "data", "gone"}]
      /\ toSlave \in [Slaves -> Seq(Blocks)]
      /\ fromSlave \in [Slaves -> Seq(Beams)]
      /\ \A s \in Slaves : Len(toSlave[s]) + Len(fromSlave[s]) <= 1
  BY DEF IInv, TypeOK, SlaveTypeOK
<1>a. Len(<<>>) = 0
  OBVIOUS
<1>1. CASE UNCHANGED slaveVars
  BY <1>0, <1>1 DEF SlaveTypeOK
<1>2. ASSUME NEW m \in Blocks, Send(m), UNCHANGED <<pcSlave, fromSlave>>,
             pcMain \in {"setup", "send"}
      PROVE  SlaveTypeOK'
  <2>1. \A s \in Slaves : ~Gone(s) => toSlave[s] = <<>> /\ fromSlave[s] = <<>>
    BY <1>0, <1>2 DEF SocketInv, Quiet
  <2>2. /\ toSlave' \in [Slaves -> Seq(Blocks)]
        /\ \A s \in Slaves : Len(toSlave'[s]) + Len(fromSlave[s]) <= 1
    BY <1>0, <1>2, <2>1, SendType
  <2> QED
    BY <1>0, <1>2, <2>2 DEF SlaveTypeOK
<1>3. ASSUME NEW s \in Slaves, fromSlave[s] # <<>>,
             fromSlave' = [fromSlave EXCEPT ![s] = Tail(@)],
             UNCHANGED <<pcSlave, toSlave>>
      PROVE  SlaveTypeOK'
  <2>1. fromSlave' = [fromSlave EXCEPT ![s] = <<>>] /\ toSlave[s] = <<>>
    BY <1>0, <1>3, OneMessage
  <2>2. fromSlave' \in [Slaves -> Seq(Beams)]
    BY <1>0, <2>1
  <2>3. \A t \in Slaves : Len(toSlave'[t]) + Len(fromSlave'[t]) <= 1
    BY <1>0, <1>3, <1>a, <2>1
  <2> QED
    BY <1>0, <1>3, <2>2, <2>3 DEF SlaveTypeOK
<1>4. CASE Main
  <2>1. CASE MainSetup
    BY <1>1, <1>2, <2>1, Ranges DEF MainSetup
  <2>2. CASE MainReady
    BY <1>0, <1>1, <1>3, <2>2 DEF MainReady, Answered, MasterTypeOK
  <2>3. CASE MainSend
    BY <1>0, <1>2, <2>3 DEF MainSend, MasterTypeOK
  <2>4. CASE MainRecv
    BY <1>0, <1>1, <1>3, <2>4
    DEF MainRecv, RecvNodeRes, NodeResThen, Answered, MasterTypeOK
  <2>5. CASE MainExit
    BY <1>0, <2>5 DEF MainExit, SlaveTypeOK
  <2>6. CASE MainCreate \/ MainTest \/ MainSem \/ MainGet \/ MainPublish
    BY <1>1, <2>6 DEF MainCreate, MainTest, MainSem, MainGet, MainPublish
  <2> QED
    BY <1>4, <2>1, <2>2, <2>3, <2>4, <2>5, <2>6 DEF Main
<1>5. ASSUME NEW s \in Slaves, NEW b \in Beams,
             toSlave' = [toSlave EXCEPT ![s] = <<>>],
             fromSlave' = [fromSlave EXCEPT ![s] = <<b>>],
             pcSlave' \in [Slaves -> {"params", "data", "gone"}]
      PROVE  SlaveTypeOK'
  <2>1. <<b>> \in Seq(Beams) /\ Len(<<b>>) = 1
    OBVIOUS
  <2>2. /\ toSlave' \in [Slaves -> Seq(Blocks)]
        /\ fromSlave' \in [Slaves -> Seq(Beams)]
    BY <1>0, <1>5, <2>1
  <2>3. \A t \in Slaves : Len(toSlave'[t]) + Len(fromSlave'[t]) <= 1
    BY <1>0, <1>5, <1>a, <2>1
  <2> QED
    BY <1>5, <2>2, <2>3 DEF SlaveTypeOK
<1>6. ASSUME NEW s \in Slaves, Slave(s) \/ SlaveDies(s) PROVE SlaveTypeOK'
  <2>1. CASE SlaveStart(s)
    <3>1. pcSlave' \in [Slaves -> {"params", "data", "gone"}]
      BY <1>0, <2>1, SlaveStarts
    <3>2. CASE fromSlave' = [fromSlave EXCEPT ![s] = <<READY>>]
      <4>1. READY \in Beams
        BY Ranges
      <4> HIDE DEF READY
      <4> QED
        BY <1>0, <1>5, <2>1, <3>1, <3>2, <4>1, SlaveStarts
    <3>3. CASE UNCHANGED fromSlave
      <4>3. toSlave' = [toSlave EXCEPT ![s] = <<>>] /\ fromSlave[s] = <<>>
        BY <1>0, <2>1, SlaveStarts
      <4>1. toSlave' \in [Slaves -> Seq(Blocks)]
        BY <1>0, <4>3
      <4>2. \A t \in Slaves : Len(toSlave'[t]) + Len(fromSlave'[t]) <= 1
        BY <1>0, <1>a, <3>3, <4>3
      <4> QED
        BY <1>0, <3>1, <3>3, <4>1, <4>2 DEF SlaveTypeOK
    <3> QED
      BY <1>0, <2>1, <3>2, <3>3, SlaveStarts
  <2>2. CASE SlaveWork(s)
    <3> DEFINE b == <<s, Head(toSlave[s])>>
    <3>1. b \in Beams
      BY <1>0, <2>2, SlaveWorks, Ranges
    <3>2. /\ toSlave' = [toSlave EXCEPT ![s] = <<>>]
          /\ fromSlave' = [fromSlave EXCEPT ![s] = <<b>>]
          /\ pcSlave' \in [Slaves -> {"params", "data", "gone"}]
      BY <1>0, <2>2, SlaveWorks
    <3> HIDE DEF b
    <3> QED
      BY <1>5, <3>1, <3>2
  <2>3. CASE SlaveEOF(s) \/ SlaveDies(s)
    BY <1>0, <2>3 DEF SlaveEOF, SlaveDies, SlaveTypeOK
  <2> QED
    BY <1>6, <2>1, <2>2, <2>3 DEF Slave
<1>7. CASE Signal \/ Kill \/ Terminated \/ UNCHANGED vars \/ Input \/ Server
           \/ \E c \in Clients : Serve(c)
  BY <1>1, <1>7, OthersLeave, InputLeaves, ServerLeaves, ServeLeaves
<1> QED
  BY <1>4, <1>6, <1>7 DEF Next

\* and those of the clients.
LEMMA ClientType == ASSUME IInv, [Next]_vars PROVE ClientTypeOK'
<1> USE DEF ClientTypeOK
<1>0. ClientTypeOK /\ iBlockCntr \in Nat
  BY DEF IInv, TypeOK, MasterTypeOK
<1>1. CASE \/ Signal \/ Kill \/ Terminated \/ UNCHANGED vars \/ Main \/ Input
           \/ \E s \in Slaves : Slave(s) \/ SlaveDies(s)
  <2>1. UNCHANGED clVars
    BY <1>1, OthersLeave, MainLeaves, InputLeaves, SlaveLeaves
  <2>2. CndOut' = CndOut \/ CndOut' = {}
    BY <1>1, OthersLeave, InputLeaves, SlaveLeaves
    DEF Main, MainSetup, MainReady, MainCreate, MainTest, MainSem, MainGet,
        MainSend, MainRecv, MainPublish, MainExit
  <2> QED
    BY <1>0, <2>1, <2>2
<1>2. CASE Server
  BY <1>0, <1>2, ServerLeaves
<1>3. ASSUME NEW c \in Clients, Serve(c) PROVE ClientTypeOK'
  <2>1. ASSUME NEW from, End(c, from) PROVE ClientTypeOK'
    BY <1>0, <2>1 DEF End
  <2>2. CASE WakeUp(c)
    BY <1>0, <2>2 DEF WakeUp, Awake
  <2>3. CASE WaitOut(c)
    BY <1>0, <2>3 DEF WaitOut
  <2>4. CASE Start(c)
    BY <1>0, <2>1, <2>4 DEF Start
  <2>5. CASE Test(c)
    BY <1>0, <2>1, <2>5 DEF Test
  <2>6. CASE SendBlock(c)
    BY <1>0, <2>1, <2>6 DEF SendBlock
  <2> QED
    BY <1>3, <2>2, <2>3, <2>4, <2>5, <2>6 DEF Serve
<1> QED
  BY <1>1, <1>2, <1>3 DEF Next

LEMMA TypeStep == IInv /\ [Next]_vars => TypeOK'
BY MasterType, SlaveType, ClientType DEF TypeOK
-----------------------------------------------------------------------------
\* A block is in the queue before its post, and out of it after its wait.
LEMMA SemaphoreStep == IInv /\ [Next]_vars => StartInv' /\ SemaphoreCountsQueue'
<1> SUFFICES ASSUME IInv, [Next]_vars PROVE StartInv' /\ SemaphoreCountsQueue'
  OBVIOUS
<1> USE DEF StartInv, SemaphoreCountsQueue
<1>0. /\ SemIn \in Nat /\ InBuf \in Seq(Blocks)
      /\ StartInv /\ SemaphoreCountsQueue
  BY DEF IInv, TypeOK, MasterTypeOK
<1>1. CASE Signal \/ Kill \/ Terminated \/ UNCHANGED vars \/ Server
           \/ (\E c \in Clients : Serve(c))
           \/ (\E s \in Slaves : Slave(s) \/ SlaveDies(s))
  BY <1>0, <1>1, OthersLeave, ServerLeaves, ServeLeaves, SlaveLeaves
<1>2. CASE Main
  <2>1. CASE MainSem
    BY <1>0, <2>1 DEF MainSem
  <2>2. CASE MainGet
    <3>1. CASE InBuf = <<>>
      <4>1. Len(InBuf) = 0
        BY <3>1
      <4> QED
        BY <1>0, <2>2, <4>1 DEF MainGet
    <3>2. CASE InBuf # <<>>
      <4>1. Len(Tail(InBuf)) = Len(InBuf) - 1
        BY <1>0, <3>2, HeadTailProperties
      <4>2. InBuf' = Tail(InBuf) /\ UNCHANGED <<pcIn, SemIn>>
        BY <2>2, <3>2 DEF MainGet
      <4>3. pcMain = "get" /\ pcMain' \in {"test", "send", "join"}
        BY <2>2, <3>2 DEF MainGet
      <4> QED
        BY <1>0, <4>1, <4>2, <4>3
    <3> QED
      BY <3>1, <3>2
  <2>3. CASE ~MainSem /\ ~MainGet
    <3>1. UNCHANGED <<InBuf, SemIn>>
      BY <1>2, <2>3 DEF Main, MainSetup, MainReady, MainCreate, MainTest, MainSend,
           MainRecv, MainPublish, MainExit
    <3>2. pcMain # "get" /\ pcMain' # "get"
      BY <1>2, <2>3 DEF Main, MainSetup, MainReady, MainCreate, MainTest, MainSend,
           MainRecv, MainPublish, MainExit
    <3>3. \/ /\ UNCHANGED pcIn
             /\ pcMain' \in {"setup", "ready", "create"} => pcMain \in {"setup", "ready"}
          \/ MainCreate
      BY <1>2, <2>3 DEF Main, MainSetup, MainReady, MainTest, MainSend,
           MainRecv, MainPublish, MainExit
    <3> QED
      BY <1>0, <3>1, <3>2, <3>3 DEF MainCreate
  <2> QED
    BY <2>1, <2>2, <2>3
<1>3. CASE Input
  <2> UNCHANGED pcMain
    BY <1>3, InputLeaves
  <2>1. CASE InTest \/ InRead
    BY <1>0, <2>1 DEF InTest, InRead
  <2>2. CASE PutBlock("put", "post")
    <3>1. Len(Append(InBuf, read)) = Len(InBuf) + 1
      BY <1>0
    <3> QED
      BY <1>0, <2>2, <3>1 DEF PutBlock
  <2>3. CASE PostBlock("post", "test")
    BY <1>0, <2>3 DEF PostBlock
  <2> QED
    BY <1>3, <2>1, <2>2, <2>3 DEF Input, InPut
<1> QED
  BY <1>1, <1>2, <1>3 DEF Next
-----------------------------------------------------------------------------
\* A slave that lives has nothing on its way when the next block is sent, and
\* the answers that come are about that block.
LEMMA SocketStep == IInv /\ [Next]_vars => SocketInv' /\ BeamsInv'
<1> SUFFICES ASSUME IInv, [Next]_vars PROVE SocketInv' /\ BeamsInv'
  OBVIOUS
<1>0. /\ MasterTypeOK /\ SlaveTypeOK /\ SocketInv /\ BeamsInv
      /\ pcSlave \in [Slaves -> {"params", "data", "gone"}]
      /\ toSlave \in [Slaves -> Seq(Blocks)]
      /\ fromSlave \in [Slaves -> Seq(Beams)]
      /\ InData \in Blocks /\ iNode \in Slaves
      /\ bRun \in BOOLEAN
  BY DEF IInv, TypeOK, MasterTypeOK, SlaveTypeOK
<1> USE DEF SocketInv, BeamsInv, Quiet
<1>1. CASE Signal \/ Kill \/ Terminated \/ UNCHANGED vars \/ Input \/ Server
           \/ \E c \in Clients : Serve(c)
  <2>1. UNCHANGED <<mainVars, slaveVars>> /\ (bRun' => bRun)
    BY <1>1, OthersLeave, InputLeaves, ServerLeaves, ServeLeaves
  <2> QED
    BY <1>0, <2>1
<1>2. CASE Main
  <2>1. CASE MainSetup
    <3>1. pcMain = "setup" /\ pcMain' = "ready" /\ iNode' = iNode
      BY <2>1 DEF MainSetup
    <3>2. UNCHANGED <<pcSlave, fromSlave>>
      BY <2>1 DEF MainSetup
    <3>3. iNode = 1 /\ \A s \in Slaves : ~(s < 1)
      BY <1>0, <3>1, Ranges
    <3> QED
      BY <1>0, <3>1, <3>2, <3>3
  <2>2. CASE MainReady
    <3>1. CASE Answered(iNode)
      <4>1. /\ fromSlave' = [fromSlave EXCEPT ![iNode] = <<>>]
            /\ toSlave[iNode] = <<>> /\ fromSlave[iNode] # <<>>
        BY <1>0, <2>2, <3>1, OneMessage DEF MainReady, Answered
      <4>2. ~Gone(iNode) => /\ pcSlave[iNode] = "data"
                            /\ toSlave[iNode] = <<>> /\ fromSlave'[iNode] = <<>>
        BY <1>0, <2>2, <3>1, <4>1 DEF MainReady
      <4>3. pcMain = "ready" /\ UNCHANGED <<bRun, pcSlave, toSlave>>
        BY <2>2, <3>1 DEF MainReady
      <4>4. CASE iNode < iProcCount
        <5>1. pcMain' = "ready" /\ iNode' = iNode + 1
          BY <2>2, <3>1, <4>4 DEF MainReady
        <5>2. \A s \in Slaves : s < iNode + 1 => s < iNode \/ s = iNode
          BY <1>0, Ranges
        <5> QED
          BY <1>0, <4>1, <4>2, <4>3, <5>1, <5>2
      <4>5. CASE ~(iNode < iProcCount)
        <5>1. pcMain' = "create" /\ iNode' = 1
          BY <2>2, <3>1, <4>5 DEF MainReady
        <5>2. \A s \in Slaves : s < iNode \/ s = iNode
          BY <1>0, <4>5, Ranges, BeamAssumption
        <5> QED
          BY <1>0, <4>1, <4>2, <4>3, <5>1, <5>2
      <4> QED
        BY <4>4, <4>5
    <3>2. CASE ~Answered(iNode)
      <4>1. /\ pcMain' = "create" /\ iNode' = 1 /\ bRun' = FALSE
            /\ UNCHANGED <<pcSlave, toSlave, fromSlave>>
        BY <2>2, <3>2 DEF MainReady
      <4> QED
        BY <1>0, <4>1
    <3> QED
      BY <3>1, <3>2
  <2>3. CASE MainCreate \/ MainTest \/ MainSem \/ MainGet \/ MainPublish
    BY <1>0, <2>3 DEF MainCreate, MainTest, MainSem, MainGet, MainPublish
  <2>4. CASE MainSend
    <3>1. \A s \in Slaves : ~Gone(s) => Quiet(s)
      BY <1>0, <2>4 DEF MainSend
    <3>2. /\ pcMain' = "recv" /\ iNode' = iNode /\ iNode = 1
          /\ UNCHANGED <<pcSlave, fromSlave, InData>>
      BY <1>0, <2>4 DEF MainSend
    <3>3. \A s \in Slaves : toSlave'[s] = IF s \in Reached THEN <<InData>>
                                          ELSE toSlave[s]
      BY <1>0, <2>4, <3>1, SendType DEF MainSend
    <3>4. \A s \in Slaves : ~(s < 1)
      BY Ranges
    <3> QED
      BY <1>0, <3>1, <3>2, <3>3, <3>4
  <2>5. CASE MainRecv
    <3>0. /\ pcMain = "recv" /\ UNCHANGED <<pcSlave, toSlave, InData>>
          /\ LOutData' = [LOutData EXCEPT ![iNode] = NodeRes']
          /\ LOutData \in [Slaves -> Beams]
      BY <1>0, <2>5 DEF MainRecv, MasterTypeOK
    <3>1. \A s \in Slaves \ {iNode} : fromSlave'[s] = fromSlave[s]
      BY <1>0, <2>5 DEF MainRecv, RecvNodeRes, NodeResThen
    <3>2. ~Gone(iNode) => /\ pcSlave[iNode] = "data"
                          /\ toSlave[iNode] = <<>> /\ fromSlave'[iNode] = <<>>
                          /\ LOutData'[iNode] = <<iNode, InData>>
      <4> SUFFICES ASSUME ~Gone(iNode)
                   PROVE  /\ pcSlave[iNode] = "data"
                          /\ toSlave[iNode] = <<>> /\ fromSlave'[iNode] = <<>>
                          /\ LOutData'[iNode] = <<iNode, InData>>
        OBVIOUS
      <4>1. /\ fromSlave[iNode] # <<>>
            /\ NodeRes' = Head(fromSlave[iNode])
            /\ fromSlave' = [fromSlave EXCEPT ![iNode] = Tail(@)]
        BY <2>5 DEF MainRecv, RecvNodeRes, NodeResThen, Answered
      <4>2. /\ toSlave[iNode] = <<>>
            /\ fromSlave' = [fromSlave EXCEPT ![iNode] = <<>>]
        BY <1>0, <4>1, OneMessage
      <4>3. ~(iNode < iNode) /\ iNode >= iNode
        BY <1>0, Ranges
      <4>4. pcSlave[iNode] = "data" /\ fromSlave[iNode] = <<<<iNode, InData>>>>
        BY <1>0, <3>0, <4>1, <4>3
      <4>5. NodeRes' = <<iNode, InData>>
        BY <4>1, <4>4
      <4> QED
        BY <1>0, <3>0, <4>2, <4>4, <4>5
    <3>3. CASE iNode < iProcCount
      <4>1. pcMain' = "recv" /\ iNode' = iNode + 1
        BY <2>5, <3>3 DEF MainRecv
      <4>2. iNode \in Int /\ \A s \in Slaves : s \in Int
        BY <1>0, Ranges
      <4>3. SocketInv'
        BY <1>0, <3>0, <3>1, <3>2, <4>1
      <4>4. ASSUME NEW s \in Slaves, ~Gone(s), s < iNode + 1
            PROVE  /\ pcSlave[s] = "data"
                   /\ toSlave[s] = <<>> /\ fromSlave'[s] = <<>>
                   /\ LOutData'[s] = <<s, InData>>
        <5>1. CASE s = iNode
          BY <3>2, <4>4, <5>1
        <5>2. CASE s # iNode
          <6>1. s < iNode
            BY <4>2, <4>4, <5>2
          <6>2. Quiet(s) /\ LOutData[s] = <<s, InData>>
            BY <1>0, <3>0, <4>4, <6>1
          <6> QED
            BY <1>0, <3>0, <3>1, <5>2, <6>2
        <5> QED
          BY <5>1, <5>2
      <4>5. ASSUME NEW s \in Slaves, ~Gone(s), s >= iNode + 1
            PROVE  /\ pcSlave[s] = "data" /\ toSlave[s] \in {<<>>, <<InData>>}
                   /\ fromSlave'[s] \in {<<>>, <<<<s, InData>>>>}
        <5>1. s >= iNode /\ s # iNode
          BY <4>2, <4>5
        <5>2. /\ pcSlave[s] = "data" /\ toSlave[s] \in {<<>>, <<InData>>}
              /\ fromSlave[s] \in {<<>>, <<<<s, InData>>>>}
          BY <1>0, <3>0, <4>5, <5>1
        <5>3. fromSlave'[s] = fromSlave[s]
          BY <3>1, <5>1
        <5> QED
          BY <5>2, <5>3
      <4>6. BeamsInv'
        BY <3>0, <4>1, <4>4, <4>5
      <4> QED
        BY <4>3, <4>6
    <3>4. CASE ~(iNode < iProcCount)
      <4>1. pcMain' = "publish" /\ iNode' = 1
        BY <2>5, <3>4 DEF MainRecv
      <4>2. \A s \in Slaves : s < iNode \/ s = iNode
        BY <1>0, <3>4, Ranges, BeamAssumption
      <4> QED
        BY <1>0, <3>0, <3>1, <3>2, <4>1, <4>2
    <3> QED
      BY <3>3, <3>4
  <2>6. CASE MainExit
    BY <1>0, <2>6 DEF MainExit
  <2> QED
    BY <1>2, <2>1, <2>2, <2>3, <2>4, <2>5, <2>6 DEF Main
<1>3. ASSUME NEW s \in Slaves, Slave(s) \/ SlaveDies(s)
      PROVE  SocketInv' /\ BeamsInv'
  <2>0. UNCHANGED <<mainVars, bRun>>
    BY <1>3, SlaveLeaves
  <2>1. CASE SlaveStart(s)
    BY <1>0, <2>0, <2>1, SlaveStarts
  <2>2. CASE SlaveWork(s)
    BY <1>0, <2>0, <2>2, SlaveWorks
  <2>3. CASE SlaveEOF(s) \/ SlaveDies(s)
    BY <1>0, <2>0, <2>3 DEF SlaveEOF, SlaveDies
  <2> QED
    BY <1>3, <2>1, <2>2, <2>3 DEF Slave
<1> QED
  BY <1>1, <1>2, <1>3 DEF Next

\* What main does with the clients' data.
LEMMA MainPublishes ==
    ASSUME Main
    PROVE  UNCHANGED outVars \/ MainPublish
BY DEF Main, MainSetup, MainReady, MainCreate, MainTest, MainSem, MainGet,
       MainSend, MainRecv, MainExit

\* A block is published with the beam of every slave that lives, and a slave
\* that is gone does not come back.
LEMMA LiveStep == IInv /\ [Next]_vars => LiveChannelsAreRight'
<1> SUFFICES ASSUME IInv, [Next]_vars PROVE LiveChannelsAreRight'
  OBVIOUS
<1> USE DEF LiveChannelsAreRight
<1>0. /\ LiveChannelsAreRight /\ BeamsInv
      /\ pcSlave \in [Slaves -> {"params", "data", "gone"}]
  BY DEF IInv, TypeOK, SlaveTypeOK
<1>1. CASE Signal \/ Kill \/ Terminated \/ UNCHANGED vars \/ Input \/ Server
           \/ \E c \in Clients : Serve(c)
  BY <1>0, <1>1, OthersLeave, InputLeaves, ServerLeaves, ServeLeaves
<1>2. CASE Main
  <2>1. CASE MainPublish
    BY <1>0, <2>1 DEF MainPublish, BeamsInv
  <2>2. CASE ~MainPublish
    <3>1. UNCHANGED outVars
      BY <1>2, <2>2, MainPublishes
    <3>2. UNCHANGED pcSlave \/ \A s \in Slaves : pcSlave'[s] = "gone"
      BY <1>2, <2>2 DEF Main, MainSetup, MainReady, MainCreate, MainTest, MainSem,
                        MainGet, MainSend, MainRecv, MainExit
    <3> QED
      BY <1>0, <3>1, <3>2
  <2> QED
    BY <2>1, <2>2
<1>3. ASSUME NEW s \in Slaves, Slave(s) \/ SlaveDies(s)
      PROVE  LiveChannelsAreRight'
  <2>1. UNCHANGED outVars
    BY <1>3, SlaveLeaves
  <2>2. ~Gone(s) /\ \A t \in Slaves \ {s} : pcSlave'[t] = pcSlave[t]
    BY <1>0, <1>3 DEF Slave, SlaveStart, SlaveWork, SlaveEOF, SlaveDies
  <2> QED
    BY <1>0, <2>1, <2>2
<1> QED
  BY <1>1, <1>2, <1>3 DEF Next

\* No client is ahead of the master, and none wakes up for nothing.
LEMMA ClientStep == IInv /\ [Next]_vars => ClientInv'
<1> SUFFICES ASSUME IInv, [Next]_vars PROVE ClientInv'
  OBVIOUS
<1> USE DEF ClientInv
<1>0. /\ ClientInv /\ CndOut \subseteq Clients /\ iBlockCntr \in Nat
      /\ pc \in [Clients -> Streaming \cup {"unborn", "start", "gone"}]
      /\ iLBlockCntr \in [Clients -> Nat] /\ lost \in [Clients -> Int]
  BY DEF IInv, TypeOK, ClientTypeOK, MasterTypeOK
<1>1. CASE \/ Signal \/ Kill \/ Terminated \/ UNCHANGED vars \/ Input
           \/ Main /\ ~MainPublish
           \/ \E s \in Slaves : Slave(s) \/ SlaveDies(s)
  <2>1. UNCHANGED <<clVars, outVars>>
    BY <1>1, OthersLeave, MainLeaves, MainPublishes, InputLeaves, SlaveLeaves
  <2> QED
    BY <1>0, <2>1
<1>2. CASE MainPublish
  BY <1>0, <1>2 DEF MainPublish
<1>3. CASE Server
  BY <1>0, <1>3, ServerLeaves
<1>4. ASSUME NEW c \in Clients, Serve(c) PROVE ClientInv'
  <2>1. ASSUME NEW from, from # "wait", End(c, from) PROVE ClientInv'
    BY <1>0, <2>1 DEF End
  <2>2. CASE WakeUp(c)
    BY <1>0, <2>2 DEF WakeUp, Awake
  <2>3. CASE WaitOut(c)
    BY <1>0, <2>3 DEF WaitOut
  <2>4. CASE Start(c)
    BY <1>0, <2>1, <2>4 DEF Start
  <2>5. CASE Test(c)
    BY <1>0, <2>1, <2>5 DEF Test
  <2>6. CASE SendBlock(c)
    BY <1>0, <2>1, <2>6 DEF SendBlock
  <2> QED
    BY <1>4, <2>2, <2>3, <2>4, <2>5, <2>6 DEF Serve
<1> QED
  BY <1>1, <1>2, <1>3, <1>4 DEF Next
-----------------------------------------------------------------------------
\* Every step preserves the inductive invariant, which thus always holds.
LEMMA StepInv == IInv /\ [Next]_vars => IInv'
BY TypeStep, SemaphoreStep, SocketStep, LiveStep, ClientStep DEF IInv

THEOREM Invariance == Spec => []IInv
BY InitInv, StepInv, PTL DEF Spec

\* Every variable keeps its type.
THEOREM TypeCorrect == Spec => []TypeOK
<1>1. IInv => TypeOK
  BY DEF IInv
<1> QED
  BY Invariance, <1>1, PTL

\* The semaphore and the queue agree, whatever the two threads do meanwhile.
THEOREM SemaphoreIsExact == Spec => []SemaphoreCountsQueue
<1>1. IInv => SemaphoreCountsQueue
  BY DEF IInv
<1> QED
  BY Invariance, <1>1, PTL

\* However many slaves there are and whichever of them die when, the channels
\* of those that live are their beams of the block that is published.
THEOREM LiveChannels == Spec => []LiveChannelsAreRight
<1>1. IInv => LiveChannelsAreRight
  BY DEF IInv
<1> QED
  BY Invariance, <1>1, PTL
-----------------------------------------------------------------------------
\* Every step of the server is a step of the block stream, or invisible.
LEMMA StreamStep ==
    ASSUME IInv, [Next]_vars
    PROVE  [Stream!Next]_(Stream!vars)
<1>0. /\ ClientInv /\ iBlockCntr \in Nat
      /\ pc \in [Clients -> Streaming \cup {"unborn", "start", "gone"}]
      /\ iLBlockCntr \in [Clients -> Nat] /\ lost \in [Clients -> Int]
  BY DEF IInv, TypeOK, ClientTypeOK, MasterTypeOK
<1> DEFINE joined == {c \in Clients : pc[c] \in Streaming}
<1>a. ASSUME UNCHANGED <<iBlockCntr, joined, iLBlockCntr, lost>>
      PROVE  [Stream!Next]_(Stream!vars)
  BY <1>a DEF Stream!vars
<1>1. CASE \/ Signal \/ Kill \/ Terminated \/ UNCHANGED vars \/ Input
           \/ Main /\ ~MainPublish
           \/ \E s \in Slaves : Slave(s) \/ SlaveDies(s)
  <2>1. UNCHANGED <<clVars, outVars>>
    BY <1>1, OthersLeave, MainLeaves, MainPublishes, InputLeaves, SlaveLeaves
  <2> QED
    BY <1>a, <2>1
<1>2. CASE MainPublish
  <2>1. Stream!Publish
    BY <1>2 DEF MainPublish, Stream!Publish
  <2> QED
    BY <2>1 DEF Stream!Next
<1>3. CASE Server
  <2>1. UNCHANGED <<iBlockCntr, iLBlockCntr, lost>>
    BY <1>3, ServerLeaves
  <2>2. UNCHANGED joined
    BY <1>0, <1>3, ServerLeaves
  <2> QED
    BY <1>a, <2>1, <2>2
<1>4. ASSUME NEW c \in Clients, Serve(c)
      PROVE  [Stream!Next]_(Stream!vars)
  <2>0. UNCHANGED iBlockCntr
    BY <1>4, ServeLeaves
  <2>1. CASE End(c, "start")
    <3>1. iLBlockCntr[c] = 0 /\ lost[c] = 0
      BY <1>0, <2>1 DEF End, ClientInv
    <3>2. UNCHANGED <<iLBlockCntr, lost>>
      BY <1>0, <2>1, <3>1 DEF End
    <3>3. UNCHANGED joined
      BY <1>0, <2>1 DEF End
    <3> QED
      BY <1>a, <2>0, <3>2, <3>3
  <2>2. CASE End(c, "test") \/ End(c, "send")
    <3>1. Stream!Leave(c)
      BY <1>0, <2>0, <2>2 DEF End, Stream!Leave
    <3> QED
      BY <3>1 DEF Stream!Next
  <2>3. CASE Start(c) /\ Goto(c, "start", "test") /\ pc'[c] = "test"
    <3>1. Stream!Join(c)
      BY <1>0, <2>0, <2>3 DEF Start, End, Stream!Join
    <3> QED
      BY <3>1 DEF Stream!Next
  <2>4. CASE WakeUp(c)
    <3>1. iLBlockCntr[c] < iBlockCntr
      BY <1>0, <2>4 DEF WakeUp, Awake, ClientInv
    <3>2. UNCHANGED joined
      BY <1>0, <2>4 DEF WakeUp, Awake
    <3>3. iBlockCntr - (iLBlockCntr[c] + 1) = iBlockCntr - iLBlockCntr[c] - 1
      BY <1>0
    <3>4. /\ iLBlockCntr' = [iLBlockCntr EXCEPT ![c] = iBlockCntr]
          /\ lost' = [lost EXCEPT ![c] = @ + (iBlockCntr - iLBlockCntr[c] - 1)]
      BY <2>4, <3>3, Zenon DEF WakeUp, Awake
    <3>5. c \in joined
      BY <2>4 DEF WakeUp, Awake
    <3>6. Stream!Take(c)
      BY <2>0, <3>1, <3>2, <3>4, <3>5 DEF Stream!Take
    <3> QED
      BY <3>6 DEF Stream!Next
  <2>5. CASE \/ WaitOut(c)
             \/ Goto(c, "test", "lock") /\ UNCHANGED <<iLBlockCntr, lost>>
             \/ Goto(c, "send", "test") /\ UNCHANGED <<iLBlockCntr, lost>>
    <3>1. UNCHANGED <<iLBlockCntr, lost>>
      BY <2>5 DEF WaitOut
    <3>2. UNCHANGED joined
      BY <1>0, <2>5 DEF WaitOut
    <3> QED
      BY <1>a, <2>0, <3>1, <3>2
  <2>6. Start(c) => End(c, "start") \/ (Goto(c, "start", "test") /\ pc'[c] = "test")
    BY <1>0 DEF Start
  <2> QED
    BY <1>4, <2>1, <2>2, <2>3, <2>4, <2>5, <2>6 DEF Serve, Test, SendBlock
<1> QED
  BY <1>1, <1>2, <1>3, <1>4 DEF Next

\* Clients of the beams see a freely spinning stream of blocks.
THEOREM Refinement == Spec => ImplementsBlockStream
<1>1. Init => Stream!Init
  BY DEF Init, Stream!Init
<1>2. IInv /\ [Next]_vars => [Stream!Next]_(Stream!vars)
  BY StreamStep
<1> QED
  BY Invariance, <1>1, <1>2, PTL DEF Spec, ImplementsBlockStream, Stream!Spec

\* What the master is caught in (Caught) it is caught in for ever: no thread
\* posts the semaphore once InDataThread has ended, and a slave that was sent
\* nothing sends nothing.  Only the death of that slave gets the master on,
\* so that the exception StopEndsUnlessCaught makes is a real hang.
CaughtForGood ==
    [][Caught => Caught' \/ (iNode' = iNode /\ pcSlave'[iNode] = "gone")]_vars

\* Only the death of the slave it waits for frees a master that is caught.
THEOREM HangIsForGood == Spec => CaughtForGood
<1> DEFINE A == Caught => Caught' \/ (iNode' = iNode /\ pcSlave'[iNode] = "gone")
<1>1. ASSUME IInv, [Next]_vars PROVE [A]_vars
  <2> SUFFICES ASSUME Caught PROVE A
    OBVIOUS
  <2>0. /\ iNode \in Slaves /\ DOMAIN fromSlave = Slaves /\ DOMAIN toSlave = Slaves
        /\ DOMAIN pcSlave = Slaves
    BY <1>1 DEF IInv, TypeOK, MasterTypeOK, SlaveTypeOK
  <2>1. CASE Signal \/ Kill \/ Terminated \/ UNCHANGED vars
    BY <2>1, OthersLeave DEF Caught, Answered, Gone
  <2>2. ~Main
    <3>1. pcMain \in {"sem", "ready", "recv"}
      BY DEF Caught
    <3>2. ~MainSem
      <4>1. pcMain = "sem" => SemIn = 0
        BY DEF Caught
      <4> QED
        BY <4>1 DEF MainSem
    <3>3. pcMain \in {"ready", "recv"} => ~Answered(iNode) /\ ~Gone(iNode)
      BY DEF Caught
    <3>4. ~MainReady /\ ~MainRecv
      BY <3>3 DEF MainReady, MainRecv, RecvNodeRes, NodeResThen
    <3>5. /\ ~MainSetup /\ ~MainCreate /\ ~MainTest /\ ~MainGet /\ ~MainSend
          /\ ~MainPublish /\ ~MainExit
      BY <3>1 DEF MainSetup, MainCreate, MainTest, MainGet, MainSend, MainPublish, MainExit
    <3> QED
      BY <3>2, <3>4, <3>5 DEF Main
  <2>3. CASE Input
    <3>1. UNCHANGED <<mainVars, slaveVars>>
      BY <2>3, InputLeaves
    <3>2. pcIn \notin {"ended", "dead"}
      BY <2>3 DEF Input, InTest, InRead, InPut, PutBlock, PostBlock, InGoto
    <3> QED
      BY <3>1, <3>2 DEF Caught, Answered, Gone
  <2>4. CASE Server \/ \E c \in Clients : Serve(c)
    <3>1. UNCHANGED <<mainVars, inVars, slaveVars>>
      BY <2>4, ServerLeaves, ServeLeaves
    <3> QED
      BY <3>1 DEF Caught, Answered, Gone
  <2>5. ASSUME NEW s \in Slaves, Slave(s) \/ SlaveDies(s) PROVE A
    <3>1. UNCHANGED <<mainVars, inVars>>
      BY <2>5, SlaveLeaves
    <3>2. \A t \in Slaves : t # s =>
             UNCHANGED <<fromSlave[t], toSlave[t], pcSlave[t]>>
      BY <2>0, <2>5 DEF Slave, SlaveStart, SlaveWork, SlaveEOF, SlaveDies, SlaveReads,
                        SlaveSends
    <3>3. toSlave[s] = <<>> => pcSlave'[s] = "gone"
      BY <2>0, <2>5 DEF Slave, SlaveStart, SlaveWork, SlaveEOF, SlaveDies, SlaveReads
    <3> QED
      BY <2>0, <3>1, <3>2, <3>3 DEF Caught, Answered, Gone
  <2> QED
    BY <1>1, <2>1, <2>2, <2>3, <2>4, <2>5 DEF Next
<1> QED
  BY Invariance, <1>1, PTL DEF Spec, CaughtForGood

\* The same stream, with the theorems about it.
Proved == INSTANCE BlockStreamProofs WITH
    published <- iBlockCntr,
    joined <- {c \in Clients : pc[c] \in Streaming},
    newest <- iLBlockCntr,
    missed <- lost

\* What the refinement is for: whichever slaves die, ServeClientThread takes
\* newer beams only, and the losses it counts are the blocks between two takes.
THEOREM StreamPromise ==
    Spec => []Stream!NothingInvented /\ Stream!NewerAndCounted
<1>1. Stream!Spec => Proved!Spec
  BY DEF Stream!Spec, Stream!Init, Stream!Next, Stream!vars, Stream!Publish,
         Stream!Join, Stream!Take, Stream!Leave, Proved!Spec, Proved!Init,
         Proved!Next, Proved!vars, Proved!Publish, Proved!Join, Proved!Take,
         Proved!Leave
<1>2. Proved!Spec => []Proved!NothingInvented /\ Proved!NewerAndCounted
  BY Proved!NoInventions, Proved!Promise
<1>3. Spec => Stream!Spec
  BY Refinement DEF ImplementsBlockStream
<1>4. Proved!NothingInvented <=> Stream!NothingInvented
  BY DEF Proved!NothingInvented, Stream!NothingInvented
<1>5. Proved!NewerAndCounted => Stream!NewerAndCounted
  BY DEF Proved!NewerAndCounted, Stream!NewerAndCounted, Proved!vars, Stream!vars
<1> QED
  BY <1>1, <1>2, <1>3, <1>4, <1>5, PTL
=============================================================================
