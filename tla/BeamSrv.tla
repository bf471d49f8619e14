------------------------------ MODULE BeamSrv ------------------------------
(***************************************************************************)
(* beamsrv, the beamforming input server (BeamSrv.cc).                     *)
(*                                                                         *)
(* The master forks a slave process per beam, with a socket pair to each.  *)
(* Its InDataThread puts blocks from streamdist into a queue and posts a   *)
(* semaphore; its main thread takes one, sends it to every slave, receives *)
(* every slave's beam in turn, and publishes the beams as the channels of  *)
(* one block; ServerThread and a thread per client pass it on.             *)
(*                                                                         *)
(* A block is its number, a beam <<slave, block>>.  A socket is a sequence *)
(* of messages, which outlives its writer; a read finds the end of it when *)
(* nobody has the other end open.  Reading part of a block at the end of   *)
(* the input counts as reading a block.  The array is of a type that beams *)
(* are formed for (dipole, line), with as many beams as slaves.  MtxIn and *)
(* MtxOut protect what the step around them touches, and need no variable. *)
(*                                                                         *)
(* PostFirst, AlsoZero, NodeResOfAny, EndStaysOpen, CatchUpForgotten and   *)
(* ServerIgnoresStop are mistakes the code does not make.                  *)
(***************************************************************************)
EXTENDS Integers, Sequences

CONSTANTS iProcCount,     \* the number of slaves
          Clients,        \* connections, each served by a thread of its own
          MaxBlocks       \* the input sends at most so many blocks, and one
                          \* more to a server that has been told to stop

Slaves == 1 .. iProcCount

ASSUME BeamAssumption == iProcCount \in Nat \ {0} /\ MaxBlocks \in Nat

VARIABLES
    proc,            \* the master: "running", "exited", or "killed"
    bRun,            \* FALSE once somebody has called Abort(), or a signal
    pcMain,          \* where the main thread is
    iNode,           \* the slave it waits for
    InData,          \* the block it has in hand
    NodeRes,         \* the last beam it has received
    LOutData,        \* its channels, s -> beam
    pcIn,            \* where InDataThread is
    read,            \* how many blocks it has read
    InBuf,           \* the queue between the two,
    SemIn,           \*   and its semaphore
    pcServer,        \* where ServerThread is
    OutData,         \* shared: the newest channels, s -> beam
    outBlk,          \* the block they are formed of
    iBlockCntr,      \* shared: how many blocks were published
    CndOut           \* the client threads that wait for one

VARIABLES
    pcSlave,         \* s -> where slave s is
    toSlave,         \* s -> what the master sent that s has not read
    fromSlave        \* s -> what s sent that the master has not read

VARIABLES
    pc,              \* c -> where the thread of c is
    iLBlockCntr,     \* c -> the number of the block c is at
    lost             \* c -> the sum of the "blocks lost" reports

mainVars  == <<pcMain, iNode, InData, NodeRes, LOutData>>
inVars    == <<pcIn, read, InBuf, SemIn>>
outVars   == <<OutData, outBlk, iBlockCntr, CndOut>>
slaveVars == <<pcSlave, toSlave, fromSlave>>
clVars    == <<pc, iLBlockCntr, lost>>

vars == <<proc, bRun, mainVars, inVars, pcServer, outVars, slaveVars, clVars>>

NoBeam == <<0, 0>>
PARAMS == 0          \* the first message to a slave, and
READY  == NoBeam     \*   its answer; blocks and slaves count from 1
-----------------------------------------------------------------------------
\* The slaves forked, the master constructed.
Init ==
    /\ proc = "running" /\ bRun = TRUE
    /\ pcMain = "setup" /\ iNode = 1 /\ InData = 0
    /\ NodeRes = NoBeam /\ LOutData = [s \in Slaves |-> NoBeam]
    /\ pcIn = "none" /\ read = 0 /\ InBuf = <<>> /\ SemIn = 0
    /\ pcServer = "none"
    /\ OutData = [s \in Slaves |-> NoBeam] /\ outBlk = 0
    /\ iBlockCntr = 0 /\ CndOut = {}
    /\ pcSlave = [s \in Slaves |-> "params"]
    /\ toSlave = [s \in Slaves |-> <<>>]
    /\ fromSlave = [s \in Slaves |-> <<>>]
    /\ pc = [c \in Clients |-> "unborn"]
    /\ iLBlockCntr = [c \in Clients |-> 0]
    /\ lost = [c \in Clients |-> 0]

Gone(s) == pcSlave[s] = "gone"

\* Sending goes from slave to slave and stops at the first that is gone.
Reached == {s \in Slaves : \A t \in 1 .. s : ~Gone(t)}

Send(m) == toSlave' = [s \in Slaves |-> IF s \in Reached THEN Append(toSlave[s], m)
                                        ELSE toSlave[s]]
-----------------------------------------------------------------------------
(* The master's signals and its main thread.                               *)

\* SIGINT, SIGHUP, SIGTERM.
Signal ==
    /\ proc = "running" /\ bRun
    /\ bRun' = FALSE
    /\ UNCHANGED <<proc, mainVars, inVars, pcServer, outVars, slaveVars, clVars>>

\* The master is killed, or crashes, at any point.
Kill ==
    /\ proc = "running"
    /\ proc' = "killed"
    /\ UNCHANGED <<bRun, mainVars, inVars, pcServer, outVars, slaveVars, clVars>>

MainGoto(from, to) ==
    /\ proc = "running"
    /\ pcMain = from /\ pcMain' = to
    /\ UNCHANGED clVars

\* Configuration, port, connection to streamdist, filters, enough processes
\* and channels: whatever fails, Abort() is called and Main() goes on.
\* SendNodeParams() is skipped only if the last of these fails.
MainSetup ==
    /\ MainGoto("setup", "ready")
    /\ \/ Send(PARAMS) /\ bRun' \in {FALSE, bRun /\ Reached = Slaves}
       \/ bRun' = FALSE /\ UNCHANGED toSlave
    /\ UNCHANGED <<proc, iNode, InData, NodeRes, LOutData, inVars, pcServer,
                   outVars, pcSlave, fromSlave>>

Answered(s) == fromSlave[s] # <<>>

\* WaitReady(): an answer of every slave in turn, or the end of a socket.
MainReady ==
    /\ \/ /\ Answered(iNode)
          /\ fromSlave' = [fromSlave EXCEPT ![iNode] = Tail(@)]
          /\ IF iNode < iProcCount
             THEN MainGoto("ready", "ready") /\ iNode' = iNode + 1
             ELSE MainGoto("ready", "create") /\ iNode' = 1
          /\ UNCHANGED bRun
       \/ /\ ~Answered(iNode) /\ Gone(iNode)
          /\ MainGoto("ready", "create") /\ iNode' = 1
          /\ bRun' = FALSE
          /\ UNCHANGED fromSlave
    /\ UNCHANGED <<proc, InData, NodeRes, LOutData, inVars, pcServer, outVars,
                   pcSlave, toSlave>>

MainCreate ==
    /\ MainGoto("create", "test")
    /\ pcServer' = "test"
    /\ pcIn' = "test"
    /\ UNCHANGED <<proc, bRun, iNode, InData, NodeRes, LOutData, read, InBuf,
                   SemIn, outVars, slaveVars>>

\* while (bRun); and, at the end of the loop, Abort().
MainTest ==
    /\ MainGoto("test", IF bRun THEN "sem" ELSE "join")
    /\ UNCHANGED <<proc, bRun, iNode, InData, NodeRes, LOutData, inVars,
                   pcServer, outVars, slaveVars>>

\* SemIn.Wait()
MainSem ==
    /\ MainGoto("sem", "get")
    /\ SemIn > 0
    /\ SemIn' = SemIn - 1
    /\ UNCHANGED <<proc, bRun, iNode, InData, NodeRes, LOutData, pcIn, read,
                   InBuf, pcServer, outVars, slaveVars>>

\* InBuf.Get(), under MtxIn, and then if (!bRun) break; the decimating
\* filters may keep the block to themselves.
MainGet ==
    /\ \/ InBuf = <<>> /\ MainGoto("get", "test") /\ UNCHANGED <<InData, InBuf>>
       \/ /\ InBuf # <<>>
          /\ InData' = Head(InBuf) /\ InBuf' = Tail(InBuf)
          /\ IF bRun THEN MainGoto("get", "send") \/ MainGoto("get", "test")
             ELSE MainGoto("get", "join")
    /\ UNCHANGED <<proc, bRun, iNode, NodeRes, LOutData, pcIn, read, SemIn,
                   pcServer, outVars, slaveVars>>

\* SendInData(), whose result is ignored.
MainSend ==
    /\ MainGoto("send", "recv")
    /\ Send(InData)
    /\ UNCHANGED <<proc, bRun, iNode, InData, NodeRes, LOutData, inVars,
                   pcServer, outVars, pcSlave, fromSlave>>

NodeResThen(s) ==
    IF Answered(s)
    THEN /\ NodeRes' = Head(fromSlave[s])
         /\ fromSlave' = [fromSlave EXCEPT ![s] = Tail(@)]
    ELSE Gone(s) /\ UNCHANGED <<NodeRes, fromSlave>>

NodeResOfAny == \E s \in Slaves : NodeResThen(s)

\* recv() of a whole beam of the slave whose turn it is.  If it is gone,
\* what NodeRes holds is taken for its beam.
RecvNodeRes == NodeResThen(iNode)

\* DSP.Pack() makes the beam a channel of LOutData.
MainRecv ==
    /\ RecvNodeRes
    /\ LOutData' = [LOutData EXCEPT ![iNode] = NodeRes']
    /\ IF iNode < iProcCount
       THEN MainGoto("recv", "recv") /\ iNode' = iNode + 1
       ELSE MainGoto("recv", "publish") /\ iNode' = 1
    /\ UNCHANGED <<proc, bRun, InData, inVars, pcServer, outVars, pcSlave,
                   toSlave>>

\* Under MtxOut.
MainPublish ==
    /\ MainGoto("publish", "test")
    /\ OutData' = LOutData /\ outBlk' = InData
    /\ iBlockCntr' = iBlockCntr + 1
    /\ CndOut' = {}
    /\ UNCHANGED <<proc, bRun, iNode, InData, NodeRes, LOutData, inVars,
                   pcServer, slaveVars>>

\* Abort(), both threads have ended; each slave is sent SIGHUP, whose handler
\* exits, and waited for.
MainExit ==
    /\ MainGoto("join", "exit")
    /\ pcIn \in {"ended", "dead"} /\ pcServer = "ended"
    /\ proc' = "exited"
    /\ pcSlave' = [s \in Slaves |-> "gone"]
    /\ UNCHANGED <<bRun, iNode, InData, NodeRes, LOutData, inVars, pcServer,
                   outVars, toSlave, fromSlave>>
-----------------------------------------------------------------------------
(* InDataThread and ServerThread.                                          *)

InGoto(from, to) ==
    /\ proc = "running"
    /\ pcIn = from /\ pcIn' = to
    /\ UNCHANGED <<proc, mainVars, pcServer, outVars, slaveVars, clVars>>

InTest ==
    /\ InGoto("test", IF bRun THEN "read" ELSE "ended")
    /\ UNCHANGED <<bRun, read, InBuf, SemIn>>

\* ReadN() of a block; or the end of the input: Abort(), without a Post().
InRead ==
    /\ \/ /\ InGoto("read", "put") /\ UNCHANGED bRun
          /\ read < MaxBlocks \/ (~bRun /\ read = MaxBlocks)
          /\ read' = read + 1
       \/ InGoto("read", "dead") /\ bRun' = FALSE /\ UNCHANGED read
    /\ UNCHANGED <<InBuf, SemIn>>

PutBlock(from, to) ==
    /\ InGoto(from, to)
    /\ InBuf' = Append(InBuf, read)
    /\ UNCHANGED <<bRun, read, SemIn>>

PostBlock(from, to) ==
    /\ InGoto(from, to)
    /\ SemIn' = SemIn + 1
    /\ UNCHANGED <<bRun, read, InBuf>>

PostFirst == PostBlock("put", "post") \/ PutBlock("post", "test")

\* InBuf.Put() under MtxIn, then SemIn.Post().
InPut == PutBlock("put", "post") \/ PostBlock("post", "test")

ServerGoto(from, to) ==
    /\ proc = "running"
    /\ pcServer = from /\ pcServer' = to
    /\ UNCHANGED <<proc, bRun, mainVars, inVars, outVars, slaveVars,
                   iLBlockCntr, lost>>

ServerTestThen(run) ==
    ServerGoto("test", IF run THEN "accept" ELSE "ended") /\ UNCHANGED pc

ServerIgnoresStop == ServerTestThen(TRUE)

ServerTest == ServerTestThen(bRun)

\* WaitForConnect(): a connection, and a thread for it; or BS_ACCEPT_TO.
ServerAccept ==
    /\ ServerGoto("accept", "test")
    /\ \/ UNCHANGED pc
       \/ \E c \in Clients : pc[c] = "unborn" /\ pc' = [pc EXCEPT ![c] = "start"]
-----------------------------------------------------------------------------
(* ServeClientThread, the thread of c.                                     *)

Goto(c, from, to) ==
    /\ proc = "running"
    /\ pc[c] = from /\ pc' = [pc EXCEPT ![c] = to]
    /\ UNCHANGED <<proc, bRun, mainVars, inVars, pcServer, OutData, outBlk,
                   iBlockCntr, slaveVars>>

End(c, from) ==
    /\ Goto(c, from, "gone")
    /\ iLBlockCntr' = [iLBlockCntr EXCEPT ![c] = 0]
    /\ lost' = [lost EXCEPT ![c] = 0]
    /\ UNCHANGED CndOut

\* The header is sent, and iBlockCntr read under MtxOut.
Start(c) ==
    \/ End(c, "start")
    \/ /\ Goto(c, "start", "test")
       /\ iLBlockCntr' = [iLBlockCntr EXCEPT ![c] = iBlockCntr]
       /\ UNCHANGED <<lost, CndOut>>

Test(c) ==
    \/ bRun /\ Goto(c, "test", "lock") /\ UNCHANGED <<iLBlockCntr, lost, CndOut>>
    \/ ~bRun /\ End(c, "test")

\* MtxOut.Wait() and CndOut.Wait(), without a predicate.
WaitOut(c) ==
    /\ Goto(c, "lock", "wait")
    /\ CndOut' = CndOut \cup {c}
    /\ UNCHANGED <<iLBlockCntr, lost>>

Awake(c, to) ==
    /\ c \notin CndOut
    /\ Goto(c, "wait", "send")
    /\ lost' = [lost EXCEPT ![c] = @ + (iBlockCntr - (iLBlockCntr[c] + 1))]
    /\ iLBlockCntr' = [iLBlockCntr EXCEPT ![c] = to]
    /\ UNCHANGED CndOut

CatchUpForgotten(c) == Awake(c, iLBlockCntr[c] + 1)

\* Notified: OutData is copied, the counters are compared, all under MtxOut.
WakeUp(c) == Awake(c, iBlockCntr)

SendBlock(c) ==
    \/ End(c, "send")
    \/ Goto(c, "send", "test") /\ UNCHANGED <<iLBlockCntr, lost, CndOut>>
-----------------------------------------------------------------------------
(* The slaves.                                                             *)

SlaveGoto(s, from, to) ==
    /\ pcSlave[s] = from /\ pcSlave' = [pcSlave EXCEPT ![s] = to]
    /\ UNCHANGED <<proc, bRun, mainVars, inVars, pcServer, outVars, clVars>>

SlaveReads(s) ==
    /\ toSlave[s] # <<>>
    /\ toSlave' = [toSlave EXCEPT ![s] = Tail(@)]

SlaveSends(s, ms) == fromSlave' = [fromSlave EXCEPT ![s] = @ \o ms]

\* Who has the master's end of the socket of s open, once the master is
\* gone: the slaves forked after s, which inherited it.
Inherited(s) == {t \in Slaves : t > s}
EndStaysOpen(s) == {t \in Slaves : t >= s}
Holders(s) == Inherited(s)

\* RecvParams(), the beamformer, SendReady(); or it cannot be initialised.
SlaveStart(s) ==
    /\ SlaveReads(s)
    /\ \/ SlaveGoto(s, "params", "data") /\ SlaveSends(s, <<READY>>)
       \/ SlaveGoto(s, "params", "gone") /\ UNCHANGED fromSlave

Beam(s) == <<s, Head(toSlave[s])>>

AlsoZero(s) == <<Beam(s), Beam(s)>>

\* What the beamformer has ready, or zeros; one message in any case.
Result(s) == <<Beam(s)>>

\* RecvInData(), Put() and Get(), SendRes().
SlaveWork(s) ==
    /\ SlaveGoto(s, "data", "data")
    /\ SlaveReads(s)
    /\ SlaveSends(s, Result(s))

\* A read finds the end of the socket, and the process ends.
SlaveEOF(s) ==
    /\ toSlave[s] = <<>>
    /\ proc # "running" /\ \A t \in Holders(s) : Gone(t)
    /\ SlaveGoto(s, "params", "gone") \/ SlaveGoto(s, "data", "gone")
    /\ UNCHANGED <<toSlave, fromSlave>>

\* SIGINT or SIGKILL, or a crash.
SlaveDies(s) ==
    /\ SlaveGoto(s, "params", "gone") \/ SlaveGoto(s, "data", "gone")
    /\ UNCHANGED <<toSlave, fromSlave>>
-----------------------------------------------------------------------------
Main ==
    \/ MainSetup \/ MainReady \/ MainCreate \/ MainTest \/ MainSem \/ MainGet
    \/ MainSend \/ MainRecv \/ MainPublish \/ MainExit

Input == InTest \/ InRead \/ InPut

Server == ServerTest \/ ServerAccept

Serve(c) == Start(c) \/ Test(c) \/ WaitOut(c) \/ WakeUp(c) \/ SendBlock(c)

Slave(s) == SlaveStart(s) \/ SlaveWork(s) \/ SlaveEOF(s)

Terminated ==
    /\ proc # "running"
    /\ \A s \in Slaves : Gone(s)
    /\ UNCHANGED vars

Next ==
    \/ Signal \/ Kill \/ Main \/ Input \/ Server
    \/ \E c \in Clients : Serve(c)
    \/ \E s \in Slaves : Slave(s) \/ SlaveDies(s)
    \/ Terminated

Spec == Init /\ [][Next]_vars

\* Threads and slaves are scheduled, the input delivers a block or ends.
\* Nobody has to kill or stop anything, and clients need not come or read.
Fairness ==
    /\ WF_vars(Main) /\ WF_vars(Input) /\ WF_vars(Server)
    /\ \A s \in Slaves : WF_vars(Slave(s))

FairSpec == Spec /\ Fairness
-----------------------------------------------------------------------------
Streaming == {"test", "lock", "wait", "send"}

Blocks == 0 .. MaxBlocks + 1
Beams == (0 .. iProcCount) \X Blocks

MasterTypeOK ==
    /\ proc \in {"running", "exited", "killed"}
    /\ bRun \in BOOLEAN
    /\ pcMain \in {"setup", "ready", "create", "test", "sem", "get", "send",
                   "recv", "publish", "join", "exit"}
    /\ iNode \in Slaves
    /\ InData \in Blocks /\ NodeRes \in Beams
    /\ LOutData \in [Slaves -> Beams]
    /\ pcIn \in {"none", "test", "read", "put", "post", "ended", "dead"}
    /\ read \in Blocks /\ SemIn \in Nat
    /\ InBuf \in Seq(Blocks)
    /\ pcServer \in {"none", "test", "accept", "ended"}
    /\ OutData \in [Slaves -> Beams] /\ outBlk \in Blocks
    /\ iBlockCntr \in Nat

SlaveTypeOK ==
    /\ pcSlave \in [Slaves -> {"params", "data", "gone"}]
    /\ toSlave \in [Slaves -> Seq(Blocks)] /\ fromSlave \in [Slaves -> Seq(Beams)]
    /\ \A s \in Slaves : Len(toSlave[s]) + Len(fromSlave[s]) <= 1

ClientTypeOK ==
    /\ CndOut \subseteq Clients
    /\ pc \in [Clients -> Streaming \cup {"unborn", "start", "gone"}]
    /\ iLBlockCntr \in [Clients -> Nat] /\ lost \in [Clients -> Int]

\* Every variable keeps its type; the sockets between the master and a slave
\* hold no more than a message.
TypeOK == MasterTypeOK /\ SlaveTypeOK /\ ClientTypeOK

\* The semaphore never runs ahead of the queue: when ProcessLoop is let
\* through, a block is there, and no block is left without its post.
SemaphoreCountsQueue ==
    Len(InBuf) = SemIn + (IF pcIn = "post" THEN 1 ELSE 0)
                       + (IF pcMain = "get" THEN 1 ELSE 0)

\* "Each beam is represented as a channel at output": the channel of a slave
\* that lives is its own beam, formed of the block published, whatever other
\* slaves did at whatever moment.  (The channel of a dead one is whatever was
\* received last, perhaps another's beam.)
LiveChannelsAreRight ==
    iBlockCntr > 0 =>
        \A s \in Slaves : ~Gone(s) => OutData[s] = <<s, outBlk>>

\* The clients of the beams see a freely spinning stream, with a true count
\* of the blocks they miss.
Stream == INSTANCE BlockStream WITH
    published <- iBlockCntr,
    joined    <- {c \in Clients : pc[c] \in Streaming},
    newest    <- iLBlockCntr,
    missed    <- lost

ImplementsBlockStream == Stream!Spec

\* A master that is gone, even killed, takes its slaves with it: the end of
\* the socket reaches the last one, and then the one before it.
SlavesDoNotSurvive == proc # "running" ~> \A s \in Slaves : Gone(s)

\* What the master can be caught in for ever: the semaphore, once its input
\* thread has ended; and the answer of a slave that has nothing to answer,
\* because sending stopped short of it.
Caught ==
    \/ pcMain = "sem" /\ SemIn = 0 /\ pcIn \in {"ended", "dead"}
    \/ /\ pcMain \in {"ready", "recv"}
       /\ ~Gone(iNode) /\ ~Answered(iNode) /\ toSlave[iNode] = <<>>

\* Told to stop, by a signal or by its input, the server ends, unless it is
\* caught.  Neither clients nor slaves at work keep it.
StopEndsUnlessCaught == ~bRun ~> proc # "running" \/ Caught
-----------------------------------------------------------------------------
(* The inductive invariant of the proofs in BeamSrvProofs.tla.             *)

\* There is no input before MainCreate.
StartInv == pcMain \in {"setup", "ready", "create"} => pcIn = "none"

Quiet(s) == pcSlave[s] = "data" /\ toSlave[s] = <<>> /\ fromSlave[s] = <<>>

\* What is on its way to and from slave s, which lives: nothing, unless the
\* master waits for its answer, or never will again.
SocketInv ==
    /\ pcMain \notin {"ready", "recv"} => iNode = 1
    /\ pcMain = "setup" => \A s \in Slaves : toSlave[s] = <<>> /\ fromSlave[s] = <<>>
    /\ \A s \in Slaves : ~Gone(s) =>
          /\ fromSlave[s] # <<>> => pcSlave[s] = "data"
          /\ pcMain = "ready" /\ s < iNode => Quiet(s)
          /\ pcMain \in {"create", "test"} /\ bRun => Quiet(s)
          /\ pcMain \in {"sem", "get", "send"} => Quiet(s)

\* What the master has of the beams of the block in its hands: those of the
\* slaves before iNode; the others' are about to come, if ever.
BeamsInv ==
    \A s \in Slaves : ~Gone(s) =>
        /\ pcMain = "publish" \/ (pcMain = "recv" /\ s < iNode) =>
              Quiet(s) /\ LOutData[s] = <<s, InData>>
        /\ pcMain = "recv" /\ s >= iNode =>
              /\ pcSlave[s] = "data"
              /\ toSlave[s] \in {<<>>, <<InData>>}
              /\ fromSlave[s] \in {<<>>, <<<<s, InData>>>>}

\* A client is never ahead of the master, and one that is awake has a block
\* to take.
ClientInv ==
    /\ \A c \in CndOut : pc[c] = "wait"
    /\ \A c \in Clients :
          /\ pc[c] \in Streaming => iLBlockCntr[c] <= iBlockCntr
          /\ pc[c] = "wait" /\ c \notin CndOut => iLBlockCntr[c] < iBlockCntr
          /\ pc[c] \notin Streaming => iLBlockCntr[c] = 0 /\ lost[c] = 0

IInv == /\ TypeOK /\ StartInv /\ SocketInv /\ BeamsInv /\ ClientInv
        /\ SemaphoreCountsQueue /\ LiveChannelsAreRight
=============================================================================
