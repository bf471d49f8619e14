------------------------------- MODULE Locate -------------------------------
(***************************************************************************)
(* locate, the target locator (Locate.cc, LocateSystem.cc), an MPI program.*)
(*                                                                         *)
(* Rank 0 is the master: it sends each of the first ranks the parameters   *)
(* of a sensor, collects the matrices that the slaves send, and gives the  *)
(* average of every round to a thread per client.  The others are slaves:  *)
(* each turns what the direction server of its sensor says into a matrix   *)
(* for the master, until a control message tells it to stop.               *)
(*                                                                         *)
(* A matrix is its number, k of slave s, and a sum of matrices is the      *)
(* sequence of those added.  A message is there as soon as it is sent.     *)
(* MPI_Send() may return at once or when the message is received, and what *)
(* it does with a rank that does not exist is MPI's choice.  MtxResMsg     *)
(* protects what the step around it touches, and needs no variable.        *)
(*                                                                         *)
(* CountFromZero, SumKept and StopsFirstOnly are mistakes the code does not  *)
(* make.                                                                   *)
(***************************************************************************)
EXTENDS Integers, Sequences, FiniteSets

CONSTANTS iNodeCount,     \* how many processes mpirun has started
          Sensors,        \* how many lines the list of sensors has
          Clients,        \* connections, each served by a thread of its own
          MaxResults      \* a direction server sends at most so many results,
                          \* and one more once the master was told to stop

ASSUME LocateAssumption ==
    iNodeCount \in Nat \ {0} /\ Sensors \in Nat /\ MaxResults \in Nat

Slaves == 1 .. iNodeCount - 1

VARIABLES
    master,          \* "running", "ended" or "aborted" by MPI
    bRun,            \* FALSE once Stop() was called
    pcMain,          \* where the main thread is
    iStop,           \* the rank Stop() sends to next; 0 outside of Stop()
    pcProc,          \* where ProcessThread is
    iNodeCntr,       \* its count of messages, from 1
    fpResults,       \* what it has added up
    lResultCount,    \*   and by how much it will divide that
    ResMsg,          \* shared: the newest round: what was added up, divisor
    round            \* how many rounds there were

VARIABLES
    pcSlave,         \* s -> where slave s is
    toSlave,         \* s -> the messages to s, by their tags
    fromSlave,       \* s -> the matrices of s that are on their way
    results          \* s -> how many matrices s has sent

VARIABLES
    pc               \* c -> where the thread of c is

procVars   == <<pcProc, iNodeCntr, fpResults, lResultCount, ResMsg, round>>
slaveVars  == <<pcSlave, toSlave, fromSlave, results>>

vars == <<master, bRun, pcMain, iStop, procVars, slaveVars, pc>>
-----------------------------------------------------------------------------
Init ==
    /\ master = "running" /\ bRun = TRUE
    /\ pcMain = "setup" /\ iStop = 0
    /\ pcProc = "none" /\ iNodeCntr = 1
    /\ fpResults = <<>> /\ lResultCount = 0
    /\ ResMsg = [of |-> <<>>, divisor |-> 0] /\ round = 0
    /\ pcSlave = [s \in Slaves |-> "params"]
    /\ toSlave = [s \in Slaves |-> <<>>]
    /\ fromSlave = [s \in Slaves |-> <<>>]
    /\ results = [s \in Slaves |-> 0]
    /\ pc = [c \in Clients |-> "none"]
-----------------------------------------------------------------------------
(* The master's main thread, and the signal it takes.                      *)

\* SIGINT: the handler, in the main thread, calls Stop().
Signal ==
    /\ master = "running" /\ bRun
    /\ bRun' = FALSE
    /\ iStop' = 1
    /\ UNCHANGED <<master, pcMain, procVars, slaveVars, pc>>

StopsFirstOnly(s) == s = 1

\* Whether Stop() sends to rank s, from 1 on.
StopsTo(s) == s <= iNodeCount

\* Stop() sends to ranks 1 to iNodeCount: the last of them is not there, and
\* MPI aborts the program or returns an error.
StopSend ==
    /\ master = "running" /\ iStop > 0
    /\ IF iStop \in Slaves
       THEN /\ toSlave' = [toSlave EXCEPT ![iStop] = Append(@, "STOP")]
            /\ UNCHANGED <<master, pcSlave>>
       ELSE /\ UNCHANGED toSlave
            /\ \/ UNCHANGED <<master, pcSlave>>
               \/ /\ master' = "aborted"
                  /\ pcSlave' = [s \in Slaves |-> "ended"]
    /\ iStop' = IF StopsTo(iStop + 1) THEN iStop + 1 ELSE 0
    /\ UNCHANGED <<bRun, pcMain, procVars, fromSlave, results, pc>>

MainGoto(from, to) ==
    /\ master = "running" /\ iStop = 0
    /\ pcMain = from /\ pcMain' = to
    /\ UNCHANGED <<bRun, iStop, iNodeCntr, fpResults, lResultCount, ResMsg,
                   round, pcSlave, fromSlave, results>>

\* SendParams(), for as many sensors as there are slaves.
SendParams ==
    toSlave' = [s \in Slaves |-> IF s <= Sensors THEN Append(toSlave[s], "PARAM")
                                 ELSE toSlave[s]]

\* Initialize() and Bind(); whatever fails, Main() returns without Stop().
MainSetup ==
    \/ /\ MainGoto("setup", "test")
       /\ SendParams
       /\ pcProc' = "test"
       /\ UNCHANGED <<master, pc>>
    \/ /\ MainGoto("setup", "over")
       /\ SendParams \/ UNCHANGED toSlave
       /\ master' = "ended"
       /\ UNCHANGED <<pcProc, pc>>

MainTest ==
    /\ MainGoto("test", IF bRun THEN "accept" ELSE "join")
    /\ UNCHANGED <<master, pcProc, toSlave, pc>>

\* WaitForConnect(): a connection, and a thread for it; or LOCATE_TIMEOUT.
MainAccept ==
    /\ MainGoto("accept", "test")
    /\ \/ UNCHANGED pc
       \/ \E c \in Clients : pc[c] = "none" /\ pc' = [pc EXCEPT ![c] = "start"]
    /\ UNCHANGED <<master, pcProc, toSlave>>

\* ProcessThread has ended, and Main() returns.
MainJoin ==
    /\ MainGoto("join", "over")
    /\ pcProc = "ended"
    /\ master' = "ended"
    /\ UNCHANGED <<pcProc, toSlave, pc>>
-----------------------------------------------------------------------------
(* ProcessThread.                                                          *)

ProcGoto(from, to) ==
    /\ master = "running"
    /\ pcProc = from /\ pcProc' = to
    /\ UNCHANGED <<master, bRun, pcMain, iStop, pcSlave, toSlave, results>>

CountFromZero == 0

\* iNodeCntr at the start of a round.
FirstNode == 1

ProcTest ==
    /\ ProcGoto("test", IF bRun THEN "recv" ELSE "ended")
    /\ iNodeCntr' = IF bRun THEN FirstNode ELSE iNodeCntr
    /\ UNCHANGED <<fpResults, lResultCount, ResMsg, round, fromSlave, pc>>

\* do ... while (iNodeCntr < iNodeCount)
Continues(n) == n < iNodeCount

\* A matrix of any source, the next one of that source, is added.
ProcRecv ==
    /\ \E s \in Slaves :
          /\ fromSlave[s] # <<>>
          /\ fpResults' = Append(fpResults, <<s, Head(fromSlave[s])>>)
          /\ fromSlave' = [fromSlave EXCEPT ![s] = Tail(@)]
    /\ lResultCount' = lResultCount + 1
    /\ iNodeCntr' = iNodeCntr + 1
    /\ ProcGoto("recv", IF Continues(iNodeCntr') THEN "recv" ELSE "publish")
    /\ UNCHANGED <<ResMsg, round, pc>>

SumKept == fpResults

\* What is left in fpResults after a round.
Cleared == <<>>

\* Process(), GetResults(), SetResult() and NotifyAll(), the last two under
\* MtxResMsg.
ProcPublish ==
    /\ ProcGoto("publish", "test")
    /\ ResMsg' = [of |-> fpResults, divisor |-> lResultCount]
    /\ fpResults' = Cleared /\ lResultCount' = 0
    /\ round' = round + 1
    /\ pc' = [c \in Clients |-> IF pc[c] = "wait" THEN "send" ELSE pc[c]]
    /\ UNCHANGED <<iNodeCntr, fromSlave>>
-----------------------------------------------------------------------------
(* ServeClientThread, the thread of c.                                     *)

Goto(c, from, to) ==
    /\ master = "running"
    /\ pc[c] = from /\ pc' = [pc EXCEPT ![c] = to]
    /\ UNCHANGED <<master, bRun, pcMain, iStop, procVars, slaveVars>>

\* The header is sent, or cannot be.
Start(c) ==
    Goto(c, "start", "test") \/ Goto(c, "start", "none")

\* bRun is tested, and MtxResMsg and CndResMsg are waited for.
Test(c) == Goto(c, "test", IF bRun THEN "wait" ELSE "none")

\* Notified: ResMsg is copied under MtxResMsg, and the copy written.  A
\* client that does not read keeps its thread there.
SendRes(c) ==
    Goto(c, "send", "test") \/ Goto(c, "send", "none")
-----------------------------------------------------------------------------
(* The slaves.                                                             *)

SlaveGoto(s, from, to) ==
    /\ pcSlave[s] = from /\ pcSlave' = [pcSlave EXCEPT ![s] = to]
    /\ UNCHANGED <<master, bRun, pcMain, iStop, procVars, pc>>

\* RecvParams(): the first message there is must be of the parameters; then
\* Initialize() and ConnectDir(), each of which may fail.
SlaveParams(s) ==
    /\ toSlave[s] # <<>>
    /\ \/ /\ Head(toSlave[s]) = "PARAM"
          /\ SlaveGoto(s, "params", "probe") \/ SlaveGoto(s, "params", "ended")
          /\ toSlave' = [toSlave EXCEPT ![s] = Tail(@)]
       \/ /\ Head(toSlave[s]) # "PARAM"
          /\ SlaveGoto(s, "params", "ended")
          /\ UNCHANGED toSlave
    /\ UNCHANGED <<fromSlave, results>>

\* MPICCtrl.ProbeNB(0)
ToldToStop(s) == toSlave[s] # <<>>

\* Told to stop, the slave takes the message and ends.
SlaveProbe(s) ==
    /\ \/ /\ ToldToStop(s)
          /\ SlaveGoto(s, "probe", "ended")
          /\ toSlave' = [toSlave EXCEPT ![s] = Tail(@)]
       \/ /\ ~ToldToStop(s)
          /\ SlaveGoto(s, "probe", "read")
          /\ UNCHANGED toSlave
    /\ UNCHANGED <<fromSlave, results>>

\* ReadN() of a result of the direction server, and MPICNormal.Send() of
\* what is made of it; or either fails.
SlaveRead(s) ==
    /\ \/ /\ results[s] < MaxResults \/ (~bRun /\ results[s] = MaxResults)
          /\ SlaveGoto(s, "read", "send")
          /\ results' = [results EXCEPT ![s] = @ + 1]
          /\ fromSlave' = [fromSlave EXCEPT ![s] = Append(@, results'[s])]
       \/ SlaveGoto(s, "read", "ended") /\ UNCHANGED <<results, fromSlave>>
    /\ UNCHANGED toSlave

\* Send() returns.
SlaveSent(s) ==
    /\ SlaveGoto(s, "send", "probe")
    /\ UNCHANGED <<toSlave, fromSlave, results>>
-----------------------------------------------------------------------------
Main == StopSend \/ MainSetup \/ MainTest \/ MainAccept \/ MainJoin

Proc == ProcTest \/ ProcRecv \/ ProcPublish

Serve(c) == Start(c) \/ Test(c) \/ SendRes(c)

Slave(s) == SlaveParams(s) \/ SlaveProbe(s) \/ SlaveRead(s)

\* ProcessThread waits for a result, and nobody is left to send one.
ProcCaught ==
    /\ pcProc = "recv"
    /\ \A s \in Slaves : pcSlave[s] = "ended" /\ fromSlave[s] = <<>>

\* The master has ended, and slaves may wait for it for ever; or Main() joins
\* a ProcessThread that is caught.
Terminated ==
    /\ master # "running" \/ (pcMain = "join" /\ ProcCaught)
    /\ UNCHANGED vars

Next ==
    \/ Signal \/ Main \/ Proc
    \/ \E c \in Clients : Serve(c)
    \/ \E s \in Slaves : Slave(s) \/ SlaveSent(s)
    \/ Terminated

Spec == Init /\ [][Next]_vars

\* Processes and threads are scheduled, direction servers deliver or close,
\* and Send() returns if its message is received, if not before.  Nobody has
\* to stop the locator, and clients need not come or read.
Fairness ==
    /\ WF_vars(Main) /\ WF_vars(Proc)
    /\ \A s \in Slaves : WF_vars(Slave(s) \/ (fromSlave[s] = <<>> /\ SlaveSent(s)))

FairSpec == Spec /\ Fairness
-----------------------------------------------------------------------------
RoundSize == IF iNodeCount = 1 THEN 1 ELSE iNodeCount - 1

\* Every variable keeps its type; the sum and its divisor agree, and never
\* exceed a round.
TypeOK ==
    /\ master \in {"running", "ended", "aborted"} /\ bRun \in BOOLEAN
    /\ pcMain \in {"setup", "test", "accept", "join", "over"}
    /\ iStop \in 0 .. iNodeCount
    /\ pcProc \in {"none", "test", "recv", "publish", "ended"}
    /\ iNodeCntr \in 1 .. RoundSize + 1
    /\ lResultCount = Len(fpResults) /\ lResultCount <= RoundSize
    /\ round \in Nat
    /\ pcSlave \in [Slaves -> {"params", "probe", "read", "send", "ended"}]
    /\ results \in [Slaves -> 0 .. MaxResults + 1]
    /\ toSlave \in [Slaves -> {<<>>, <<"PARAM">>, <<"STOP">>, <<"PARAM", "STOP">>,
                              <<"STOP", "PARAM">>}]
    /\ \A s \in Slaves : Len(fromSlave[s]) <= results[s]
    /\ pc \in [Clients -> {"none", "start", "test", "wait", "send"}]

\* The matrices of the newest round and of the one that is being summed, in the
\* order they were received; and how many of a slave were received at all.
Summed == ResMsg.of \o fpResults

Received(s) == results[s] - Len(fromSlave[s])

\* q has the matrices of each slave in the order of their numbers; after one
\* comes the next one, up to the number got of that slave.
InOrder(q, got) ==
    \A i \in 1 .. Len(q) :
       /\ q[i][2] \in 1 .. got[q[i][1]]
       /\ \A j \in 1 .. i - 1 : q[j][1] = q[i][1] => q[j][2] < q[i][2]
       /\ q[i][2] < got[q[i][1]] =>
             \E j \in i + 1 .. Len(q) : q[j] = <<q[i][1], q[i][2] + 1>>

\* Each result is averaged in one round: the newest round, the one that is
\* being summed and the messages on their way hold, of every slave, one run
\* of results without a gap, in order, up to the last it sent; until a round
\* is over, from the first.  A round is of one matrix per slave process,
\* whoever sent them (a node faster than another counts twice), and is
\* divided by that number.
EveryResultInOneRound ==
    /\ \A s \in Slaves : \A i \in 1 .. Len(fromSlave[s]) :
          fromSlave[s][i] = Received(s) + i
    /\ InOrder(Summed, [s \in Slaves |-> Received(s)])
    /\ round <= 1 =>
          \A s \in Slaves : Received(s) > 0 =>
              \E i \in 1 .. Len(Summed) : Summed[i] = <<s, 1>>
    /\ round > 0 => Len(ResMsg.of) = RoundSize /\ ResMsg.divisor = RoundSize

\* What is added up and sent are matrices of slaves, and there is no round
\* before the first.
SumInv ==
    /\ fpResults \in Seq(Slaves \X Nat)
    /\ ResMsg \in [of : Seq(Slaves \X Nat), divisor : Nat]
    /\ fromSlave \in [Slaves -> Seq(Nat)]
    /\ round = 0 => ResMsg.of = <<>>

\* ProcessThread is not there before the setup is over; it counts what it has
\* added up, and leaves nothing of it when a round is over.
CountInv ==
    /\ pcMain = "setup" => pcProc = "none"
    /\ pcProc = "recv" => lResultCount = iNodeCntr - 1 /\ iNodeCntr <= RoundSize
    /\ pcProc = "publish" => lResultCount = RoundSize
    /\ pcProc \notin {"recv", "publish"} => lResultCount = 0

\* A slave is sent its parameters once, by a setup that is over then, and told
\* to stop once, after the ranks before it.
StopInv ==
    /\ iStop > 0 => ~bRun
    /\ \A s \in Slaves :
          /\ pcMain = "setup" => toSlave[s] \in {<<>>, <<"STOP">>}
          /\ bRun \/ (0 < iStop /\ iStop <= s) => toSlave[s] \in {<<>>, <<"PARAM">>}

\* What the steps keep.
IInv == TypeOK /\ EveryResultInOneRound /\ SumInv /\ CountInv /\ StopInv

\* So many results are on their way, or in the sum.
Arrived(n) ==
    Len(fpResults) + Cardinality(UNION {{s} \X DOMAIN fromSlave[s] : s \in Slaves}) >= n

\* Whenever as many results have been sent as there are slaves, a round is
\* published, even if all came from one slave and the others are dead.
ResultsMakeRounds ==
    Arrived(RoundSize) ~> pcProc = "publish" \/ ~bRun \/ master # "running"

\* A slave waits for its result to be received, and nobody is left to.
SendCaught(s) ==
    /\ pcSlave[s] = "send" /\ fromSlave[s] # <<>>
    /\ master # "running" \/ pcProc = "ended"

\* Told to stop, every process ends, slaves without a sensor too; but the
\* master may be caught in the middle of a round by slaves that ended
\* before it, and a slave in MPI_Send() by a master that did.
StopEndsUnlessCaught ==
    ~bRun ~> /\ master # "running" \/ ProcCaught
             /\ \A s \in Slaves : pcSlave[s] = "ended" \/ SendCaught(s)
=============================================================================
