---------------------------- MODULE LocateProofs ----------------------------
(***************************************************************************)
(* Proofs about Locate, for any number of processes, sensors and clients,  *)
(* and any bound on the results.                                           *)
(***************************************************************************)
EXTENDS Locate, SequenceTheorems, TLAPS

USE DEF MainGoto, ProcGoto, Goto, SlaveGoto, procVars, slaveVars

\* A round is of at least one matrix, and of one per slave if there are any.
LEMMA RoundSizeIsPositive ==
    /\ RoundSize \in Nat \ {0} /\ iNodeCount \in Nat \ {0}
    /\ Slaves # {} => RoundSize = iNodeCount - 1
BY LocateAssumption DEF RoundSize, Slaves

\* The initial state satisfies the inductive invariant.
LEMMA InitInv == Init => IInv
<1> SUFFICES ASSUME Init PROVE IInv
  OBVIOUS
<1> USE DEF Init
<1>0. /\ <<>> \in Seq(Slaves \X Nat) /\ <<>> \in Seq(Nat)
      /\ Len(ResMsg.of) = 0 /\ Len(fpResults) = 0
  BY EmptySeq
<1>1. TypeOK
  <2>1. results \in [Slaves -> 0 .. MaxResults + 1]
    BY LocateAssumption
  <2>2. \A s \in Slaves : Len(fromSlave[s]) <= results[s]
    OBVIOUS
  <2> QED
    BY <1>0, <2>1, <2>2, RoundSizeIsPositive DEF TypeOK
<1>2. SumInv
  BY <1>0 DEF SumInv
<1>3. EveryResultInOneRound
  <2>1. Len(Summed) = 0
    BY <1>0, ConcatProperties DEF Summed
  <2>2. \A s \in Slaves : Len(fromSlave[s]) = 0 /\ Received(s) = 0
    BY DEF Received
  <2>3. \A got : InOrder(Summed, got)
    BY <2>1 DEF InOrder
  <2> QED
    BY <2>2, <2>3 DEF EveryResultInOneRound
<1>4. CountInv /\ StopInv
  BY DEF CountInv, StopInv
<1> QED
  BY <1>1, <1>2, <1>3, <1>4 DEF IInv
-----------------------------------------------------------------------------
(* What the threads and processes leave alone that are not named.          *)

LEMMA MainLeaves ==
    ASSUME Signal \/ Main
    PROVE  /\ UNCHANGED <<iNodeCntr, fpResults, lResultCount, ResMsg, round, fromSlave,
                          results>>
           /\ \/ UNCHANGED pcProc
              \/ pcMain = "setup" /\ pcProc' = "test" /\ pcMain' = "test"
           /\ pcMain' = "setup" => pcMain = "setup" /\ UNCHANGED pcProc
BY DEF Signal, Main, StopSend, MainSetup, MainTest, MainAccept, MainJoin

LEMMA ProcLeaves ==
    ASSUME Proc
    PROVE  UNCHANGED <<master, bRun, pcMain, iStop, pcSlave, toSlave, results>>
BY DEF Proc, ProcTest, ProcRecv, ProcPublish

LEMMA ServeLeaves ==
    ASSUME NEW c \in Clients, Serve(c)
    PROVE  /\ UNCHANGED <<master, bRun, pcMain, iStop, procVars, slaveVars>>
           /\ \E p \in {"none", "test", "wait"} : pc' = [pc EXCEPT ![c] = p]
BY DEF Serve, Start, Test, SendRes

LEMMA SlaveLeaves ==
    ASSUME NEW s \in Slaves, Slave(s) \/ SlaveSent(s)
    PROVE  /\ UNCHANGED <<master, bRun, pcMain, iStop, procVars, pc>>
           /\ \E p \in {"probe", "read", "send", "ended"} :
                 pcSlave' = [pcSlave EXCEPT ![s] = p]
BY DEF Slave, SlaveParams, SlaveProbe, SlaveRead, SlaveSent

\* Only a reader of results sends any; only the receipt of a message by the
\* slave itself takes one of its master's.
LEMMA SlaveSends ==
    ASSUME NEW s \in Slaves, Slave(s) \/ SlaveSent(s)
    PROVE  /\ SlaveRead(s) \/ UNCHANGED <<fromSlave, results>>
           /\ \/ UNCHANGED toSlave
              \/ /\ toSlave[s] # <<>>
                 /\ toSlave' = [toSlave EXCEPT ![s] = Tail(@)]
BY DEF Slave, SlaveParams, SlaveProbe, SlaveRead, SlaveSent, ToldToStop
-----------------------------------------------------------------------------
(* The messages to the slaves.                                             *)

\* What is left of the messages once the first is taken.
LEMMA TailOfMessages ==
    /\ Tail(<<"PARAM">>) = <<>> /\ Tail(<<"STOP">>) = <<>>
    /\ Tail(<<"PARAM", "STOP">>) = <<"STOP">>
    /\ Tail(<<"STOP", "PARAM">>) = <<"PARAM">>
OBVIOUS

\* A message after one that is there.
LEMMA AppendToOne == ASSUME NEW x, NEW y PROVE Append(<<x>>, y) = <<x, y>>
<1>1. <<x>> \in Seq({x, y}) /\ Len(<<x>>) = 1 /\ <<x>>[1] = x
  OBVIOUS
<1>2. <<x, y>> \in Seq({x, y}) /\ Len(<<x, y>>) = 2
  OBVIOUS
<1>3. /\ Append(<<x>>, y) \in Seq({x, y}) /\ Len(Append(<<x>>, y)) = 2
      /\ Append(<<x>>, y)[1] = x /\ Append(<<x>>, y)[2] = y
  BY <1>1, AppendProperties
<1>4. \A i \in 1 .. 2 : Append(<<x>>, y)[i] = <<x, y>>[i]
  <2>1. \A i \in 1 .. 2 : i = 1 \/ i = 2
    OBVIOUS
  <2>2. <<x, y>>[1] = x /\ <<x, y>>[2] = y
    OBVIOUS
  <2> QED
    BY <1>3, <2>1, <2>2, Zenon
<1> QED
  BY <1>2, <1>3, <1>4, SeqEqual

\* What the messages are with one more.
LEMMA AppendToMessages ==
    /\ Append(<<>>, "STOP") = <<"STOP">> /\ Append(<<>>, "PARAM") = <<"PARAM">>
    /\ Append(<<"PARAM">>, "STOP") = <<"PARAM", "STOP">>
    /\ Append(<<"STOP">>, "PARAM") = <<"STOP", "PARAM">>
<1>1. Append(<<>>, "STOP") = <<"STOP">> /\ Append(<<>>, "PARAM") = <<"PARAM">>
  OBVIOUS
<1> QED
  BY <1>1, AppendToOne, Zenon

\* The parameters and the stop are sent once each.
LEMMA StopStep == IInv /\ [Next]_vars => StopInv' /\ toSlave' \in [Slaves ->
    {<<>>, <<"PARAM">>, <<"STOP">>, <<"PARAM", "STOP">>, <<"STOP", "PARAM">>}]
<1> SUFFICES ASSUME IInv, [Next]_vars
             PROVE  StopInv' /\ toSlave' \in [Slaves -> {<<>>, <<"PARAM">>, <<"STOP">>,
                                   <<"PARAM", "STOP">>, <<"STOP", "PARAM">>}]
  OBVIOUS
<1>0. /\ toSlave \in [Slaves -> {<<>>, <<"PARAM">>, <<"STOP">>, <<"PARAM", "STOP">>,
                                <<"STOP", "PARAM">>}]
      /\ iStop \in 0 .. iNodeCount /\ StopInv /\ bRun \in BOOLEAN
  BY DEF IInv, TypeOK
<1>1. CASE Signal
  BY <1>0, <1>1 DEF Signal, StopInv
<1>2. CASE StopSend
  <2>1. CASE iStop \in Slaves
    <3>1. toSlave' = [toSlave EXCEPT ![iStop] = Append(@, "STOP")]
      BY <1>2, <2>1 DEF StopSend
    <3>2. toSlave[iStop] \in {<<>>, <<"PARAM">>}
      BY <1>0, <1>2, <2>1 DEF StopSend, StopInv
    <3>3. toSlave'[iStop] \in {<<"STOP">>, <<"PARAM", "STOP">>}
      BY <1>0, <2>1, <3>1, <3>2, AppendToMessages
    <3>4. toSlave' \in [Slaves -> {<<>>, <<"PARAM">>, <<"STOP">>, <<"PARAM", "STOP">>,
                                  <<"STOP", "PARAM">>}]
      BY <1>0, <2>1, <3>1, <3>3
    <3>5. pcMain = "setup" => toSlave'[iStop] = <<"STOP">>
      <4>1. pcMain = "setup" => toSlave[iStop] = <<>>
        BY <1>0, <2>1, <3>2 DEF StopInv
      <4> QED
        BY <1>0, <2>1, <3>1, <4>1, AppendToMessages
    <3>6. /\ UNCHANGED <<bRun, pcMain>> /\ ~bRun /\ iStop' \in {0, iStop + 1}
          /\ \A s \in Slaves \ {iStop} : toSlave'[s] = toSlave[s]
      BY <1>0, <1>2, <2>1, <3>1 DEF StopSend, StopInv
    <3>7. \A s \in Slaves : 0 < iStop' /\ iStop' <= s => s # iStop /\ iStop <= s
      BY <1>0, <3>6 DEF Slaves
    <3>8. \A s \in Slaves :
             /\ pcMain' = "setup" => toSlave'[s] \in {<<>>, <<"STOP">>}
             /\ 0 < iStop' /\ iStop' <= s => toSlave'[s] \in {<<>>, <<"PARAM">>}
      <4> TAKE s \in Slaves
      <4>1. CASE s = iStop
        BY <3>5, <3>6, <3>7, <4>1
      <4>2. CASE s # iStop
        BY <1>0, <2>1, <3>6, <3>7, <4>2 DEF StopInv, Slaves
      <4> QED
        BY <4>1, <4>2
    <3> QED
      BY <3>4, <3>6, <3>8 DEF StopInv
  <2>2. CASE iStop \notin Slaves
    BY <1>0, <1>2, <2>2, RoundSizeIsPositive DEF StopSend, StopInv, Slaves, StopsTo
  <2> QED
    BY <2>1, <2>2
<1>3. CASE MainSetup
  <2>1. /\ pcMain = "setup" /\ pcMain' # "setup" /\ iStop = 0
        /\ UNCHANGED <<bRun, iStop>>
        /\ SendParams \/ UNCHANGED toSlave
    BY <1>3 DEF MainSetup
  <2>2. CASE UNCHANGED toSlave
    BY <1>0, <2>1, <2>2 DEF StopInv
  <2>3. CASE SendParams
    <3>1. \A s \in Slaves :
            /\ toSlave[s] \in {<<>>, <<"STOP">>}
            /\ bRun => toSlave[s] = <<>>
            /\ toSlave'[s] \in {toSlave[s], Append(toSlave[s], "PARAM")}
      BY <1>0, <2>1, <2>3 DEF SendParams, StopInv
    <3>2. \A s \in Slaves :
            /\ toSlave'[s] \in {<<>>, <<"PARAM">>, <<"STOP">>, <<"STOP", "PARAM">>}
            /\ bRun => toSlave'[s] \in {<<>>, <<"PARAM">>}
      <4> TAKE s \in Slaves
      <4>1. CASE toSlave[s] = <<>>
        <5>1. toSlave'[s] = <<>> \/ toSlave'[s] = <<"PARAM">>
          BY <3>1, <4>1, AppendToMessages, Zenon
        <5> QED
          BY <5>1, Zenon
      <4>2. CASE toSlave[s] = <<"STOP">> /\ ~bRun
        <5>1. toSlave'[s] = <<"STOP">> \/ toSlave'[s] = <<"STOP", "PARAM">>
          BY <3>1, <4>2, AppendToMessages, Zenon
        <5> QED
          BY <4>2, <5>1, Zenon
      <4>3. toSlave[s] = <<>> \/ (toSlave[s] = <<"STOP">> /\ ~bRun)
        BY <3>1
      <4> QED
        BY <4>1, <4>2, <4>3, Zenon
    <3>3. toSlave' = [s \in Slaves |-> toSlave'[s]]
      BY <2>3 DEF SendParams
    <3>4. toSlave' \in [Slaves -> {<<>>, <<"PARAM">>, <<"STOP">>, <<"PARAM", "STOP">>,
                                  <<"STOP", "PARAM">>}]
      BY <3>2, <3>3
    <3> QED
      BY <1>0, <2>1, <3>2, <3>4 DEF StopInv
  <2> QED
    BY <2>1, <2>2, <2>3
<1>4. CASE MainTest \/ MainAccept \/ MainJoin
  BY <1>0, <1>4 DEF MainTest, MainAccept, MainJoin, StopInv
<1>5. CASE Proc
  BY <1>0, <1>5, ProcLeaves DEF StopInv
<1>6. CASE \E c \in Clients : Serve(c)
  BY <1>0, <1>6, ServeLeaves DEF StopInv
<1>7. CASE \E s \in Slaves : Slave(s) \/ SlaveSent(s)
  <2>1. PICK s \in Slaves : Slave(s) \/ SlaveSent(s)
    BY <1>7
  <2>2. UNCHANGED <<bRun, pcMain, iStop>>
    BY <2>1, SlaveLeaves
  <2>3. CASE UNCHANGED toSlave
    BY <1>0, <2>2, <2>3 DEF StopInv
  <2>4. CASE toSlave[s] # <<>> /\ toSlave' = [toSlave EXCEPT ![s] = Tail(@)]
    BY <1>0, <2>2, <2>4, TailOfMessages DEF StopInv
  <2> QED
    BY <2>1, <2>3, <2>4, SlaveSends
<1>8. CASE Terminated \/ UNCHANGED vars
  BY <1>0, <1>8 DEF Terminated, vars, StopInv
<1> QED
  BY <1>1, <1>2, <1>3, <1>4, <1>5, <1>6, <1>7, <1>8 DEF Next, Main
-----------------------------------------------------------------------------
(* The rounds.                                                             *)

\* ProcessThread's count and sum agree, and never exceed a round.
LEMMA CountStep ==
    IInv /\ [Next]_vars =>
        /\ CountInv'
        /\ iNodeCntr' \in 1 .. RoundSize + 1 /\ lResultCount' \in 0 .. RoundSize
        /\ lResultCount' = Len(fpResults')
<1> SUFFICES ASSUME IInv, [Next]_vars
             PROVE  /\ CountInv'
                    /\ iNodeCntr' \in 1 .. RoundSize + 1
                    /\ lResultCount' \in 0 .. RoundSize
                    /\ lResultCount' = Len(fpResults')
  OBVIOUS
<1>0. /\ CountInv /\ fpResults \in Seq(Slaves \X Nat)
      /\ fromSlave \in [Slaves -> Seq(Nat)]
      /\ iNodeCntr \in 1 .. RoundSize + 1
      /\ lResultCount = Len(fpResults) /\ lResultCount \in 0 .. RoundSize
      /\ RoundSize \in Nat \ {0} /\ iNodeCount \in Nat \ {0}
  <2>1. fpResults \in Seq(Slaves \X Nat)
    BY DEF IInv, SumInv
  <2> QED
    BY <2>1, LenProperties, RoundSizeIsPositive DEF IInv, SumInv, TypeOK
<1>1. CASE Signal \/ Main
  BY <1>0, <1>1, MainLeaves DEF CountInv
<1>2. CASE ProcTest
  BY <1>0, <1>2 DEF ProcTest, FirstNode, CountInv
<1>3. CASE ProcRecv
  <2>1. PICK s \in Slaves : /\ fromSlave[s] # <<>>
                            /\ fpResults' = Append(fpResults, <<s, Head(fromSlave[s])>>)
    BY <1>3 DEF ProcRecv
  <2>2. <<s, Head(fromSlave[s])>> \in Slaves \X Nat
    BY <1>0, <2>1, HeadTailProperties
  <2>3. Len(fpResults') = Len(fpResults) + 1
    BY <1>0, <2>1, <2>2, AppendProperties
  <2>4. RoundSize = iNodeCount - 1
    BY RoundSizeIsPositive
  <2>5. /\ pcProc = "recv" /\ UNCHANGED pcMain
        /\ iNodeCntr' = iNodeCntr + 1 /\ lResultCount' = lResultCount + 1
        /\ pcProc' = IF iNodeCntr' < iNodeCount THEN "recv" ELSE "publish"
    BY <1>3 DEF ProcRecv, Continues
  <2>6. lResultCount = iNodeCntr - 1 /\ iNodeCntr <= RoundSize /\ pcMain # "setup"
    BY <1>0, <2>5 DEF CountInv
  <2> QED
    BY <1>0, <2>3, <2>4, <2>5, <2>6 DEF CountInv
<1>4. CASE ProcPublish
  BY <1>0, <1>4 DEF ProcPublish, Cleared, CountInv
<1>5. CASE \E c \in Clients : Serve(c)
  BY <1>0, <1>5, ServeLeaves DEF CountInv
<1>6. CASE \E s \in Slaves : Slave(s) \/ SlaveSent(s)
  BY <1>0, <1>6, SlaveLeaves DEF CountInv
<1>7. CASE Terminated \/ UNCHANGED vars
  BY <1>0, <1>7 DEF Terminated, vars, CountInv
<1> QED
  BY <1>1, <1>2, <1>3, <1>4, <1>5, <1>6, <1>7 DEF Next, Proc

\* Summed, as a sequence.
LEMMA SummedIs ==
    ASSUME SumInv
    PROVE  /\ Summed \in Seq(Slaves \X Nat)
           /\ Len(ResMsg.of) \in Nat /\ Len(fpResults) \in Nat
           /\ Len(Summed) = Len(ResMsg.of) + Len(fpResults)
           /\ \A i \in 1 .. Len(ResMsg.of) : Summed[i] = ResMsg.of[i]
           /\ \A i \in 1 .. Len(fpResults) :
                 Summed[Len(ResMsg.of) + i] = fpResults[i]
<1>1. ResMsg.of \in Seq(Slaves \X Nat) /\ fpResults \in Seq(Slaves \X Nat)
  BY DEF SumInv
<1>2. Len(ResMsg.of) \in Nat /\ Len(fpResults) \in Nat
  BY <1>1, LenProperties
<1>3. /\ Summed \in Seq(Slaves \X Nat)
      /\ Len(Summed) = Len(ResMsg.of) + Len(fpResults)
      /\ \A i \in 1 .. Len(ResMsg.of) + Len(fpResults) :
            Summed[i] = IF i <= Len(ResMsg.of) THEN ResMsg.of[i]
                        ELSE fpResults[i - Len(ResMsg.of)]
  BY <1>1, ConcatProperties DEF Summed
<1>4. \A i \in 1 .. Len(ResMsg.of) : Summed[i] = ResMsg.of[i]
  BY <1>2, <1>3
<1>5. ASSUME NEW i \in 1 .. Len(fpResults)
      PROVE  Summed[Len(ResMsg.of) + i] = fpResults[i]
  <2> DEFINE n == Len(ResMsg.of) + i
  <2>1. n \in 1 .. Len(ResMsg.of) + Len(fpResults) /\ ~(n <= Len(ResMsg.of))
    BY <1>2
  <2>2. n - Len(ResMsg.of) = i
    BY <1>2
  <2> QED
    BY <1>3, <2>1, <2>2
<1> QED
  BY <1>2, <1>3, <1>4, <1>5

\* How a step changes what was sent and summed: not at all; or a slave sends
\* the next result; or the first one under way of a slave is added; or a round
\* is over.
LEMMA SumSteps ==
    ASSUME [Next]_vars
    PROVE  \/ UNCHANGED <<fpResults, ResMsg, round, fromSlave, results>>
           \/ \E s \in Slaves : SlaveRead(s)
           \/ ProcRecv
           \/ ProcPublish
<1>1. CASE Signal \/ Main
  BY <1>1, MainLeaves
<1>2. CASE Proc
  BY <1>2 DEF Proc, ProcTest
<1>3. CASE \E c \in Clients : Serve(c)
  BY <1>3, ServeLeaves
<1>4. CASE \E s \in Slaves : Slave(s) \/ SlaveSent(s)
  BY <1>4, SlaveLeaves, SlaveSends
<1>5. CASE Terminated \/ UNCHANGED vars
  BY <1>5 DEF Terminated, vars
<1> QED
  BY <1>1, <1>2, <1>3, <1>4, <1>5 DEF Next

\* How many matrices of a slave were received, and the types behind that.
LEMMA ReceivedType ==
    ASSUME IInv, NEW s \in Slaves
    PROVE  /\ fromSlave[s] \in Seq(Nat) /\ Len(fromSlave[s]) \in Nat
           /\ results[s] \in Nat /\ Received(s) \in Nat
           /\ results[s] = Received(s) + Len(fromSlave[s])
<1>1. fromSlave[s] \in Seq(Nat)
  BY DEF IInv, SumInv
<1>2. Len(fromSlave[s]) \in Nat
  BY <1>1, LenProperties
<1>3. results[s] \in Nat /\ Len(fromSlave[s]) <= results[s]
  BY LocateAssumption DEF IInv, TypeOK
<1> QED
  BY <1>1, <1>2, <1>3 DEF Received

\* A slave that sends a result has one more on its way, and as many received.
LEMMA ReadEffect ==
    ASSUME IInv, NEW s \in Slaves, SlaveRead(s)
    PROVE  /\ UNCHANGED <<fpResults, ResMsg, round>>
           /\ fromSlave' \in [Slaves -> Seq(Nat)]
           /\ results' \in [Slaves -> 0 .. MaxResults + 1]
           /\ \A t \in Slaves : Len(fromSlave'[t]) <= results'[t]
           /\ \A t \in Slaves : Received(t)' = Received(t)
           /\ \A t \in Slaves : \A i \in 1 .. Len(fromSlave'[t]) :
                 fromSlave'[t][i] = Received(t) + i
<1>0. /\ fromSlave \in [Slaves -> Seq(Nat)] /\ results \in [Slaves -> 0 .. MaxResults + 1]
      /\ \A t \in Slaves : Len(fromSlave[t]) <= results[t]
      /\ \A t \in Slaves : \A i \in 1 .. Len(fromSlave[t]) :
            fromSlave[t][i] = Received(t) + i
      /\ MaxResults \in Nat
  BY LocateAssumption DEF IInv, SumInv, TypeOK, EveryResultInOneRound
<1>1. UNCHANGED <<fpResults, ResMsg, round>>
  BY DEF SlaveRead
<1>2. CASE UNCHANGED <<fromSlave, results>>
  BY <1>0, <1>1, <1>2 DEF Received
<1>3. CASE /\ results[s] <= MaxResults
           /\ results' = [results EXCEPT ![s] = @ + 1]
           /\ fromSlave' = [fromSlave EXCEPT ![s] = Append(@, results'[s])]
  <2> DEFINE k == results[s] + 1
  <2>1. k \in 0 .. MaxResults + 1 /\ k \in Nat
    BY <1>0, <1>3
  <2>2. results' \in [Slaves -> 0 .. MaxResults + 1] /\ results'[s] = k
    BY <1>0, <1>3, <2>1
  <2>3. /\ \A t \in Slaves \ {s} : fromSlave'[t] = fromSlave[t] /\ results'[t] = results[t]
        /\ fromSlave'[s] = Append(fromSlave[s], k)
    BY <1>0, <1>3, <2>2
  <2>4. /\ fromSlave'[s] \in Seq(Nat) /\ Len(fromSlave'[s]) = Len(fromSlave[s]) + 1
        /\ \A i \in 1 .. Len(fromSlave[s]) : fromSlave'[s][i] = fromSlave[s][i]
        /\ fromSlave'[s][Len(fromSlave[s]) + 1] = k
    BY <2>1, <2>3, ReceivedType, AppendProperties
  <2>5. fromSlave' \in [Slaves -> Seq(Nat)]
    BY <1>0, <1>3, <2>2, <2>3, <2>4
  <2>6. Received(s)' = Received(s)
    BY <2>2, <2>4, ReceivedType DEF Received
  <2>7. \A i \in 1 .. Len(fromSlave'[s]) : fromSlave'[s][i] = Received(s) + i
    <3> TAKE i \in 1 .. Len(fromSlave'[s])
    <3>1. i \in 1 .. Len(fromSlave[s]) \/ i = Len(fromSlave[s]) + 1
      BY <2>4, ReceivedType
    <3>2. k = Received(s) + (Len(fromSlave[s]) + 1)
      BY ReceivedType
    <3> QED
      BY <1>0, <2>4, <3>1, <3>2
  <2>8. Len(fromSlave'[s]) <= results'[s]
    BY <1>0, <2>2, <2>4, ReceivedType
  <2>9. ASSUME NEW t \in Slaves
        PROVE  /\ Len(fromSlave'[t]) <= results'[t] /\ Received(t)' = Received(t)
               /\ \A i \in 1 .. Len(fromSlave'[t]) : fromSlave'[t][i] = Received(t) + i
    <3>1. CASE t = s
      BY <2>6, <2>7, <2>8, <3>1
    <3>2. CASE t # s
      BY <1>0, <2>3, <3>2 DEF Received
    <3> QED
      BY <3>1, <3>2
  <2> QED
    BY <1>1, <2>2, <2>5, <2>9
<1> QED
  BY <1>0, <1>2, <1>3 DEF SlaveRead

\* What is appended to the second of two sequences is appended to both.
LEMMA ConcatAppend ==
    ASSUME NEW S, NEW a \in Seq(S), NEW b \in Seq(S), NEW e \in S
    PROVE  a \o Append(b, e) = Append(a \o b, e)
<1>1. <<e>> \in Seq(S) /\ a \o b \in Seq(S)
  BY ConcatProperties
<1>2. (a \o b) \o <<e>> = a \o (b \o <<e>>)
  BY <1>1, ConcatAssociative
<1>3. Append(b, e) = b \o <<e>> /\ Append(a \o b, e) = (a \o b) \o <<e>>
  BY <1>1, AppendIsConcat
<1> QED
  BY <1>2, <1>3

\* A matrix that is received was the next one of its slave, and is added last.
LEMMA RecvEffect ==
    ASSUME IInv, ProcRecv
    PROVE  /\ UNCHANGED <<ResMsg, round, results>>
           /\ SumInv'
           /\ \E s \in Slaves :
                 /\ Received(s)' = Received(s) + 1
                 /\ \A t \in Slaves \ {s} : Received(t)' = Received(t)
                 /\ Len(Summed') = Len(Summed) + 1
                 /\ \A i \in 1 .. Len(Summed) : Summed'[i] = Summed[i]
                 /\ Summed'[Len(Summed) + 1] = <<s, Received(s) + 1>>
           /\ \A t \in Slaves :
                 /\ Len(fromSlave'[t]) <= results'[t]
                 /\ \A i \in 1 .. Len(fromSlave'[t]) :
                       fromSlave'[t][i] = Received(t)' + i
<1>0. /\ fromSlave \in [Slaves -> Seq(Nat)] /\ SumInv
      /\ \A t \in Slaves : Len(fromSlave[t]) <= results[t]
      /\ \A t \in Slaves : \A i \in 1 .. Len(fromSlave[t]) :
            fromSlave[t][i] = Received(t) + i
  BY DEF IInv, SumInv, TypeOK, EveryResultInOneRound
<1>1. UNCHANGED <<ResMsg, round, results>>
  BY DEF ProcRecv
<1>2. PICK s \in Slaves :
         /\ fromSlave[s] # <<>>
         /\ fpResults' = Append(fpResults, <<s, Head(fromSlave[s])>>)
         /\ fromSlave' = [fromSlave EXCEPT ![s] = Tail(@)]
  BY DEF ProcRecv
<1> DEFINE k == Received(s) + 1
           n == Len(fromSlave[s])
<1>3. /\ fromSlave[s] \in Seq(Nat) /\ n \in Nat \ {0}
      /\ results[s] = Received(s) + n /\ Received(s) \in Nat /\ k \in Nat
  BY <1>2, ReceivedType, EmptySeq
<1>4. Head(fromSlave[s]) = k
  <2>1. Head(fromSlave[s]) = fromSlave[s][1]
    BY <1>2, <1>3
  <2> QED
    BY <1>0, <1>3, <2>1
<1>5. /\ Tail(fromSlave[s]) \in Seq(Nat) /\ Len(Tail(fromSlave[s])) = n - 1
      /\ \A i \in 1 .. n - 1 : Tail(fromSlave[s])[i] = k + i
  <2>1. /\ Tail(fromSlave[s]) \in Seq(Nat) /\ Len(Tail(fromSlave[s])) = n - 1
        /\ \A i \in 1 .. n - 1 : Tail(fromSlave[s])[i] = fromSlave[s][i + 1]
    BY <1>2, <1>3, HeadTailProperties
  <2>2. \A i \in 1 .. n - 1 : i + 1 \in 1 .. n /\ Received(s) + (i + 1) = k + i
    BY <1>3
  <2> QED
    BY <1>0, <2>1, <2>2
<1>6. /\ fromSlave'[s] = Tail(fromSlave[s])
      /\ \A t \in Slaves \ {s} : fromSlave'[t] = fromSlave[t]
      /\ fromSlave' \in [Slaves -> Seq(Nat)]
  BY <1>0, <1>2, <1>5
<1>7. Received(s)' = k /\ \A t \in Slaves \ {s} : Received(t)' = Received(t)
  BY <1>1, <1>3, <1>5, <1>6 DEF Received
<1>8. ASSUME NEW t \in Slaves
      PROVE  /\ Len(fromSlave'[t]) <= results'[t]
             /\ \A i \in 1 .. Len(fromSlave'[t]) : fromSlave'[t][i] = Received(t)' + i
  <2>1. CASE t = s
    <3>1. Len(fromSlave'[s]) = n - 1 /\ n - 1 <= results'[s]
      BY <1>1, <1>3, <1>5, <1>6
    <3>2. \A i \in 1 .. n - 1 : fromSlave'[s][i] = Received(s)' + i
      BY <1>5, <1>6, <1>7
    <3> QED
      BY <2>1, <3>1, <3>2
  <2>2. CASE t # s
    BY <1>0, <1>1, <1>6, <1>7, <2>2
  <2> QED
    BY <2>1, <2>2
<1>9. /\ fpResults \in Seq(Slaves \X Nat) /\ <<s, k>> \in Slaves \X Nat
      /\ fpResults' = Append(fpResults, <<s, k>>)
  BY <1>0, <1>2, <1>3, <1>4 DEF SumInv
<1>10. /\ fpResults' \in Seq(Slaves \X Nat) /\ Len(fpResults') = Len(fpResults) + 1
       /\ \A i \in 1 .. Len(fpResults) : fpResults'[i] = fpResults[i]
       /\ fpResults'[Len(fpResults) + 1] = <<s, k>>
  BY <1>9, AppendProperties
<1>11. SumInv'
  BY <1>0, <1>1, <1>6, <1>10 DEF SumInv
<1>12. Summed' = Append(Summed, <<s, k>>)
  <2> DEFINE S == Slaves \X Nat
             e == <<s, k>>
             w == ResMsg.of
  <2>1. w \in Seq(S) /\ fpResults \in Seq(S) /\ e \in S
    BY <1>0, <1>9 DEF SumInv
  <2>2. w \o Append(fpResults, e) = Append(w \o fpResults, e)
    <3> HIDE DEF S, e, w
    <3> QED
      BY <2>1, ConcatAppend
  <2> QED
    BY <1>1, <1>9, <2>2 DEF Summed
<1>13. /\ Len(Summed') = Len(Summed) + 1
       /\ \A i \in 1 .. Len(Summed) : Summed'[i] = Summed[i]
       /\ Summed'[Len(Summed) + 1] = <<s, k>>
  BY <1>0, <1>9, <1>12, SummedIs, AppendProperties
<1> QED
  BY <1>1, <1>7, <1>8, <1>11, <1>13

\* A round that is over is what was summed, and the sum starts anew.
LEMMA PublishEffect ==
    ASSUME IInv, ProcPublish
    PROVE  /\ UNCHANGED <<fromSlave, results>>
           /\ SumInv'
           /\ round' = round + 1
           /\ Len(ResMsg'.of) = RoundSize /\ ResMsg'.divisor = RoundSize
           /\ Len(Summed') = Len(fpResults)
           /\ \A i \in 1 .. Len(fpResults) : Summed'[i] = fpResults[i]
<1>0. /\ fpResults \in Seq(Slaves \X Nat) /\ SumInv /\ round \in Nat
      /\ Len(fpResults) = RoundSize /\ lResultCount = RoundSize /\ RoundSize \in Nat
  BY RoundSizeIsPositive DEF IInv, SumInv, CountInv, TypeOK, ProcPublish
<1>1. /\ UNCHANGED <<fromSlave, results>>
      /\ ResMsg' = [of |-> fpResults, divisor |-> lResultCount]
      /\ fpResults' = <<>> /\ round' = round + 1
  BY DEF ProcPublish, Cleared
<1>2. /\ ResMsg'.of = fpResults /\ ResMsg'.divisor = RoundSize
      /\ ResMsg' \in [of : Seq(Slaves \X Nat), divisor : Nat]
  BY <1>0, <1>1
<1>3. SumInv'
  BY <1>0, <1>1, <1>2, EmptySeq DEF SumInv
<1>4. Summed' = fpResults
  BY <1>0, <1>1, <1>2, ConcatEmptySeq DEF Summed
<1> QED
  BY <1>0, <1>1, <1>2, <1>3, <1>4

\* Matrices keep their types.
LEMMA SumStep == IInv /\ [Next]_vars => SumInv'
<1> SUFFICES ASSUME IInv, [Next]_vars PROVE SumInv'
  OBVIOUS
<1>0. SumInv
  BY DEF IInv
<1>1. CASE UNCHANGED <<fpResults, ResMsg, round, fromSlave, results>>
  BY <1>0, <1>1 DEF SumInv
<1>2. CASE \E s \in Slaves : SlaveRead(s)
  BY <1>0, <1>2, ReadEffect DEF SumInv
<1> QED
  BY <1>1, <1>2, SumSteps, RecvEffect, PublishEffect

\* The next matrix of a slave, put last, keeps the order.
LEMMA OrderWithNext ==
    ASSUME NEW q, NEW p, NEW got, NEW s \in DOMAIN got,
           Len(q) \in Nat, \A i \in 1 .. Len(q) : q[i][1] \in DOMAIN got,
           \A t \in DOMAIN got : got[t] \in Nat,
           Len(p) = Len(q) + 1, \A i \in 1 .. Len(q) : p[i] = q[i],
           p[Len(q) + 1] = <<s, got[s] + 1>>,
           InOrder(q, got)
    PROVE  InOrder(p, [got EXCEPT ![s] = @ + 1])
<1> DEFINE L == Len(q)
           S == DOMAIN got
           now == [got EXCEPT ![s] = @ + 1]
<1>0. /\ s \in S /\ now[s] = got[s] + 1 /\ \A t \in S \ {s} : now[t] = got[t]
      /\ \A t \in S : got[t] \in Nat
  OBVIOUS
<1> HIDE DEF S, now
<1> SUFFICES ASSUME NEW i \in 1 .. L + 1
             PROVE  /\ p[i][2] \in 1 .. now[p[i][1]]
                    /\ \A j \in 1 .. i - 1 : p[j][1] = p[i][1] => p[j][2] < p[i][2]
                    /\ p[i][2] < now[p[i][1]] =>
                          \E j \in i + 1 .. L + 1 : p[j] = <<p[i][1], p[i][2] + 1>>
  BY DEF InOrder, now
<1>1. CASE i \in 1 .. L
  <2> DEFINE t == q[i][1]
             k == q[i][2]
  <2>1. t \in S /\ got[t] \in Nat
    BY <1>1 DEF S
  <2>2. /\ k \in 1 .. got[t]
        /\ \A j \in 1 .. i - 1 : q[j][1] = t => q[j][2] < k
        /\ k < got[t] => \E j \in i + 1 .. L : q[j] = <<t, k + 1>>
    BY <1>1 DEF InOrder
  <2>3. p[i][1] = t /\ p[i][2] = k
    BY <1>1
  <2>4. k \in 1 .. now[t]
    <3>1. now[t] \in {got[t], got[t] + 1}
      BY <1>0, <2>1
    <3> QED
      BY <2>1, <2>2, <3>1
  <2>5. \A j \in 1 .. i - 1 : p[j] = q[j]
    BY <1>1
  <2>6. ASSUME k < now[t] PROVE \E j \in i + 1 .. L + 1 : p[j] = <<t, k + 1>>
    <3>1. CASE k < got[t]
      <4>1. PICK j \in i + 1 .. L : q[j] = <<t, k + 1>>
        BY <2>2, <3>1
      <4>2. j \in 1 .. L /\ j \in i + 1 .. L + 1
        BY <1>1
      <4> QED
        BY <4>1, <4>2
    <3>2. CASE k = got[t]
      <4>1. t = s
        BY <1>0, <2>1, <2>6, <3>2
      <4>2. L + 1 \in i + 1 .. L + 1
        BY <1>1
      <4> QED
        BY <3>2, <4>1, <4>2
    <3> QED
      BY <2>1, <2>2, <3>1, <3>2
  <2> QED
    BY <2>2, <2>3, <2>4, <2>5, <2>6
<1>2. CASE i = L + 1
  <2>1. p[i][1] = s /\ p[i][2] = got[s] + 1 /\ now[s] = got[s] + 1
    BY <1>0, <1>2
  <2>2. \A j \in 1 .. L : q[j][1] = s => q[j][2] < got[s] + 1
    <3> TAKE j \in 1 .. L
    <3>1. q[j][2] \in 1 .. got[q[j][1]] /\ got[q[j][1]] \in Nat
      BY DEF InOrder
    <3> QED
      BY <3>1
  <2>3. \A j \in 1 .. i - 1 : p[j] = q[j] /\ j \in 1 .. L
    BY <1>2
  <2>4. \A j \in 1 .. i - 1 : p[j][1] = s => p[j][2] < got[s] + 1
    BY <2>2, <2>3
  <2>5. ~(got[s] + 1 < got[s] + 1) /\ got[s] + 1 \in 1 .. got[s] + 1
    OBVIOUS
  <2> QED
    BY <2>1, <2>4, <2>5
<1> QED
  BY <1>1, <1>2

\* What is left without the oldest matrices is in order.
LEMMA OrderOfRest ==
    ASSUME NEW q, NEW p, NEW got,
           NEW R \in Nat, NEW F \in Nat, Len(q) = R + F, Len(p) = F,
           \A i \in 1 .. F : p[i] = q[R + i],
           InOrder(q, got)
    PROVE  InOrder(p, got)
<1> SUFFICES ASSUME NEW i \in 1 .. F
             PROVE  /\ p[i][2] \in 1 .. got[p[i][1]]
                    /\ \A j \in 1 .. i - 1 : p[j][1] = p[i][1] => p[j][2] < p[i][2]
                    /\ p[i][2] < got[p[i][1]] =>
                          \E j \in i + 1 .. F : p[j] = <<p[i][1], p[i][2] + 1>>
  BY DEF InOrder
<1> DEFINE n == R + i
           t == p[i][1]
           k == p[i][2]
<1>1. n \in 1 .. Len(q) /\ p[i] = q[n]
  OBVIOUS
<1>2. /\ k \in 1 .. got[t]
      /\ \A j \in 1 .. n - 1 : q[j][1] = t => q[j][2] < k
      /\ k < got[t] => \E j \in n + 1 .. Len(q) : q[j] = <<t, k + 1>>
  <2> HIDE DEF n
  <2> QED
    BY <1>1 DEF InOrder
<1>3. \A j \in 1 .. i - 1 : R + j \in 1 .. R + i - 1 /\ p[j] = q[R + j]
  OBVIOUS
<1>4. ASSUME k < got[t] PROVE \E j \in i + 1 .. F : p[j] = <<t, k + 1>>
  <2>1. PICK j \in n + 1 .. Len(q) : q[j] = <<t, k + 1>>
    BY <1>2, <1>4
  <2>2. j - R \in i + 1 .. F /\ j - R \in 1 .. F /\ R + (j - R) = j
    OBVIOUS
  <2> QED
    BY <2>1, <2>2
<1>5. \A j \in 1 .. i - 1 : p[j][1] = t => p[j][2] < k
  BY <1>2, <1>3
<1> QED
  BY <1>2, <1>4, <1>5

\* Every step keeps each result in one round: what is received comes next, and
\* what a new round drops is the oldest part of the run.
LEMMA ResultStep == IInv /\ [Next]_vars => EveryResultInOneRound'
<1> SUFFICES ASSUME IInv, [Next]_vars PROVE EveryResultInOneRound'
  OBVIOUS
<1> DEFINE L == Len(Summed)
           got == [t \in Slaves |-> Received(t)]
<1>0. /\ EveryResultInOneRound /\ InOrder(Summed, got) /\ SumInv
      /\ Summed \in Seq(Slaves \X Nat) /\ L \in Nat
      /\ \A t \in Slaves : got[t] \in Nat /\ got[t] = Received(t)
      /\ \A i \in 1 .. L : Summed[i][1] \in Slaves
      /\ round \in Nat
      /\ round <= 1 => \A t \in Slaves : Received(t) > 0 =>
                         \E i \in 1 .. L : Summed[i] = <<t, 1>>
  <2>1. EveryResultInOneRound /\ SumInv /\ round \in Nat
    BY DEF IInv, TypeOK
  <2>2. Summed \in Seq(Slaves \X Nat)
    BY <2>1, SummedIs
  <2>3. L \in Nat
    BY <2>2, LenProperties
  <2>4. \A t \in Slaves : got[t] \in Nat /\ got[t] = Received(t)
    BY ReceivedType
  <2>5. \A i \in 1 .. L : Summed[i][1] \in Slaves
    <3>1. \A i \in 1 .. L : Summed[i] \in Slaves \X Nat
      BY <2>2, ElementOfSeq
    <3> QED
      BY <3>1
  <2>6. InOrder(Summed, got) /\
        (round <= 1 => \A t \in Slaves : Received(t) > 0 =>
                         \E i \in 1 .. L : Summed[i] = <<t, 1>>)
    BY <2>1 DEF EveryResultInOneRound
  <2> QED
    BY <2>1, <2>2, <2>3, <2>4, <2>5, <2>6
<1>1. CASE UNCHANGED <<fpResults, ResMsg, round, fromSlave, results>>
  <2>1. UNCHANGED Summed /\ \A t : Received(t)' = Received(t)
    BY <1>1 DEF Summed, Received
  <2>2. InOrder(Summed, got)'
    BY <1>0, <2>1 DEF InOrder
  <2> QED
    BY <1>0, <1>1, <2>1, <2>2 DEF EveryResultInOneRound
<1>2. CASE \E s \in Slaves : SlaveRead(s)
  <2>1. /\ UNCHANGED <<fpResults, ResMsg, round>>
        /\ \A t \in Slaves : Received(t)' = Received(t)
        /\ \A t \in Slaves : \A i \in 1 .. Len(fromSlave'[t]) :
              fromSlave'[t][i] = Received(t) + i
    BY <1>2, ReadEffect
  <2>2. UNCHANGED Summed
    BY <2>1 DEF Summed
  <2>3. UNCHANGED got
    BY <2>1
  <2>4. InOrder(Summed, got)'
    BY <1>0, <2>2, <2>3 DEF InOrder
  <2> QED
    BY <1>0, <2>1, <2>2, <2>4 DEF EveryResultInOneRound
<1>3. CASE ProcRecv
  <2>1. /\ UNCHANGED <<ResMsg, round>>
        /\ \A t \in Slaves : \A i \in 1 .. Len(fromSlave'[t]) :
              fromSlave'[t][i] = Received(t)' + i
    BY <1>3, RecvEffect
  <2>2. PICK s \in Slaves :
          /\ Received(s)' = Received(s) + 1
          /\ \A t \in Slaves \ {s} : Received(t)' = Received(t)
          /\ Len(Summed') = L + 1
          /\ \A i \in 1 .. L : Summed'[i] = Summed[i]
          /\ Summed'[L + 1] = <<s, Received(s) + 1>>
    BY <1>3, RecvEffect
  <2>3. got' = [got EXCEPT ![s] = @ + 1] /\ Summed'[L + 1] = <<s, got[s] + 1>>
    BY <1>0, <2>2
  <2>4. InOrder(Summed, got)'
    <3> DEFINE p == Summed'
    <3>1. /\ Len(Summed) \in Nat /\ s \in DOMAIN got
          /\ \A i \in 1 .. Len(Summed) : Summed[i][1] \in DOMAIN got
          /\ \A t \in DOMAIN got : got[t] \in Nat
          /\ InOrder(Summed, got)
      BY <1>0
    <3>2. /\ Len(p) = Len(Summed) + 1 /\ \A i \in 1 .. Len(Summed) : p[i] = Summed[i]
          /\ p[Len(Summed) + 1] = <<s, got[s] + 1>>
      BY <2>2, <2>3
    <3>3. InOrder(p, [got EXCEPT ![s] = @ + 1])
      <4> HIDE DEF p, got
      <4> QED
        BY <3>1, <3>2, OrderWithNext
    <3> QED
      BY <2>3, <3>3 DEF InOrder
  <2>5. ASSUME round <= 1, NEW t \in Slaves, Received(t)' > 0
        PROVE  \E i \in 1 .. Len(Summed') : Summed'[i] = <<t, 1>>
    <3>1. CASE Received(t) > 0
      <4>1. PICK i \in 1 .. L : Summed[i] = <<t, 1>>
        BY <1>0, <2>5, <3>1
      <4>2. i \in 1 .. L + 1
        BY <1>0
      <4> QED
        BY <2>2, <4>1, <4>2
    <3>2. CASE Received(t) = 0
      <4>1. t = s
        BY <2>2, <2>5, <3>2
      <4>2. L + 1 \in 1 .. L + 1 /\ Received(s) + 1 = 1
        BY <1>0, <3>2, <4>1
      <4> QED
        BY <2>2, <4>1, <4>2
    <3> QED
      BY <3>1, <3>2, ReceivedType
  <2> QED
    BY <1>0, <2>1, <2>4, <2>5 DEF EveryResultInOneRound
<1>4. CASE ProcPublish
  <2> DEFINE R == Len(ResMsg.of)
             F == Len(fpResults)
  <2>1. /\ UNCHANGED <<fromSlave, results>> /\ round' = round + 1
        /\ Len(ResMsg'.of) = RoundSize /\ ResMsg'.divisor = RoundSize
        /\ Len(Summed') = F /\ \A i \in 1 .. F : Summed'[i] = fpResults[i]
    BY <1>4, PublishEffect
  <2>2. R \in Nat /\ F \in Nat /\ L = R + F
    BY <1>0, SummedIs
  <2>3. \A i \in 1 .. F : Summed'[i] = Summed[R + i]
    BY <1>0, <2>1, SummedIs
  <2>4. \A t : Received(t)' = Received(t)
    BY <2>1 DEF Received
  <2>5. InOrder(Summed, got)'
    <3> DEFINE p == Summed'
    <3>1. Len(p) = F /\ \A i \in 1 .. F : p[i] = Summed[R + i]
      BY <2>1, <2>3
    <3>2. InOrder(p, got)
      <4>1. R \in Nat /\ F \in Nat /\ Len(Summed) = R + F /\ InOrder(Summed, got)
        BY <1>0, <2>2
      <4> HIDE DEF p, got, R, F
      <4> QED
        BY <3>1, <4>1, OrderOfRest
    <3>3. UNCHANGED got
      BY <2>4
    <3> QED
      BY <3>2, <3>3 DEF InOrder
  <2>6. ASSUME round' <= 1, NEW t \in Slaves, Received(t) > 0
        PROVE  \E i \in 1 .. F : Summed'[i] = <<t, 1>>
    <3>1. round = 0
      BY <1>0, <2>1, <2>6
    <3>2. R = 0
      BY <1>0, <3>1, EmptySeq DEF SumInv
    <3>3. PICK i \in 1 .. L : Summed[i] = <<t, 1>>
      <4>1. round <= 1
        BY <3>1
      <4> QED
        BY <1>0, <2>6, <4>1
    <3> QED
      BY <2>2, <2>3, <3>2, <3>3
  <2> QED
    BY <1>0, <2>1, <2>4, <2>5, <2>6 DEF EveryResultInOneRound
<1> QED
  BY <1>1, <1>2, <1>3, <1>4, SumSteps
-----------------------------------------------------------------------------
(* The types, and the invariant as a whole.                                *)

LEMMA TypeStep == IInv /\ [Next]_vars => TypeOK'
<1> SUFFICES ASSUME IInv, [Next]_vars PROVE TypeOK'
  OBVIOUS
<1>0. /\ master \in {"running", "ended", "aborted"} /\ bRun \in BOOLEAN
      /\ pcMain \in {"setup", "test", "accept", "join", "over"}
      /\ iStop \in 0 .. iNodeCount
      /\ pcProc \in {"none", "test", "recv", "publish", "ended"}
      /\ round \in Nat
      /\ pcSlave \in [Slaves -> {"params", "probe", "read", "send", "ended"}]
      /\ results \in [Slaves -> 0 .. MaxResults + 1]
      /\ \A s \in Slaves : Len(fromSlave[s]) <= results[s]
      /\ pc \in [Clients -> {"none", "start", "test", "wait", "send"}]
      /\ iNodeCount \in Nat \ {0}
  BY RoundSizeIsPositive DEF IInv, TypeOK
<1>1. CASE Signal \/ Main
  <2>1. /\ master' \in {"running", "ended", "aborted"} /\ bRun' \in BOOLEAN
        /\ pcMain' \in {"setup", "test", "accept", "join", "over"}
        /\ iStop' \in 0 .. iNodeCount
    <3>1. CASE Signal
      <4>1. UNCHANGED <<master, pcMain>> /\ bRun' = FALSE /\ iStop' = 1
        BY <3>1 DEF Signal
      <4>2. 1 \in 0 .. iNodeCount
        BY <1>0
      <4> QED
        BY <1>0, <4>1, <4>2
    <3>2. CASE StopSend
      BY <1>0, <3>2 DEF StopSend, StopsTo
    <3>3. CASE MainSetup \/ MainTest \/ MainAccept \/ MainJoin
      BY <1>0, <3>3 DEF MainSetup, MainTest, MainAccept, MainJoin
    <3> QED
      BY <1>1, <3>1, <3>2, <3>3 DEF Main
  <2>2. pcSlave' \in [Slaves -> {"params", "probe", "read", "send", "ended"}]
    BY <1>0, <1>1 DEF Signal, Main, StopSend, MainSetup, MainTest, MainAccept, MainJoin
  <2>3. UNCHANGED pc \/ \E c \in Clients : pc' = [pc EXCEPT ![c] = "start"]
    BY <1>1 DEF Signal, Main, StopSend, MainSetup, MainTest, MainAccept, MainJoin
  <2>4. pc' \in [Clients -> {"none", "start", "test", "wait", "send"}]
    BY <1>0, <2>3
  <2>5. /\ UNCHANGED <<round, results, fromSlave>>
        /\ pcProc' \in {pcProc, "test"}
    BY <1>1, MainLeaves
  <2> QED
    BY <1>0, <2>1, <2>2, <2>4, <2>5, CountStep, StopStep DEF TypeOK
<1>2. CASE Proc
  <2>1. UNCHANGED <<master, bRun, pcMain, iStop, pcSlave, results>>
    BY <1>2, ProcLeaves
  <2>2. /\ pcProc' \in {"test", "recv", "publish", "ended"} /\ round' \in Nat
        /\ pc' \in [Clients -> {"none", "start", "test", "wait", "send"}]
    BY <1>0, <1>2 DEF Proc, ProcTest, ProcRecv, ProcPublish
  <2>3. \A s \in Slaves : Len(fromSlave'[s]) <= results'[s]
    <3>1. CASE ProcTest
      BY <1>0, <3>1 DEF ProcTest
    <3>2. CASE ProcRecv
      BY <3>2, RecvEffect
    <3>3. CASE ProcPublish
      BY <1>0, <3>3, PublishEffect
    <3> QED
      BY <1>2, <3>1, <3>2, <3>3 DEF Proc
  <2> QED
    BY <1>0, <2>1, <2>2, <2>3, CountStep, StopStep DEF TypeOK
<1>3. CASE \E c \in Clients : Serve(c)
  <2>1. /\ UNCHANGED <<master, bRun, pcMain, iStop, procVars, slaveVars>>
        /\ pc' \in [Clients -> {"none", "start", "test", "wait", "send"}]
    BY <1>0, <1>3, ServeLeaves
  <2> QED
    BY <1>0, <2>1, CountStep, StopStep DEF TypeOK
<1>4. CASE \E s \in Slaves : Slave(s) \/ SlaveSent(s)
  <2>1. PICK s \in Slaves : Slave(s) \/ SlaveSent(s)
    BY <1>4
  <2>2. /\ UNCHANGED <<master, bRun, pcMain, iStop, procVars, pc>>
        /\ pcSlave' \in [Slaves -> {"params", "probe", "read", "send", "ended"}]
    BY <1>0, <2>1, SlaveLeaves
  <2>3. /\ results' \in [Slaves -> 0 .. MaxResults + 1]
        /\ \A t \in Slaves : Len(fromSlave'[t]) <= results'[t]
    <3>1. CASE SlaveRead(s)
      BY <3>1, ReadEffect
    <3>2. CASE UNCHANGED <<fromSlave, results>>
      BY <1>0, <3>2
    <3> QED
      BY <2>1, <3>1, <3>2, SlaveSends
  <2> QED
    BY <1>0, <2>2, <2>3, CountStep, StopStep DEF TypeOK
<1>5. CASE Terminated \/ UNCHANGED vars
  BY <1>0, <1>5, CountStep, StopStep DEF Terminated, vars, TypeOK
<1> QED
  BY <1>1, <1>2, <1>3, <1>4, <1>5 DEF Next

LEMMA StepInv == IInv /\ [Next]_vars => IInv'
BY TypeStep, ResultStep, SumStep, CountStep, StopStep DEF IInv

\* The inductive invariant holds in every state of every behaviour.
THEOREM Invariance == Spec => []IInv
BY InitInv, StepInv, PTL DEF Spec

\* Every variable keeps its type; the sum and its divisor agree and never
\* exceed a round; a slave is sent its parameters and the stop once each.
THEOREM TypeCorrect == Spec => []TypeOK
<1>1. IInv => TypeOK
  BY DEF IInv
<1> QED
  BY Invariance, <1>1, PTL

\* Each result is averaged in one round, in order and without a gap, and a
\* round is of one matrix per slave process and divided by their number,
\* whichever slaves are fast, slow or dead.
THEOREM ResultsInOneRound == Spec => []EveryResultInOneRound
<1>1. IInv => EveryResultInOneRound
  BY DEF IInv
<1> QED
  BY Invariance, <1>1, PTL
-----------------------------------------------------------------------------
(* The stop.                                                               *)

\* Stop() has got past rank s.
Told(s) == ~bRun /\ (iStop = 0 \/ s < iStop)

HasStop(q) == \E i \in 1 .. Len(q) : q[i] = "STOP"

\* A slave that has not ended has its stop waiting if, and only if, Stop() has
\* got past it; and one that has its parameters has nothing else waiting, so
\* that ProbeNB(), which does not look at the message, is right to take any
\* for the stop.
SlavesAreTold ==
    \A s \in Slaves : pcSlave[s] # "ended" =>
        /\ HasStop(toSlave[s]) <=> Told(s)
        /\ pcSlave[s] # "params" => toSlave[s] = IF Told(s) THEN <<"STOP">> ELSE <<>>

\* No slave gets on before the parameters were sent.
SlavesWait == pcMain = "setup" => \A s \in Slaves : pcSlave[s] \in {"params", "ended"}

ToldInv == SlavesAreTold /\ SlavesWait

LEMMA StopIn ==
    /\ ~HasStop(<<>>) /\ ~HasStop(<<"PARAM">>) /\ HasStop(<<"STOP">>)
    /\ HasStop(<<"PARAM", "STOP">>) /\ HasStop(<<"STOP", "PARAM">>)
<1>1. ~HasStop(<<>>) /\ ~HasStop(<<"PARAM">>) /\ HasStop(<<"STOP">>)
  BY DEF HasStop
<1>2. /\ Len(<<"PARAM", "STOP">>) = 2 /\ <<"PARAM", "STOP">>[2] = "STOP"
      /\ Len(<<"STOP", "PARAM">>) = 2 /\ <<"STOP", "PARAM">>[1] = "STOP"
  OBVIOUS
<1>3. 1 \in 1 .. 2 /\ 2 \in 1 .. 2
  OBVIOUS
<1>4. HasStop(<<"PARAM", "STOP">>) /\ HasStop(<<"STOP", "PARAM">>)
  BY <1>2, <1>3, Zenon DEF HasStop
<1> QED
  BY <1>1, <1>4

\* The parameters neither tell a slave nor hide that it was told.
LEMMA ParamsSent ==
    ASSUME IInv, MainSetup, NEW s \in Slaves
    PROVE  HasStop(toSlave'[s]) <=> HasStop(toSlave[s])
<1>1. pcMain = "setup" /\ (SendParams \/ UNCHANGED toSlave)
  BY DEF MainSetup
<1>2. toSlave[s] = <<>> \/ toSlave[s] = <<"STOP">>
  BY <1>1 DEF IInv, StopInv
<1>3. toSlave'[s] = toSlave[s] \/ toSlave'[s] = Append(toSlave[s], "PARAM")
  BY <1>1 DEF SendParams
<1> QED
  BY <1>2, <1>3, StopIn, AppendToMessages, Zenon

LEMMA ToldStep == IInv /\ ToldInv /\ [Next]_vars => ToldInv'
<1> SUFFICES ASSUME IInv, ToldInv, [Next]_vars PROVE ToldInv'
  OBVIOUS
<1>0. /\ toSlave \in [Slaves -> {<<>>, <<"PARAM">>, <<"STOP">>, <<"PARAM", "STOP">>,
                                <<"STOP", "PARAM">>}]
      /\ DOMAIN pcSlave = Slaves
      /\ iStop \in 0 .. iNodeCount /\ bRun \in BOOLEAN /\ iNodeCount \in Nat \ {0}
      /\ Slaves = 1 .. iNodeCount - 1
  BY RoundSizeIsPositive DEF IInv, TypeOK, Slaves
<1>1. CASE Signal
  <2>1. \A s \in Slaves : ~Told(s) /\ ~Told(s)'
    BY <1>0, <1>1 DEF Signal, Told
  <2>2. UNCHANGED <<pcMain, pcSlave, toSlave>>
    BY <1>1 DEF Signal
  <2> QED
    BY <2>1, <2>2 DEF ToldInv, SlavesAreTold, SlavesWait
<1>2. CASE StopSend
  <2>0. UNCHANGED <<bRun, pcMain>> /\ ~bRun /\ iStop > 0
        /\ iStop' = IF iStop + 1 <= iNodeCount THEN iStop + 1 ELSE 0
    BY <1>0, <1>2 DEF StopSend, StopsTo, IInv, StopInv
  <2>1. \A s \in Slaves : s # iStop => (Told(s)' <=> Told(s))
    BY <1>0, <2>0 DEF Told
  <2>2. CASE iStop \in Slaves
    <3>1. toSlave' = [toSlave EXCEPT ![iStop] = Append(@, "STOP")]
          /\ UNCHANGED pcSlave
      BY <1>2, <2>2 DEF StopSend
    <3>2. toSlave[iStop] = <<>> \/ toSlave[iStop] = <<"PARAM">>
      BY <1>0, <2>0, <2>2 DEF IInv, StopInv
    <3>3. toSlave'[iStop] = Append(toSlave[iStop], "STOP")
      BY <1>0, <2>2, <3>1
    <3>4. \A s \in Slaves : s = iStop => ~Told(s) /\ Told(s)'
      BY <1>0, <2>0, <2>2 DEF Told
    <3>7. HasStop(toSlave'[iStop])
      BY <3>2, <3>3, StopIn, AppendToMessages, Zenon
    <3>5. pcSlave[iStop] \notin {"ended", "params"} => toSlave'[iStop] = <<"STOP">>
      <4>1. pcSlave[iStop] \notin {"ended", "params"} => toSlave[iStop] = <<>>
        BY <2>2, <3>4 DEF ToldInv, SlavesAreTold
      <4> QED
        BY <3>3, <4>1, AppendToMessages, Zenon
    <3>6. \A s \in Slaves : s # iStop => toSlave'[s] = toSlave[s]
      BY <1>0, <3>1
    <3>8. ASSUME NEW s \in Slaves, pcSlave'[s] # "ended"
          PROVE  /\ HasStop(toSlave'[s]) <=> Told(s)'
                 /\ pcSlave'[s] # "params" =>
                       toSlave'[s] = IF Told(s)' THEN <<"STOP">> ELSE <<>>
      <4>1. CASE s = iStop
        BY <3>1, <3>4, <3>5, <3>7, <3>8, <4>1
      <4>2. CASE s # iStop
        BY <2>1, <3>1, <3>6, <3>8, <4>2 DEF ToldInv, SlavesAreTold
      <4> QED
        BY <4>1, <4>2
    <3>9. SlavesAreTold'
      BY <3>8 DEF SlavesAreTold
    <3> QED
      BY <2>0, <3>1, <3>9 DEF ToldInv, SlavesWait
  <2>3. CASE iStop \notin Slaves
    <3>1. UNCHANGED toSlave
          /\ (UNCHANGED pcSlave \/ \A s \in Slaves : pcSlave'[s] = "ended")
      BY <1>2, <2>3 DEF StopSend
    <3> QED
      BY <2>0, <2>1, <2>3, <3>1 DEF ToldInv, SlavesAreTold, SlavesWait
  <2> QED
    BY <2>2, <2>3
<1>3. CASE MainSetup
  <2>1. UNCHANGED <<bRun, iStop, pcSlave>> /\ pcMain = "setup" /\ pcMain' # "setup"
    BY <1>3 DEF MainSetup
  <2>2. \A s \in Slaves : HasStop(toSlave'[s]) <=> HasStop(toSlave[s])
    BY <1>3, ParamsSent
  <2>3. \A s \in Slaves : Told(s)' <=> Told(s)
    BY <2>1 DEF Told
  <2> QED
    BY <2>1, <2>2, <2>3 DEF ToldInv, SlavesAreTold, SlavesWait
<1>4. CASE \/ MainTest \/ MainAccept \/ MainJoin \/ Proc
           \/ \E c \in Clients : Serve(c)
           \/ Terminated \/ UNCHANGED vars
  <2>1. UNCHANGED <<bRun, iStop, pcSlave, toSlave>>
        /\ (pcMain' = "setup" => pcMain = "setup")
    BY <1>4, ProcLeaves, ServeLeaves DEF MainTest, MainAccept, MainJoin, Terminated, vars
  <2>2. \A s \in Slaves : Told(s)' <=> Told(s)
    BY <2>1 DEF Told
  <2> QED
    BY <2>1, <2>2 DEF ToldInv, SlavesAreTold, SlavesWait
<1>5. ASSUME NEW s \in Slaves, Slave(s) \/ SlaveSent(s) PROVE ToldInv'
  <2>1. UNCHANGED <<bRun, pcMain, iStop>>
    BY <1>5, SlaveLeaves
  <2>2. \A t \in Slaves : Told(t)' <=> Told(t)
    BY <2>1 DEF Told
  <2>3. \A t \in Slaves : t # s => pcSlave'[t] = pcSlave[t] /\ toSlave'[t] = toSlave[t]
    BY <1>0, <1>5 DEF Slave, SlaveParams, SlaveProbe, SlaveRead, SlaveSent
  <2>4. /\ pcSlave'[s] # "ended" =>
               /\ HasStop(toSlave'[s]) <=> Told(s)
               /\ toSlave'[s] = IF Told(s) THEN <<"STOP">> ELSE <<>>
        /\ pcMain = "setup" => pcSlave'[s] \in {"params", "ended"}
    <3>1. CASE SlaveParams(s) /\ pcSlave'[s] # "ended"
      <4>1. /\ pcSlave[s] = "params" /\ pcSlave'[s] = "probe"
            /\ toSlave[s] # <<>> /\ Head(toSlave[s]) = "PARAM"
            /\ toSlave'[s] = Tail(toSlave[s])
        BY <1>0, <3>1 DEF SlaveParams
      <4>2. \/ toSlave[s] = <<"PARAM">> /\ toSlave'[s] = <<>>
            \/ toSlave[s] = <<"PARAM", "STOP">> /\ toSlave'[s] = <<"STOP">>
        <5>1. toSlave[s] \in {<<>>, <<"PARAM">>, <<"STOP">>, <<"PARAM", "STOP">>,
                              <<"STOP", "PARAM">>}
          BY <1>0
        <5>2. Head(<<"STOP">>) = "STOP" /\ Head(<<"STOP", "PARAM">>) = "STOP"
          OBVIOUS
        <5>3. toSlave[s] = <<"PARAM">> \/ toSlave[s] = <<"PARAM", "STOP">>
          BY <4>1, <5>1, <5>2, Zenon
        <5> QED
          BY <4>1, <5>3, TailOfMessages, Zenon
      <4>3. pcMain # "setup"
        BY <4>1, <4>2 DEF IInv, StopInv
      <4>4. HasStop(toSlave[s]) <=> Told(s)
        BY <4>1 DEF ToldInv, SlavesAreTold
      <4> QED
        BY <4>2, <4>3, <4>4, StopIn, Zenon
    <3>2. CASE SlaveParams(s) /\ pcSlave'[s] = "ended"
      BY <3>2
    <3>3. CASE SlaveProbe(s) \/ SlaveRead(s) \/ SlaveSent(s)
      <4>1. /\ pcSlave[s] \notin {"params", "ended"}
            /\ pcSlave'[s] # "ended" => UNCHANGED toSlave
        BY <1>0, <3>3 DEF SlaveProbe, SlaveRead, SlaveSent
      <4> QED
        BY <4>1 DEF ToldInv, SlavesAreTold, SlavesWait
    <3> QED
      BY <1>5, <3>1, <3>2, <3>3 DEF Slave
  <2> QED
    BY <2>1, <2>2, <2>3, <2>4 DEF ToldInv, SlavesAreTold, SlavesWait
<1> QED
  BY <1>1, <1>2, <1>3, <1>4, <1>5 DEF Next, Main

\* No stop is lost and none is imagined: once Stop() has returned, each slave
\* has ended or has it waiting, and until Stop() has got past a slave that has
\* its parameters, that slave finds no message.  This is the part of
\* StopEndsUnlessCaught that does not depend on scheduling.
THEOREM StopsArrive == Spec => []SlavesAreTold
<1>1. Init => ToldInv
  <2>1. ASSUME Init, NEW s \in Slaves
        PROVE  pcSlave[s] = "params" /\ toSlave[s] = <<>> /\ ~Told(s)
    BY <2>1 DEF Init, Told
  <2> QED
    BY <2>1, StopIn DEF ToldInv, SlavesAreTold, SlavesWait
<1>2. ToldInv => SlavesAreTold
  BY DEF ToldInv
<1> QED
  BY Invariance, ToldStep, <1>1, <1>2, PTL DEF Spec

\* ProcessThread, caught in the middle of a round, stays there (ProcCaught):
\* no slave comes back to send what is missing, so that the exception
\* StopEndsUnlessCaught makes is a real hang, in Main()'s join too.
CaughtForGood == [][ProcCaught => ProcCaught']_vars

\* A round that misses a result when all slaves have ended is never finished.
THEOREM HangIsForGood == Spec => CaughtForGood
<1>1. ASSUME IInv, [Next]_vars, ProcCaught PROVE ProcCaught'
  <2>0. DOMAIN pcSlave = Slaves /\ (pcMain = "setup" => pcProc = "none")
    BY <1>1 DEF IInv, TypeOK, CountInv
  <2>1. CASE Signal \/ Main
    <3>1. UNCHANGED <<pcProc, fromSlave>>
      BY <1>1, <2>0, <2>1, MainLeaves DEF ProcCaught
    <3>2. UNCHANGED pcSlave \/ \A s \in Slaves : pcSlave'[s] = "ended"
      BY <2>1 DEF Signal, Main, StopSend, MainSetup, MainTest, MainAccept, MainJoin
    <3> QED
      BY <1>1, <3>1, <3>2 DEF ProcCaught
  <2>2. ~Proc
    BY <1>1 DEF Proc, ProcTest, ProcRecv, ProcPublish, ProcCaught
  <2>3. CASE \E c \in Clients : Serve(c)
    BY <1>1, <2>3, ServeLeaves DEF ProcCaught
  <2>4. ~ \E s \in Slaves : Slave(s) \/ SlaveSent(s)
    BY <1>1 DEF ProcCaught, Slave, SlaveParams, SlaveProbe, SlaveRead, SlaveSent
  <2>5. CASE Terminated \/ UNCHANGED vars
    BY <1>1, <2>5 DEF Terminated, vars, ProcCaught
  <2> QED
    BY <1>1, <2>1, <2>2, <2>3, <2>4, <2>5 DEF Next
<1> QED
  BY Invariance, <1>1, PTL DEF Spec, CaughtForGood
=============================================================================
