-------------------------- MODULE SoundProxyProofs --------------------------
(***************************************************************************)
(* Proofs about SoundProxy, for any number of clients, slots and blocks.   *)
(***************************************************************************)
EXTENDS SoundProxy, TLAPS, WellFoundedInduction

USE DEF MainGoto, InGoto, WaitGoto, Goto, shared, messages, monitor,
        client, Streaming, NoBlock

\* A set of slots that is not empty has a lowest one.
LEMMA LowestSlot == ASSUME NEW S \in SUBSET Slots, S # {}
                    PROVE  Lowest(S) \in S
<1> DEFINE R == {ss \in Nat \X Nat : ss[1] < ss[2]}
<1>1. IsWellFoundedOn(R, Nat)
  BY NatLessThanWellFounded, Zenon DEF OpToRel
<1>2. S \subseteq Nat
  BY ThreadAssumption DEF Slots
<1>3. PICK m \in S : \A t \in S : ~(<<t, m>> \in R)
  <2> HIDE DEF R
  <2> QED
    BY <1>1, <1>2, WFMin
<1>4. ASSUME NEW t \in S PROVE m <= t
  <2>1. <<t, m>> \in Nat \X Nat /\ <<t, m>>[1] = t /\ <<t, m>>[2] = m
    BY <1>2
  <2>2. ~(t < m)
    BY <1>3, <2>1
  <2> QED
    BY <1>2, <2>2
<1> QED
  BY <1>4 DEF Lowest

\* The initial state satisfies the inductive invariant.
LEMMA InitInv == Init => IInv
<1> SUFFICES ASSUME Init PROVE IInv
  OBVIOUS
<1>1. TypeOK
  BY DEF Init, TypeOK
<1>2. MutexInv /\ SlotInv
  BY ThreadAssumption DEF Init, MutexInv, SlotInv
<1>3. FirstMsgInv /\ BlockInv
  BY DEF Init, FirstMsgInv, BlockInv
<1>4. OwnConnection /\ HeaderIsReal /\ NoTornBlock
  BY DEF Init, OwnConnection, HeaderIsReal, NoTornBlock
<1> QED
  BY <1>1, <1>2, <1>3, <1>4 DEF IInv
-----------------------------------------------------------------------------
\* A client thread that ends keeps the types.
LEMMA EndType == ASSUME TypeOK, NEW c \in Clients, NEW from, End(c, from)
                 PROVE  TypeOK'
BY DEF TypeOK, End

\* Every step keeps the types; only FindFreeSlot has to compute.
LEMMA TypeStep == IInv /\ [Next]_vars => TypeOK'
<1> SUFFICES ASSUME IInv, [Next]_vars PROVE TypeOK'
  OBVIOUS
<1> USE DEF IInv, TypeOK
<1>1. CASE Main
  <2>1. CASE MainSignal
    BY <2>1 DEF MainSignal
  <2>2. CASE MainJoin
    BY <2>2 DEF MainJoin
  <2>3. CASE MainDelete
    BY <2>3 DEF MainDelete
  <2> QED
    BY <1>1, <2>1, <2>2, <2>3 DEF Main
<1>2. CASE Input
  <2>1. CASE InConnect
    BY <2>1 DEF InConnect
  <2>2. CASE InSelect
    BY <2>2 DEF InSelect, HdrTimeout, Data!Lock
  <2>3. CASE InReadHdr
    BY <2>3 DEF InReadHdr, HdrFailed, HdrPart, Data!Unlock
  <2>4. CASE InStopHdr
    BY <2>4 DEF InStopHdr, Data!Unlock
  <2>5. CASE InTest
    BY <2>5 DEF InTest, TestThen
  <2>6. CASE InLoop
    <3>1. bRun' \in BOOLEAN
      BY <2>6 DEF InLoop
    <3>2. \E p \in {"test", "lock"} : InGoto("loop", p)
      BY <2>6 DEF InLoop
    <3> QED
      BY <2>6, <3>1, <3>2 DEF InLoop
  <2>7. CASE InCopy
    BY <2>7 DEF InCopy, Data!Lock
  <2>8. CASE InPublish
    BY <2>8 DEF InPublish, Data!NotifyAll, Data!Unlock
  <2> QED
    BY <1>2, <2>1, <2>2, <2>3, <2>4, <2>5, <2>6, <2>7, <2>8 DEF Input
<1>3. CASE FindFreeSlot
  <2>1. CASE Slots \subseteq bServeClient
    BY <1>3, <2>1 DEF FindFreeSlot, FindThen
  <2>2. CASE ~(Slots \subseteq bServeClient)
    <3>1. Slots \ bServeClient \in SUBSET Slots /\ Slots \ bServeClient # {}
      BY <2>2
    <3>2. Lowest(Slots \ bServeClient) \in Slots
      BY <3>1, LowestSlot
    <3> QED
      BY <1>3, <2>2, <3>2 DEF FindFreeSlot, FindThen
  <2> QED
    BY <2>1, <2>2
<1>4. CASE WaitAccept
  <2>1. CASE UNCHANGED <<bServeClient, iClientSockH, pc, client>>
    BY <1>4, <2>1 DEF WaitAccept
  <2>2. ASSUME NEW c \in Clients, TakeSlot(c) PROVE TypeOK'
    <3>1. late' \in [Clients -> BOOLEAN]
      BY <2>2 DEF TakeSlot, Serve
    <3>2. iSlotIdx \in Slots /\ pcWait' = "test"
      BY <1>4 DEF WaitAccept
    <3>3. /\ bServeClient' \subseteq Slots
          /\ iClientSockH' \in [Slots -> Clients \cup {NoThread}]
          /\ iThisIdx' \in [Clients -> Slots \cup {-1}]
      BY <2>2, <3>2 DEF TakeSlot, Serve
    <3>4. pc' \in [Clients -> Streaming \cup {"unborn", "start", "header",
                                              "sendHdr", "gone"}]
      BY <2>2 DEF TakeSlot, Serve
    <3>5. UNCHANGED <<bRun, proc, pcMain, pcIn, iSlotIdx, messages, monitor,
                      iSockH, HdrBuf, MsgBuf, newest, missed>>
      BY <1>4, <2>2 DEF WaitAccept, TakeSlot, Serve
    <3> QED
      BY <3>1, <3>2, <3>3, <3>4, <3>5
  <2> QED
    BY <1>4, <2>1, <2>2 DEF WaitAccept
<1>5. CASE WaitTest
  BY <1>5 DEF WaitTest
<1>6. ASSUME NEW c \in Clients, Compute(c) PROVE TypeOK'
  <2>1. CASE ServeStart(c)
    BY <2>1 DEF ServeStart, SlotInv
  <2>2. CASE CopyHdr(c)
    BY <2>2 DEF CopyHdr
  <2>3. CASE WaitData(c)
    BY <2>3 DEF WaitData, Data!Wait, Data!Unlock
  <2>4. CASE WakeUp(c)
    BY <2>4 DEF WakeUp, CopyHead, Data!Lock
  <2>5. CASE Copy(c)
    BY <2>5 DEF Copy, Data!Unlock
  <2>6. CASE Test(c)
    <3>1. CASE End(c, "test")
      BY <3>1, EndType
    <3>2. CASE /\ Goto(c, "test", "send")
               /\ UNCHANGED <<monitor, iSockH, HdrBuf, MsgBuf, newest, missed>>
      BY <3>2
    <3> QED
      BY <2>6, <3>1, <3>2 DEF Test
  <2> QED
    BY <1>6, <2>1, <2>2, <2>3, <2>4, <2>5, <2>6 DEF Compute
<1>7. ASSUME NEW c \in Clients, Talk(c) PROVE TypeOK'
  <2>1. CASE End(c, "sendHdr") \/ End(c, "send")
    BY <2>1, EndType
  <2>2. CASE /\ Goto(c, "sendHdr", "lock")
             /\ newest' = [newest EXCEPT ![c] = published]
             /\ HdrBuf' = [HdrBuf EXCEPT ![c] = "junk"]
             /\ UNCHANGED <<monitor, iSockH, MsgBuf, missed>>
    BY <2>2
  <2>3. CASE /\ Goto(c, "send", "lock")
             /\ MsgBuf' = [MsgBuf EXCEPT ![c] = NoBlock]
             /\ UNCHANGED <<monitor, iSockH, HdrBuf, newest, missed>>
    BY <2>3
  <2> QED
    BY <1>7, <2>1, <2>2, <2>3 DEF Talk, SendHdr, SendBlock
<1>8. CASE Terminated \/ UNCHANGED vars
  BY <1>8 DEF Terminated, vars
<1> QED
  BY <1>1, <1>2, <1>3, <1>4, <1>5, <1>6, <1>7, <1>8 DEF Next, WaitConnect

\* Only the thread that copies, or SoundIn, holds MutexData.
LEMMA MutexStep == IInv /\ [Next]_vars => MutexInv'
<1> SUFFICES ASSUME IInv, [Next]_vars PROVE MutexInv'
  OBVIOUS
<1> USE ThreadAssumption DEF IInv, MutexInv
<1> USE DEF Data!Lock, Data!Unlock
<1>0. pc \in [Clients -> Streaming \cup {"unborn", "start", "header",
                                         "sendHdr", "gone"}]
  BY DEF TypeOK
<1>1. CASE Main
  BY <1>1 DEF Main, MainSignal, MainJoin, MainDelete
<1>2. CASE Input
  <2>1. CASE InConnect \/ InTest \/ InLoop
    BY <2>1 DEF InConnect, InTest, TestThen, InLoop
  <2>2. CASE InSelect
    BY <2>2 DEF InSelect, HdrTimeout
  <2>3. CASE InReadHdr \/ InStopHdr
    BY <2>3 DEF InReadHdr, HdrFailed, HdrPart, InStopHdr
  <2>4. CASE InCopy \/ InPublish
    BY <2>4 DEF InCopy, InPublish, Data!NotifyAll
  <2> QED
    BY <1>2, <2>1, <2>2, <2>3, <2>4 DEF Input
<1>3. CASE WaitConnect
  <2>1. CASE FindFreeSlot \/ WaitTest
    BY <2>1 DEF FindFreeSlot, FindThen, WaitTest
  <2>2. CASE WaitAccept /\ UNCHANGED <<bServeClient, iClientSockH, pc, client>>
    BY <2>2 DEF WaitAccept
  <2>3. ASSUME WaitAccept, NEW c \in Clients, TakeSlot(c) PROVE MutexInv'
    BY <1>0, <2>3 DEF WaitAccept, TakeSlot, Serve
  <2> QED
    BY <1>3, <2>1, <2>2, <2>3 DEF WaitConnect, WaitAccept
<1>4. ASSUME NEW c \in Clients, Compute(c) PROVE MutexInv'
  <2>1. CASE ServeStart(c) \/ CopyHdr(c) \/ Test(c)
    <3>1. /\ UNCHANGED <<pcIn, MutexData, CondData>>
          /\ pc[c] \in {"start", "header", "test"}
          /\ \E p \in {"header", "sendHdr", "gone", "send"} :
                pc' = [pc EXCEPT ![c] = p]
      BY <2>1 DEF ServeStart, CopyHdr, Test, End
    <3> QED
      BY <1>0, <3>1
  <2>2. CASE WaitData(c)
    BY <1>0, <2>2 DEF WaitData, Data!Wait
  <2>3. CASE WakeUp(c)
    BY <1>0, <2>3 DEF WakeUp, CopyHead
  <2>4. CASE Copy(c)
    BY <1>0, <2>4 DEF Copy
  <2> QED
    BY <1>4, <2>1, <2>2, <2>3, <2>4 DEF Compute
<1>5. ASSUME NEW c \in Clients, Talk(c) PROVE MutexInv'
  <2>1. /\ UNCHANGED <<pcIn, MutexData, CondData>>
        /\ pc[c] \in {"sendHdr", "send"}
        /\ \E p \in {"lock", "gone"} : pc' = [pc EXCEPT ![c] = p]
    BY <1>5 DEF Talk, SendHdr, SendBlock, End
  <2> QED
    BY <1>0, <2>1
<1>6. CASE Terminated \/ UNCHANGED vars
  BY <1>6 DEF Terminated, vars
<1> QED
  BY <1>1, <1>2, <1>3, <1>4, <1>5, <1>6 DEF Next
-----------------------------------------------------------------------------
\* What is not WaitConnectThread's leaves the slots alone.
LEMMA SlotsUntouched ==
    ASSUME Main \/ Input \/ Terminated \/ UNCHANGED vars
    PROVE  UNCHANGED <<pcWait, iSlotIdx, bServeClient, iClientSockH, pc, client>>
BY DEF Main, MainSignal, MainJoin, MainDelete, Input, InConnect, InSelect,
       HdrTimeout, InReadHdr, HdrFailed, HdrPart, InStopHdr, InTest, TestThen,
       InLoop, InCopy, InPublish, Terminated, vars

\* A slot is given to one connection, which keeps it: WaitConnectThread has
\* found it free, and nobody else takes slots.
LEMMA SlotStep == IInv /\ [Next]_vars => SlotInv' /\ OwnConnection'
<1> SUFFICES ASSUME IInv, [Next]_vars PROVE SlotInv' /\ OwnConnection'
  OBVIOUS
<1> USE DEF IInv, SlotInv, OwnConnection
<1>0. /\ pc \in [Clients -> Streaming \cup {"unborn", "start", "header",
                                            "sendHdr", "gone"}]
      /\ iThisIdx \in [Clients -> Slots \cup {-1}]
      /\ iClientSockH \in [Slots -> Clients \cup {NoThread}]
      /\ iSockH \in [Clients -> Clients \cup {NoThread}]
      /\ bServeClient \subseteq Slots
      /\ pcWait = "accept" => iSlotIdx \in Slots
  BY DEF TypeOK
<1>1. CASE Main \/ Input \/ Terminated \/ UNCHANGED vars
  BY <1>1, SlotsUntouched
<1>2. CASE FindFreeSlot
  <2>1. CASE Slots \subseteq bServeClient
    BY <1>2, <2>1 DEF FindFreeSlot, FindThen
  <2>2. CASE ~(Slots \subseteq bServeClient)
    <3>1. Lowest(Slots \ bServeClient) \notin bServeClient
      BY <2>2, LowestSlot
    <3> QED
      BY <1>2, <2>2, <3>1 DEF FindFreeSlot, FindThen
  <2> QED
    BY <2>1, <2>2
<1>3. CASE WaitAccept
  <2>1. CASE UNCHANGED <<bServeClient, iClientSockH, pc, client>>
    BY <1>3, <2>1 DEF WaitAccept
  <2>2. ASSUME NEW c \in Clients, TakeSlot(c)
        PROVE  SlotInv' /\ OwnConnection'
    <3>1. iSlotIdx \in Slots /\ iSlotIdx \notin bServeClient
      BY <1>0, <1>3 DEF WaitAccept
    <3>2. ASSUME NEW d \in Clients, pc'[d] # "unborn"
          PROVE  /\ iThisIdx'[d] \in bServeClient'
                 /\ iClientSockH'[iThisIdx'[d]] = d
      <4>1. CASE d = c
        BY <1>0, <2>2, <3>1, <4>1 DEF TakeSlot, Serve
      <4>2. CASE d # c
        BY <1>0, <2>2, <3>1, <3>2, <4>2 DEF TakeSlot, Serve
      <4> QED
        BY <4>1, <4>2
    <3>3. OwnConnection'
      BY <1>0, <2>2 DEF TakeSlot, Serve
    <3>4. pcWait' = "test"
      BY <1>3 DEF WaitAccept
    <3> QED
      BY <3>2, <3>3, <3>4
  <2> QED
    BY <1>3, <2>1, <2>2 DEF WaitAccept
<1>4. CASE WaitTest
  BY <1>4 DEF WaitTest
<1>5. ASSUME NEW c \in Clients, Compute(c) \/ Talk(c)
      PROVE  SlotInv' /\ OwnConnection'
  <2>1. UNCHANGED <<pcWait, iSlotIdx, bServeClient, iClientSockH, iThisIdx>>
    BY <1>5 DEF Compute, Talk, ServeStart, CopyHdr, WaitData, WakeUp, CopyHead,
                Copy, Test, SendHdr, SendBlock, End
  <2>2. \A d \in Clients : pc'[d] = "unborn" <=> pc[d] = "unborn"
    BY <1>0, <1>5 DEF Compute, Talk, ServeStart, CopyHdr, WaitData, WakeUp,
                      CopyHead, Copy, Test, SendHdr, SendBlock, End
  <2>3. SlotInv'
    BY <2>1, <2>2
  <2>4. CASE ServeStart(c)
    BY <1>0, <2>3, <2>4 DEF ServeStart
  <2>5. CASE CopyHdr(c) \/ WaitData(c) \/ WakeUp(c) \/ Copy(c)
    BY <1>0, <2>3, <2>5 DEF CopyHdr, WaitData, WakeUp, CopyHead, Copy
  <2>6. CASE Test(c) \/ Talk(c)
    BY <1>0, <2>3, <2>6 DEF Test, Talk, SendHdr, SendBlock, End
  <2> QED
    BY <1>5, <2>4, <2>5, <2>6 DEF Compute
<1> QED
  BY <1>1, <1>2, <1>3, <1>4, <1>5 DEF Next, WaitConnect
-----------------------------------------------------------------------------
\* Until SoundIn is past it, FirstMsg may be anything; half of it is seen by
\* others only after Stop(), because SoundIn keeps MutexData until then.
LEMMA FirstMsgStep == IInv /\ [Next]_vars => FirstMsgInv' /\ HeaderIsReal'
<1> SUFFICES ASSUME IInv, [Next]_vars PROVE FirstMsgInv' /\ HeaderIsReal'
  OBVIOUS
<1> USE DEF IInv, FirstMsgInv, HeaderIsReal
<1>0. /\ pc \in [Clients -> Streaming \cup {"unborn", "start", "header",
                                            "sendHdr", "gone"}]
      /\ HdrBuf \in [Clients -> {"junk", "torn", "whole"}]
      /\ late \in [Clients -> BOOLEAN]
      /\ FirstMsg \in {"junk", "torn", "whole"}
      /\ bRun \in BOOLEAN
  BY DEF TypeOK
<1>1. CASE Main \/ Terminated \/ UNCHANGED vars
  <2>1. /\ UNCHANGED <<pcIn, FirstMsg, pc, late, HdrBuf>>
        /\ UNCHANGED bRun \/ bRun' = FALSE
    BY <1>1 DEF Main, MainSignal, MainJoin, MainDelete, Terminated, vars
  <2> QED
    BY <1>0, <2>1
<1>2. CASE Input
  <2> UNCHANGED <<pc, late, HdrBuf>>
    BY <1>2, SlotsUntouched
  <2>1. CASE InConnect \/ InLoop
    BY <1>0, <2>1 DEF InConnect, InLoop
  <2>2. CASE InTest \/ InCopy \/ InPublish
    BY <1>0, <2>2 DEF InTest, TestThen, InCopy, InPublish
  <2>3. CASE InSelect
    BY <1>0, <2>3 DEF InSelect, HdrTimeout
  <2>4. CASE InReadHdr
    BY <1>0, <2>4 DEF InReadHdr, HdrFailed, HdrPart
  <2>5. CASE InStopHdr
    BY <1>0, <2>5 DEF InStopHdr
  <2> QED
    BY <1>2, <2>1, <2>2, <2>3, <2>4, <2>5 DEF Input
<1>3. CASE WaitConnect
  <2>1. CASE FindFreeSlot \/ WaitTest
    BY <1>0, <2>1 DEF FindFreeSlot, FindThen, WaitTest
  <2>2. CASE WaitAccept /\ UNCHANGED <<bServeClient, iClientSockH, pc, client>>
    BY <1>0, <2>2 DEF WaitAccept
  <2>3. ASSUME WaitAccept, NEW c \in Clients, TakeSlot(c)
        PROVE  FirstMsgInv' /\ HeaderIsReal'
    <3>1. /\ UNCHANGED <<bRun, pcIn, FirstMsg, HdrBuf>>
          /\ pc' = [pc EXCEPT ![c] = "start"]
      BY <2>3 DEF WaitAccept, TakeSlot, Serve
    <3>2. \A d \in Clients :
             IF d = c THEN late'[d] => pcIn \notin {"connect", "select",
                                                   "readHdr", "stopHdr"}
             ELSE late'[d] = late[d]
      BY <1>0, <2>3 DEF TakeSlot, Serve
    <3>3. FirstMsgInv'
      BY <3>1, <3>2
    <3>4. HeaderIsReal'
      BY <1>0, <3>1, <3>2
    <3> QED
      BY <3>3, <3>4
  <2> QED
    BY <1>3, <2>1, <2>2, <2>3 DEF WaitConnect, WaitAccept
<1>4. ASSUME NEW c \in Clients, Compute(c) \/ Talk(c)
      PROVE  FirstMsgInv' /\ HeaderIsReal'
  <2>1. UNCHANGED <<bRun, pcIn, FirstMsg, late>>
    BY <1>4 DEF Compute, Talk, ServeStart, CopyHdr, WaitData, WakeUp, CopyHead,
                Copy, Test, SendHdr, SendBlock, End
  <2>2. CASE CopyHdr(c)
    <3>1. pcIn # "stopHdr"
      BY <2>2, ThreadAssumption DEF CopyHdr, MutexInv
    <3> QED
      BY <1>0, <2>1, <2>2, <3>1 DEF CopyHdr
  <2>3. CASE ~CopyHdr(c)
    <3>1. \A d \in Clients :
             pc'[d] = "sendHdr" => pc[d] = "sendHdr" /\ HdrBuf'[d] = HdrBuf[d]
      BY <1>0, <1>4, <2>3 DEF Compute, Talk, ServeStart, WaitData, WakeUp,
                              CopyHead, Copy, Test, SendHdr, SendBlock, End
    <3> QED
      BY <2>1, <3>1
  <2> QED
    BY <2>2, <2>3
<1> QED
  BY <1>1, <1>2, <1>3, <1>4 DEF Next

\* A copy is not disturbed, and a client that is awake has a block to take.
LEMMA BlockStep == IInv /\ [Next]_vars => BlockInv' /\ NoTornBlock'
<1> SUFFICES ASSUME IInv, [Next]_vars PROVE BlockInv' /\ NoTornBlock'
  OBVIOUS
<1> USE DEF IInv, BlockInv, NoTornBlock
<1>0. /\ pc \in [Clients -> Streaming \cup {"unborn", "start", "header",
                                            "sendHdr", "gone"}]
      /\ DataMsg \in [head : Nat, tail : Nat]
      /\ published \in Nat
      /\ MsgBuf \in [Clients -> [head : Nat, tail : Nat]]
      /\ newest \in [Clients -> Nat]
      /\ missed \in [Clients -> Int]
  BY DEF TypeOK
<1>1. CASE Main \/ Terminated \/ UNCHANGED vars
  <2>1. UNCHANGED <<pcIn, DataMsg, published, CondData, pc, MsgBuf, newest,
                    missed>>
    BY <1>1 DEF Main, MainSignal, MainJoin, MainDelete, Terminated, vars
  <2> QED
    BY <2>1
<1>2. CASE Input
  <2> UNCHANGED <<pc, MsgBuf, newest, missed>>
    BY <1>2, SlotsUntouched
  <2>1. CASE InPublish
    <3>1. /\ DataMsg'.tail = published + 1
          /\ DataMsg'.head = published + 1
          /\ published' = published + 1
          /\ pcIn' # "publish"
      BY <1>0, <2>1 DEF InPublish
    <3>2. \A c \in Clients : pc[c] # "copy"
      BY <2>1, ThreadAssumption DEF InPublish, MutexInv
    <3> QED
      BY <1>0, <3>1, <3>2
  <2>2. CASE InCopy
    BY <1>0, <2>2 DEF InCopy
  <2>3. CASE ~InPublish /\ ~InCopy
    <3>1. /\ UNCHANGED <<DataMsg, published, CondData>>
          /\ pcIn # "publish" /\ pcIn' # "publish"
      BY <1>2, <2>3 DEF Input, InConnect, InSelect, HdrTimeout, InReadHdr,
                        HdrFailed, HdrPart, InStopHdr, InTest, TestThen, InLoop
    <3> QED
      BY <3>1
  <2> QED
    BY <2>1, <2>2, <2>3
<1>3. CASE WaitConnect
  <2>1. /\ UNCHANGED <<pcIn, DataMsg, published, CondData, MsgBuf, newest, missed>>
        /\ UNCHANGED pc \/ \E c \in Clients : /\ pc[c] = "unborn"
                                             /\ pc' = [pc EXCEPT ![c] = "start"]
    BY <1>3 DEF WaitConnect, FindFreeSlot, FindThen, WaitAccept, TakeSlot,
                Serve, WaitTest
  <2> QED
    BY <1>0, <2>1
<1>4. ASSUME NEW c \in Clients, Compute(c) PROVE BlockInv' /\ NoTornBlock'
  <2>1. CASE ServeStart(c) \/ CopyHdr(c)
    BY <1>0, <2>1 DEF ServeStart, CopyHdr
  <2>2. CASE WaitData(c)
    BY <1>0, <2>2 DEF WaitData, Data!Wait
  <2>3. CASE WakeUp(c)
    <3>1. DataMsg.head = published
      BY <2>3, ThreadAssumption DEF WakeUp, Data!Lock, MutexInv
    <3> QED
      BY <1>0, <2>3, <3>1 DEF WakeUp, CopyHead
  <2>4. CASE Copy(c)
    BY <1>0, <2>4 DEF Copy
  <2>5. CASE End(c, "test")
    BY <1>0, <2>5 DEF End
  <2>6. CASE Test(c) /\ ~End(c, "test")
    BY <1>0, <2>6 DEF Test
  <2> QED
    BY <1>4, <2>1, <2>2, <2>3, <2>4, <2>5, <2>6 DEF Compute
<1>5. ASSUME NEW c \in Clients, Talk(c) PROVE BlockInv' /\ NoTornBlock'
  <2>1. CASE End(c, "sendHdr") \/ End(c, "send")
    BY <1>0, <2>1 DEF End
  <2>2. CASE ~(End(c, "sendHdr") \/ End(c, "send"))
    BY <1>0, <1>5, <2>2 DEF Talk, SendHdr, SendBlock
  <2> QED
    BY <2>1, <2>2
<1> QED
  BY <1>1, <1>2, <1>3, <1>4, <1>5 DEF Next
-----------------------------------------------------------------------------
\* Every step preserves the inductive invariant, which thus always holds.
LEMMA StepInv == IInv /\ [Next]_vars => IInv'
BY TypeStep, MutexStep, SlotStep, FirstMsgStep, BlockStep DEF IInv

THEOREM Invariance == Spec => []IInv
BY InitInv, StepInv, PTL DEF Spec

\* Every variable keeps its type.
THEOREM TypeCorrect == Spec => []TypeOK
<1>1. IInv => TypeOK
  BY DEF IInv
<1> QED
  BY Invariance, <1>1, PTL

\* However many connections come, each is written to by its own thread alone.
THEOREM ConnectionsKeptApart == Spec => []OwnConnection
<1>1. IInv => OwnConnection
  BY DEF IInv
<1> QED
  BY Invariance, <1>1, PTL

\* Clients of a proxy that runs are not sent half a first message, and late
\* ones are sent the real one.
THEOREM HeadersAreReal == Spec => []HeaderIsReal
<1>1. IInv => HeaderIsReal
  BY DEF IInv
<1> QED
  BY Invariance, <1>1, PTL

\* No client is about to be written a mixture of two blocks.
THEOREM BlocksAreWhole == Spec => []NoTornBlock
<1>1. IInv => NoTornBlock
  BY DEF IInv
<1> QED
  BY Invariance, <1>1, PTL
-----------------------------------------------------------------------------
\* Every step of the proxy is a step of the block stream, or invisible.
LEMMA StreamStep ==
    ASSUME IInv, [Next]_vars
    PROVE  [Stream!Next]_(Stream!vars)
<1> USE DEF IInv
<1>0. /\ pc \in [Clients -> Streaming \cup {"unborn", "start", "header",
                                            "sendHdr", "gone"}]
      /\ published \in Nat
      /\ newest \in [Clients -> Nat]
      /\ missed \in [Clients -> Int]
  BY DEF TypeOK
<1>1. CASE Main \/ Terminated \/ UNCHANGED vars
  BY <1>1 DEF Main, MainSignal, MainJoin, MainDelete, Terminated, vars,
              Stream!vars
<1>2. CASE Input
  <2> UNCHANGED <<pc, newest, missed>>
    BY <1>2, SlotsUntouched
  <2>1. CASE InPublish
    <3>1. Stream!Publish
      BY <2>1 DEF InPublish, Stream!Publish
    <3> QED
      BY <3>1 DEF Stream!Next
  <2>2. CASE ~InPublish
    <3>1. UNCHANGED published
      BY <1>2, <2>2 DEF Input, InConnect, InSelect, HdrTimeout, InReadHdr,
              HdrFailed, HdrPart, InStopHdr, InTest, TestThen, InLoop, InCopy
    <3> QED
      BY <3>1 DEF Stream!vars
  <2> QED
    BY <2>1, <2>2
<1>3. CASE WaitConnect
  <2>1. /\ UNCHANGED <<published, newest, missed>>
        /\ UNCHANGED pc \/ \E c \in Clients : /\ pc[c] = "unborn"
                                             /\ pc' = [pc EXCEPT ![c] = "start"]
    BY <1>3 DEF WaitConnect, FindFreeSlot, FindThen, WaitAccept, TakeSlot,
                Serve, WaitTest
  <2>2. UNCHANGED {c \in Clients : pc[c] \in Streaming}
    BY <1>0, <2>1
  <2> QED
    BY <2>1, <2>2 DEF Stream!vars
<1>4. ASSUME NEW c \in Clients, Compute(c) \/ Talk(c)
      PROVE  [Stream!Next]_(Stream!vars)
  <2>1. UNCHANGED published
    BY <1>4 DEF Compute, Talk, ServeStart, CopyHdr, WaitData, WakeUp, CopyHead,
                Copy, Test, SendHdr, SendBlock, End
  <2>2. CASE Copy(c)
    <3>1. DataMsg.tail = published /\ newest[c] < published
      BY <2>2 DEF Copy, BlockInv
    <3>2. UNCHANGED {d \in Clients : pc[d] \in Streaming}
      BY <1>0, <2>2 DEF Copy
    <3>3. Stream!Take(c)
      BY <2>1, <2>2, <3>1, <3>2 DEF Copy, Stream!Take
    <3> QED
      BY <3>3 DEF Stream!Next
  <2>3. CASE End(c, "test") \/ End(c, "send")
    <3>1. Stream!Leave(c)
      BY <1>0, <2>1, <2>3 DEF End, Stream!Leave
    <3> QED
      BY <3>1 DEF Stream!Next
  <2>4. CASE End(c, "sendHdr")
    <3>1. newest[c] = 0 /\ missed[c] = 0
      BY <2>4 DEF End, BlockInv
    <3>2. UNCHANGED <<newest, missed>>
      BY <1>0, <2>4, <3>1 DEF End
    <3>3. UNCHANGED {d \in Clients : pc[d] \in Streaming}
      BY <1>0, <2>4 DEF End
    <3> QED
      BY <2>1, <3>2, <3>3 DEF Stream!vars
  <2>5. CASE Goto(c, "sendHdr", "lock") /\ SendHdr(c)
    <3>1. Stream!Join(c)
      BY <1>0, <2>1, <2>5 DEF SendHdr, End, Stream!Join
    <3> QED
      BY <3>1 DEF Stream!Next
  <2>6. CASE \/ ServeStart(c) \/ CopyHdr(c) \/ WaitData(c) \/ WakeUp(c)
             \/ Goto(c, "test", "send") /\ UNCHANGED <<newest, missed>>
             \/ Goto(c, "send", "lock") /\ UNCHANGED <<newest, missed>>
    <3>1. UNCHANGED <<newest, missed>>
      BY <2>6 DEF ServeStart, CopyHdr, WaitData, WakeUp, CopyHead
    <3>2. UNCHANGED {d \in Clients : pc[d] \in Streaming}
      BY <1>0, <2>6 DEF ServeStart, CopyHdr, WaitData, WakeUp, CopyHead
    <3> QED
      BY <2>1, <3>1, <3>2 DEF Stream!vars
  <2> QED
    BY <1>4, <2>2, <2>3, <2>4, <2>5, <2>6
    DEF Compute, Talk, Test, SendHdr, SendBlock
<1> QED
  BY <1>1, <1>2, <1>3, <1>4 DEF Next

\* The proxy's clients see a freely spinning stream of blocks.
THEOREM Refinement == Spec => ImplementsBlockStream
<1>1. Init => Stream!Init
  BY DEF Init, Stream!Init
<1>2. IInv /\ [Next]_vars => [Stream!Next]_(Stream!vars)
  BY StreamStep
<1> QED
  BY Invariance, <1>1, <1>2, PTL DEF Spec, ImplementsBlockStream, Stream!Spec

\* The same stream, with the theorems about it.
Proved == INSTANCE BlockStreamProofs WITH
    joined <- {c \in Clients : pc[c] \in Streaming}

\* What the refinement is for: a client thread of the proxy takes no block
\* twice and none SoundIn had not read, and counts those between two takes,
\* although it knows blocks by the proxy's own counter only.
THEOREM StreamPromise ==
    Spec => []Stream!NothingInvented /\ Stream!NewerAndCounted
<1>1. Stream!Spec => Proved!Spec
  BY DEF Stream!Spec, Stream!Init, Stream!Next, Stream!vars, Stream!Publish,
         Stream!Join, Stream!Take, Stream!Leave, Proved!Spec, Proved!Init,
         Proved!Next, Proved!vars, Proved!Publish, Proved!Join, Proved!Take,
         Proved!Leave
<1>2. Proved!Spec => []Proved!NothingInvented /\ Proved!NewerAndCounted
  BY Proved!NoInventions, Proved!Promise
<1>3. Spec => Stream!Spec
  BY Refinement DEF ImplementsBlockStream
<1>4. Proved!NothingInvented <=> Stream!NothingInvented
  BY DEF Proved!NothingInvented, Stream!NothingInvented
<1>5. Proved!NewerAndCounted => Stream!NewerAndCounted
  BY DEF Proved!NewerAndCounted, Stream!NewerAndCounted, Proved!vars, Stream!vars
<1> QED
  BY <1>1, <1>2, <1>3, <1>4, <1>5, PTL
=============================================================================
