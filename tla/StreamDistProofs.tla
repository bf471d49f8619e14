-------------------------- MODULE StreamDistProofs --------------------------
(***************************************************************************)
(* Proofs about StreamDist, for any number of clients, blocks and spurious *)
(* wakeups, any stream headers and frame sizes, and samples of any size.   *)
(***************************************************************************)
EXTENDS StreamDist, TLAPS

USE DEF MSG_SOUND_COMPRESS_NONE, MSG_SOUND_COMPRESS_FLAC, MainAt, InAt, Goto,
        Join, Store, Start, SizeOf, SyncAt, AdvanceFrom, CopyTail

LEMMA DivInNat == ASSUME NEW n \in Nat, NEW d \in Nat, d > 0
                  PROVE  n \div d \in Nat
  OBVIOUS

LEMMA ProductInNat == ASSUME NEW m \in Nat, NEW n \in Nat
                      PROVE  m * n \in Nat
  OBVIOUS

\* A block of samples has bytes.
LEMMA BytesOf == ASSUME NEW n \in Nat
                 PROVE  n * GDTSize \in Nat /\ (n # 0 => n * GDTSize # 0)
<1>1. GDTSize \in Nat /\ GDTSize > 0
  BY InputAssumption
<1> QED
  BY <1>1

\* What a client thread takes for the request is a number.
LEMMA RequestInt == ASSUME TypeOK, NEW c \in Clients PROVE sReq[c] \in Int
<1>1. sReq[c] \in Requests \cup {-1}
  BY DEF TypeOK
<1>2. ASSUME NEW r \in Requests \cup {-1} PROVE r \in Int
  BY InputAssumption
<1> QED
  BY <1>1, <1>2

\* The initial state satisfies the inductive invariant.
LEMMA InitInv == Init => IInv
<1> SUFFICES ASSUME Init PROVE IInv
  OBVIOUS
<1>1. TypeOK
  BY DEF Init, TypeOK, NoInHdr, NoHdr, EmptyBuf
<1>2. MutexInv /\ BlockInv
  BY ThreadAssumption DEF Init, MutexInv, BlockInv, EmptyBuf
<1>3. HeaderInv /\ ClientInv /\ WakeInv
  BY DEF Init, HeaderInv, ClientInv, WakeInv, Streaming
<1>4. SetupInv /\ LateInv /\ FaultNeedsEarlyClientOrFLAC
  BY DEF Init, SetupInv, LateInv, FaultNeedsEarlyClientOrFLAC, EmptyBuf
<1> QED
  BY <1>1, <1>2, <1>3, <1>4 DEF IInv

\* Every step keeps the types.  The only ones that compute are OutSize and
\* WakeUp, whose divisions need HeaderInv, and Advance.
LEMMA TypeStep == IInv /\ [Next]_vars => TypeOK'
<1> SUFFICES ASSUME IInv, [Next]_vars PROVE TypeOK'
  OBVIOUS
<1> USE DEF IInv, TypeOK
<1>1. CASE Signal
  BY <1>1 DEF Signal, mainUnchanged, inVars, clVars, hist
<1>2. CASE MainStop
  BY <1>2 DEF MainStop, mainUnchanged, inVars, clVars, hist
<1>3. CASE MainJoin
  BY <1>3 DEF MainJoin, mainUnchanged, inVars, clVars, hist
<1>4. ASSUME NEW c \in Clients, MainAccept(c) PROVE TypeOK'
  BY <1>4 DEF MainAccept, mainUnchanged, inVars, clVars, hist
<1>5. CASE AudioInConnect
  BY <1>5 DEF AudioInConnect, inUnchanged, InitCompress, clVars, hist
<1>6. CASE AudioInSizes
  <2>1. sInHdr.iFragmentSize \in Nat
    BY <1>6, InputAssumption DEF AudioInSizes, HeaderInv
  <2>2. sInHdr.iFragmentSize * GDTSize \in Nat
    BY <2>1, BytesOf
  <2> QED
    BY <1>6, <2>1, <2>2 DEF AudioInSizes, inUnchanged, clVars, hist
<1>7. CASE AudioInChannels
  BY <1>7, InputAssumption
  DEF AudioInChannels, inUnchanged, clVars, hist, HeaderInv
<1>8. CASE AudioInRate
  BY <1>8, InputAssumption
  DEF AudioInRate, inUnchanged, clVars, hist, HeaderInv
<1>9. CASE AudioInBuffers
  BY <1>9 DEF AudioInBuffers, inUnchanged, inVars, clVars, hist
<1>10. CASE AudioInRead
  BY <1>10 DEF AudioInRead, inUnchanged, inVars, clVars, hist
<1>11. CASE AudioInCopy
  BY <1>11 DEF AudioInCopy, inUnchanged, inVars, clVars, hist, Audio!Lock
<1>12. CASE AudioInPublish \/ FLACPublish
  BY <1>12 DEF AudioInPublish, FLACPublish, Publish, inUnchanged, inVars,
               clVars, hist, Audio!NotifyAll, Audio!Unlock
<1>13. CASE FLACDecode
  BY <1>13 DEF FLACDecode, inUnchanged, inVars, clVars, hist
<1>14. CASE FLACCopy
  <2>1. PICK uiSamples \in FrameSizes :
           /\ Resize(uiSamples)
           /\ \/ /\ AudioBuf' = [AudioBuf EXCEPT !.size = uiSamples * GDTSize,
                                                 !.head = iBlockCntr + 1]
                 /\ pcIn' = "flacPublish"
              \/ /\ AudioBuf' = [AudioBuf EXCEPT !.size = uiSamples * GDTSize]
                 /\ pcIn' = "idle"
    BY <1>14 DEF FLACCopy
  <2>2. uiSamples \in Nat /\ uiSamples * GDTSize \in Nat
    BY InputAssumption, BytesOf
  <2>3. iFragmentSize' \in Nat /\ iAudioBufSize' \in Nat
    BY <2>1, <2>2 DEF Resize
  <2>4. iBlockCntr + 1 \in Nat
    OBVIOUS
  <2>5. AudioBuf' \in [size : Nat, head : Nat, tail : Nat]
    BY <2>1, <2>2, <2>4
  <2> QED
    BY <1>14, <2>1, <2>3, <2>5
    DEF FLACCopy, inUnchanged, clVars, hist, Audio!Lock
<1>15. CASE FLACIdle
  BY <1>15 DEF FLACIdle, inUnchanged, inVars, clVars, hist
<1>16. ASSUME NEW c \in Clients, Serve(c) PROVE TypeOK'
  <2> USE DEF clUnchanged, inVars
  <2>1. CASE ServeStart(c)
    BY <2>1 DEF ServeStart
  <2>2. CASE SendHdr(c)
    BY <2>2 DEF SendHdr, Fail, hist
  <2>3. CASE RecvReq(c)
    <3>1. PICK ch \in Requests :
             /\ sReq' = [sReq EXCEPT ![c] = ch]
             /\ Fail(c) \/ UNCHANGED bConnected
      BY <2>3 DEF RecvReq
    <3>2. sReq' \in [Clients -> Requests \cup {-1}]
      BY <3>1
    <3> QED
      BY <2>3, <3>1, <3>2 DEF RecvReq, Fail, hist
  <2>4. CASE OutSize(c)
    <3>1. sReq[c] \in Int
      BY RequestInt
    <3>2. ASSUME sHdr.iChannels # 0
          PROVE  iAudioBufSize \div sHdr.iChannels \in Nat
      <4>1. sHdr.iChannels \in Nat /\ sHdr.iChannels > 0
        BY <3>2
      <4> QED
        BY <4>1, DivInNat
    <3>3. iOutSize' \in [Clients -> Nat]
      BY <2>4, <3>1, <3>2 DEF OutSize
    <3> QED
      BY <2>4, <3>3 DEF OutSize, Fault, hist
  <2>5. CASE Sync(c)
    BY <2>5 DEF Sync
  <2>6. CASE Test(c)
    BY <2>6 DEF Test, clVars, hist
  <2>7. CASE Leave(c)
    BY <2>7 DEF Leave, EmptyBuf
  <2>8. CASE WaitAudio(c)
    BY <2>8 DEF WaitAudio, Audio!Wait, Audio!Unlock, clVars, hist
  <2>9. CASE SpuriousWakeup(c)
    BY <2>9 DEF SpuriousWakeup, Audio!Spurious, clVars, hist
  <2>10. CASE WakeUp(c)
    <3>1. sReq[c] \in Int
      BY RequestInt
    <3>2. sReq[c] >= 0 => sHdr.iChannels > 0
      BY <2>10 DEF WakeUp, HeaderInv, Streaming
    <3>3. CopySize(c) \in Nat
      <4>1. CASE sReq[c] < 0
        BY <4>1 DEF CopySize
      <4>2. CASE sReq[c] >= 0
        <5>1. iFragmentSize \div sHdr.iChannels \in Nat
          BY <4>2, <3>2, DivInNat
        <5> QED
          BY <3>1, <4>2, <5>1, BytesOf DEF CopySize
      <4> QED
        BY <3>1, <4>1, <4>2
    <3>4. copied' \in [Clients -> Nat]
      BY <2>10, <3>3 DEF WakeUp, CopyHead
    <3>5. OutBuf' \in [Clients -> [size : Nat, head : Nat, tail : Nat]]
      BY <2>10 DEF WakeUp, CopyHead
    <3> QED
      BY <2>10, <3>4, <3>5 DEF WakeUp, CopyHead, Fault, Audio!Lock
  <2>11. CASE Count(c)
    BY <2>11 DEF Count, Advance, Audio!Unlock
  <2>12. CASE SendBlock(c)
    BY <2>12 DEF SendBlock, Fail
  <2> QED
    BY <1>16, <2>1, <2>2, <2>3, <2>4, <2>5, <2>6, <2>7, <2>8, <2>9, <2>10,
       <2>11, <2>12
    DEF Serve, Compute, Talk
<1>17. CASE Terminated \/ UNCHANGED vars
  BY <1>17 DEF Terminated, vars, inVars, clVars, hist
<1> QED
  BY <1>1, <1>2, <1>3, <1>4, <1>5, <1>6, <1>7, <1>8, <1>9, <1>10, <1>11,
     <1>12, <1>13, <1>14, <1>15, <1>16, <1>17
  DEF Next, Main, Input

\* Every step keeps the mutex where the program counters say it is.
LEMMA MutexStep == IInv /\ [Next]_vars => MutexInv'
<1> SUFFICES ASSUME IInv, [Next]_vars PROVE MutexInv'
  OBVIOUS
<1> USE ThreadAssumption DEF IInv, TypeOK, MutexInv, Raw
<1>1. CASE Signal \/ MainStop \/ MainJoin
  BY <1>1 DEF Signal, MainStop, MainJoin, mainUnchanged, inVars
<1>2. ASSUME NEW c \in Clients, MainAccept(c) PROVE MutexInv'
  BY <1>2 DEF MainAccept, mainUnchanged, inVars
<1>3. CASE AudioInConnect
  BY <1>3 DEF AudioInConnect, inUnchanged
<1>4. CASE AudioInSizes \/ AudioInChannels \/ AudioInRate \/ AudioInBuffers
  BY <1>4 DEF AudioInSizes, AudioInChannels, AudioInRate, AudioInBuffers,
              inUnchanged, inVars
<1>5. CASE AudioInRead \/ FLACDecode \/ FLACIdle
  BY <1>5 DEF AudioInRead, FLACDecode, FLACIdle, inUnchanged, inVars
<1>6. CASE AudioInCopy
  BY <1>6 DEF AudioInCopy, inUnchanged, inVars, Audio!Lock
<1>7. CASE AudioInPublish \/ FLACPublish
  BY <1>7 DEF AudioInPublish, FLACPublish, Publish, inUnchanged, inVars,
              Audio!Unlock
<1>8. CASE FLACCopy
  <2>1. pcIn' \in {"flacPublish", "idle"} /\ MtxAudio = NoThread
        /\ MtxAudio' = AudioIn /\ UNCHANGED <<pc, sInHdr>>
    BY <1>8 DEF FLACCopy, inUnchanged, Audio!Lock
  <2> QED
    BY <1>8, <2>1 DEF FLACCopy
<1>9. ASSUME NEW c \in Clients, Serve(c) PROVE MutexInv'
  <2> USE DEF clUnchanged, inVars
  <2>1. CASE ServeStart(c) \/ SendHdr(c) \/ RecvReq(c) \/ OutSize(c) \/ Sync(c)
    BY <2>1 DEF ServeStart, SendHdr, RecvReq, OutSize, Sync
  <2>2. CASE Test(c) \/ Leave(c) \/ SendBlock(c) \/ SpuriousWakeup(c)
    BY <2>2 DEF Test, Leave, SendBlock, SpuriousWakeup
  <2>3. CASE WaitAudio(c)
    BY <2>3 DEF WaitAudio, Audio!Wait, Audio!Unlock
  <2>4. CASE WakeUp(c)
    BY <2>4 DEF WakeUp, CopyHead, Audio!Lock
  <2>5. CASE Count(c)
    BY <2>5 DEF Count, Audio!Unlock
  <2> QED
    BY <1>9, <2>1, <2>2, <2>3, <2>4, <2>5 DEF Serve, Compute, Talk
<1>10. CASE Terminated \/ UNCHANGED vars
  BY <1>10 DEF Terminated, vars, inVars
<1> QED
  BY <1>1, <1>2, <1>3, <1>4, <1>5, <1>6, <1>7, <1>8, <1>9, <1>10
  DEF Next, Main, Input

\* Every step keeps the content of AudioBuf in step with iBlockCntr.
LEMMA BlockStep == IInv /\ [Next]_vars => BlockInv'
<1> SUFFICES ASSUME IInv, [Next]_vars PROVE BlockInv'
  OBVIOUS
<1> USE DEF IInv, TypeOK, BlockInv
<1>1. CASE Signal \/ Main
  BY <1>1 DEF Signal, Main, MainStop, MainJoin, MainAccept, mainUnchanged
<1>2. CASE AudioInConnect \/ AudioInSizes \/ AudioInChannels \/ AudioInRate
  BY <1>2 DEF AudioInConnect, AudioInSizes, AudioInChannels, AudioInRate
<1>3. CASE AudioInBuffers
  BY <1>3 DEF AudioInBuffers
<1>4. CASE AudioInRead \/ FLACDecode \/ FLACIdle
  BY <1>4 DEF AudioInRead, FLACDecode, FLACIdle
<1>5. CASE AudioInCopy
  BY <1>5 DEF AudioInCopy
<1>6. CASE AudioInPublish \/ FLACPublish
  BY <1>6 DEF AudioInPublish, FLACPublish, Publish
<1>7. CASE FLACCopy
  BY <1>7 DEF FLACCopy
<1>8. ASSUME NEW c \in Clients, Serve(c) PROVE BlockInv'
  <2>1. clUnchanged
    BY <1>8 DEF Serve, Compute, Talk, ServeStart, SendHdr, RecvReq, OutSize,
                Sync, Test, Leave, WaitAudio, SpuriousWakeup, WakeUp, CopyHead,
                Count, SendBlock
  <2> QED
    BY <2>1 DEF clUnchanged
<1>9. CASE Terminated \/ UNCHANGED vars
  BY <1>9 DEF Terminated, vars
<1> QED
  BY <1>1, <1>2, <1>3, <1>4, <1>5, <1>6, <1>7, <1>8, <1>9 DEF Next, Input

\* Every step keeps what is known of the header.
LEMMA HeaderStep == IInv /\ [Next]_vars => HeaderInv'
<1> SUFFICES ASSUME IInv, [Next]_vars PROVE HeaderInv'
  OBVIOUS
<1> USE DEF IInv, TypeOK, HeaderInv, Streaming
<1>1. CASE Signal \/ MainStop \/ MainJoin
  BY <1>1 DEF Signal, MainStop, MainJoin, mainUnchanged, inVars, clVars
<1>2. ASSUME NEW c \in Clients, MainAccept(c) PROVE HeaderInv'
  BY <1>2 DEF MainAccept, mainUnchanged, inVars, clVars
<1>3. CASE AudioInConnect
  BY <1>3 DEF AudioInConnect, inUnchanged, clVars
<1>4. CASE AudioInChannels
  <2>1. sHdr'.iChannels > 0
    <3>1. sInHdr.iChannels \in Nat \ {0}
      BY <1>4, InputAssumption DEF AudioInChannels
    <3>2. sHdr'.iChannels = sInHdr.iChannels
      BY <1>4 DEF AudioInChannels
    <3> QED
      BY <3>1, <3>2
  <2> QED
    BY <1>4, <2>1 DEF AudioInChannels, inUnchanged
<1>5. CASE AudioInSizes \/ AudioInRate \/ AudioInBuffers
  BY <1>5 DEF AudioInSizes, AudioInRate, AudioInBuffers, inUnchanged, inVars,
              clVars
<1>6. CASE AudioInRead \/ FLACDecode \/ FLACIdle
  BY <1>6 DEF AudioInRead, FLACDecode, FLACIdle, inUnchanged, inVars, clVars
<1>7. CASE AudioInCopy \/ AudioInPublish \/ FLACPublish
  BY <1>7 DEF AudioInCopy, AudioInPublish, FLACPublish, Publish, inUnchanged,
              inVars, clVars
<1>8. CASE FLACCopy
  BY <1>8 DEF FLACCopy, inUnchanged, clVars
<1>9. ASSUME NEW c \in Clients, Serve(c) PROVE HeaderInv'
  <2> USE DEF clUnchanged, inVars
  <2>1. CASE ServeStart(c) \/ SendHdr(c) \/ RecvReq(c) \/ Leave(c)
    BY <2>1 DEF ServeStart, SendHdr, RecvReq, Leave
  <2>2. CASE OutSize(c)
    BY <2>2 DEF OutSize, Fault
  <2>3. CASE Sync(c) \/ SpuriousWakeup(c)
    BY <2>3 DEF Sync, SpuriousWakeup, clVars
  <2>4. CASE Test(c) \/ WaitAudio(c)
    BY <2>4 DEF Test, WaitAudio, clVars
  <2>5. CASE WakeUp(c)
    BY <2>5 DEF WakeUp, CopyHead, Fault
  <2>6. CASE Count(c) \/ SendBlock(c)
    BY <2>6 DEF Count, SendBlock
  <2> QED
    BY <1>9, <2>1, <2>2, <2>3, <2>4, <2>5, <2>6 DEF Serve, Compute, Talk
<1>10. CASE Terminated \/ UNCHANGED vars
  BY <1>10 DEF Terminated, vars, inVars, clVars
<1> QED
  BY <1>1, <1>2, <1>3, <1>4, <1>5, <1>6, <1>7, <1>8, <1>9, <1>10
  DEF Next, Main, Input

\* Only AudioIn, holding the mutex, changes the number of blocks.
LEMMA CounterStep ==
    ASSUME IInv, [Next]_vars
    PROVE  \/ UNCHANGED iBlockCntr
           \/ /\ MtxAudio = AudioIn
              /\ iBlockCntr' = iBlockCntr + 1
              /\ CndAudio' = {}
              /\ UNCHANGED <<proc, pc, OutBuf, iLocalBlockCntr, had, lost>>
<1>1. CASE AudioInPublish \/ FLACPublish
  BY <1>1 DEF IInv, MutexInv, AudioInPublish, FLACPublish, Publish, InAt,
              inUnchanged, clVars, hist, Audio!NotifyAll
<1>2. CASE Input /\ ~(AudioInPublish \/ FLACPublish)
  BY <1>2 DEF Input, AudioInConnect, AudioInSizes, AudioInChannels,
              AudioInRate, AudioInBuffers, AudioInRead, AudioInCopy,
              FLACDecode, FLACCopy, FLACIdle
<1>3. CASE Signal \/ Main
  BY <1>3 DEF Signal, Main, MainStop, MainJoin, MainAccept, mainUnchanged
<1>4. ASSUME NEW c \in Clients, Serve(c) PROVE UNCHANGED iBlockCntr
  BY <1>4 DEF Serve, Compute, Talk, ServeStart, SendHdr, RecvReq, OutSize,
              Sync, Test, Leave, WaitAudio, SpuriousWakeup, WakeUp, CopyHead,
              Count, SendBlock, clUnchanged
<1>5. CASE Terminated \/ UNCHANGED vars
  BY <1>5 DEF Terminated, vars
<1> QED
  BY <1>1, <1>2, <1>3, <1>4, <1>5 DEF Next

\* Every step keeps what a client thread knows of the stream.
LEMMA ClientStep == IInv /\ [Next]_vars => ClientInv'
<1> SUFFICES ASSUME IInv, [Next]_vars PROVE ClientInv'
  OBVIOUS
<1> USE ThreadAssumption DEF IInv, TypeOK, ClientInv, Streaming
<1>1. CASE AudioInPublish \/ FLACPublish
  <2>1. /\ MtxAudio = AudioIn
        /\ iBlockCntr' = iBlockCntr + 1
        /\ CndAudio' = {}
        /\ UNCHANGED <<proc, pc, OutBuf, iLocalBlockCntr, had, lost>>
    BY <1>1, CounterStep DEF AudioInPublish, FLACPublish, Publish
  <2>2. \A c \in Clients : pc[c] # "count"
    BY <2>1 DEF MutexInv
  <2> QED
    BY <2>1, <2>2
<1>2. CASE Input /\ ~(AudioInPublish \/ FLACPublish)
  <2>1. UNCHANGED <<proc, pc, CndAudio, iBlockCntr, OutBuf, iLocalBlockCntr,
                    had, lost>>
    BY <1>2 DEF Input, AudioInConnect, AudioInSizes, AudioInChannels,
                AudioInRate, AudioInBuffers, AudioInRead, AudioInCopy,
                FLACDecode, FLACCopy, FLACIdle, inUnchanged, clVars, hist
  <2> QED
    BY <2>1
<1>3. CASE Signal \/ MainStop \/ MainJoin
  BY <1>3 DEF Signal, MainStop, MainJoin, mainUnchanged, clVars, hist
<1>4. ASSUME NEW c \in Clients, MainAccept(c) PROVE ClientInv'
  BY <1>4 DEF MainAccept, mainUnchanged, clVars, hist
<1>5. ASSUME NEW c \in Clients, Serve(c) PROVE ClientInv'
  <2> USE DEF clUnchanged
  <2>1. CASE ServeStart(c)
    BY <2>1 DEF ServeStart
  <2>2. CASE SendHdr(c) \/ RecvReq(c)
    BY <2>2 DEF SendHdr, RecvReq, hist
  <2>3. CASE OutSize(c)
    BY <2>3 DEF OutSize, Fault, hist
  <2>4. CASE Sync(c)
    BY <2>4 DEF Sync
  <2>5. CASE Test(c)
    BY <2>5 DEF Test, clVars, hist
  <2>6. CASE Leave(c)
    BY <2>6 DEF Leave
  <2>7. CASE WaitAudio(c)
    BY <2>7 DEF WaitAudio, Audio!Wait, clVars, hist
  <2>8. CASE SpuriousWakeup(c)
    BY <2>8 DEF SpuriousWakeup, Audio!Spurious, clVars, hist
  <2>9. CASE WakeUp(c)
    <3>1. MtxAudio = NoThread /\ pc[c] = "wait" /\ c \notin CndAudio
          /\ pc' = [pc EXCEPT ![c] = "count"]
          /\ UNCHANGED <<CndAudio, iLocalBlockCntr, had, lost, iBlockCntr>>
      BY <2>9 DEF WakeUp, CopyHead, Audio!Lock
    <3>2. AudioBuf.head = iBlockCntr
      BY <3>1 DEF MutexInv, BlockInv
    <3>3. \/ proc' = "fault" /\ OutBuf' = OutBuf
          \/ proc' = proc /\ OutBuf' = [OutBuf EXCEPT ![c].head = iBlockCntr]
      BY <2>9, <3>2 DEF WakeUp, CopyHead, Fault
    <3> QED
      BY <3>1, <3>3
  <2>10. CASE Count(c)
    <3>1. AudioBuf.tail = iBlockCntr
      BY DEF BlockInv
    <3>2. /\ OutBuf' = [OutBuf EXCEPT ![c].tail = iBlockCntr]
          /\ pc' = [pc EXCEPT ![c] = "send"]
          /\ had' = [had EXCEPT ![c] = @ + 1]
          /\ iLocalBlockCntr' = [iLocalBlockCntr EXCEPT ![c] = iBlockCntr]
          /\ lost' = [lost EXCEPT
                         ![c] = @ + (iBlockCntr - (iLocalBlockCntr[c] + 1))]
          /\ UNCHANGED <<CndAudio, proc, iBlockCntr>>
      BY <2>10, <3>1 DEF Count, Advance
    <3>3. pc[c] = "count" /\ proc = "running"
      BY <2>10 DEF Count
    <3>4. OutBuf'[c].head = iBlockCntr /\ OutBuf'[c].tail = iBlockCntr
      BY <3>2, <3>3
    <3> QED
      BY <3>2, <3>3, <3>4
  <2>11. CASE SendBlock(c)
    BY <2>11 DEF SendBlock
  <2> QED
    BY <1>5, <2>1, <2>2, <2>3, <2>4, <2>5, <2>6, <2>7, <2>8, <2>9, <2>10, <2>11
    DEF Serve, Compute, Talk
<1>6. CASE Terminated \/ UNCHANGED vars
  BY <1>6 DEF Terminated, vars, clVars, hist
<1> QED
  BY <1>1, <1>2, <1>3, <1>4, <1>5, <1>6 DEF Next, Main

\* Without spurious wakeups, every step keeps the clients that are awake
\* behind the newest block.
LEMMA WakeStep == IInv /\ [Next]_vars => WakeInv'
<1> SUFFICES ASSUME IInv, [Next]_vars, MaxSpurious = 0 PROVE WakeInv'
  BY DEF WakeInv
<1> USE ThreadAssumption DEF IInv, TypeOK, WakeInv
<1>1. CASE AudioInPublish \/ FLACPublish
  <2>1. /\ MtxAudio = AudioIn
        /\ iBlockCntr' = iBlockCntr + 1
        /\ UNCHANGED <<pc, iLocalBlockCntr>>
    BY <1>1, CounterStep DEF AudioInPublish, FLACPublish, Publish
  <2>2. \A c \in Clients : pc[c] = "wait" => iLocalBlockCntr[c] <= iBlockCntr
    BY DEF ClientInv, Streaming
  <2>3. \A c \in Clients : pc[c] # "count"
    BY <2>1 DEF MutexInv
  <2> QED
    BY <2>1, <2>2, <2>3
<1>2. CASE Input /\ ~(AudioInPublish \/ FLACPublish)
  <2>1. UNCHANGED <<pc, CndAudio, iBlockCntr, iLocalBlockCntr>>
    BY <1>2 DEF Input, AudioInConnect, AudioInSizes, AudioInChannels,
                AudioInRate, AudioInBuffers, AudioInRead, AudioInCopy,
                FLACDecode, FLACCopy, FLACIdle, inUnchanged, clVars
  <2> QED
    BY <2>1
<1>3. CASE Signal \/ MainStop \/ MainJoin
  BY <1>3 DEF Signal, MainStop, MainJoin, mainUnchanged, clVars
<1>4. ASSUME NEW c \in Clients, MainAccept(c) PROVE WakeInv'
  BY <1>4 DEF MainAccept, mainUnchanged, clVars
<1>5. ASSUME NEW c \in Clients, Serve(c) PROVE WakeInv'
  <2> USE DEF clUnchanged
  <2>1. CASE ServeStart(c) \/ SendHdr(c) \/ RecvReq(c) \/ OutSize(c)
    BY <2>1 DEF ServeStart, SendHdr, RecvReq, OutSize
  <2>2. CASE Sync(c) \/ Leave(c) \/ SendBlock(c)
    BY <2>2 DEF Sync, Leave, SendBlock
  <2>3. CASE Test(c)
    BY <2>3 DEF Test, clVars
  <2>4. CASE WaitAudio(c)
    BY <2>4 DEF WaitAudio, Audio!Wait, clVars
  <2>5. CASE SpuriousWakeup(c)
    BY <2>5 DEF SpuriousWakeup
  <2>6. CASE WakeUp(c)
    BY <2>6 DEF WakeUp, CopyHead
  <2>7. CASE Count(c)
    BY <2>7 DEF Count, Advance
  <2> QED
    BY <1>5, <2>1, <2>2, <2>3, <2>4, <2>5, <2>6, <2>7
    DEF Serve, Compute, Talk
<1>6. CASE Terminated \/ UNCHANGED vars
  BY <1>6 DEF Terminated, vars, clVars
<1> QED
  BY <1>1, <1>2, <1>3, <1>4, <1>5, <1>6 DEF Next, Main

\* The description of the stream is set up in order, and stays.
LEMMA SetupStep == IInv /\ [Next]_vars => SetupInv'
<1> SUFFICES ASSUME IInv, [Next]_vars PROVE SetupInv'
  OBVIOUS
<1> USE DEF SetupInv, Raw, StreamHdr
<1>0. /\ SetupInv
      /\ sHdr \in [iChannels : Nat, dSampleRate : Nat]
      /\ AudioBuf \in [size : Nat, head : Nat, tail : Nat]
      /\ pcIn \in {"flacLock", "flacPublish"} => ~Raw
      /\ pcIn \notin {"connect", "dead"} => sInHdr \in Headers
  BY DEF IInv, TypeOK, MutexInv, HeaderInv
<1>1. CASE Signal \/ Main
  BY <1>0, <1>1 DEF Signal, Main, MainStop, MainJoin, MainAccept, mainUnchanged, inVars
<1>2. CASE AudioInConnect
  BY <1>0, <1>2 DEF AudioInConnect
<1>3. CASE AudioInSizes
  BY <1>0, <1>3 DEF AudioInSizes
<1>4. CASE AudioInChannels
  BY <1>0, <1>4 DEF AudioInChannels
<1>5. CASE AudioInRate
  <2>1. /\ sHdr'.iChannels = sHdr.iChannels /\ sHdr'.dSampleRate = sInHdr.dSampleRate
        /\ pcIn = "rate" /\ pcIn' = "buffers"
        /\ UNCHANGED <<sInHdr, iFragmentSize, iAudioBufSize, AudioBuf>>
    BY <1>0, <1>5 DEF AudioInRate
  <2> QED
    BY <1>0, <2>1
<1>6. CASE AudioInBuffers
  <2>1. /\ AudioBuf'.size = sInHdr.iFragmentSize * GDTSize
        /\ pcIn = "buffers" /\ pcIn' \in {"decode", "loop"} /\ UNCHANGED inVars
    BY <1>0, <1>6 DEF AudioInBuffers
  <2>2. sHdr = StreamHdr
    BY <1>0, <2>1
  <2> QED
    BY <1>0, <2>1, <2>2 DEF inVars
<1>7. CASE AudioInRead \/ FLACDecode \/ FLACIdle
  BY <1>0, <1>7 DEF AudioInRead, FLACDecode, FLACIdle, inVars
<1>8. CASE AudioInCopy \/ AudioInPublish \/ FLACPublish
  <2>1. /\ AudioBuf'.size = AudioBuf.size /\ UNCHANGED inVars
        /\ pcIn' \in {"publish", "loop", "decode"}
    BY <1>0, <1>8 DEF AudioInCopy, AudioInPublish, FLACPublish, Publish
  <2> QED
    BY <1>0, <2>1 DEF inVars
<1>9. CASE FLACCopy
  BY <1>0, <1>9 DEF FLACCopy
<1>10. ASSUME NEW c \in Clients, Serve(c) PROVE SetupInv'
  <2>1. clUnchanged
    BY <1>10 DEF Serve, Compute, Talk, ServeStart, SendHdr, RecvReq, OutSize,
                 Sync, Test, Leave, WaitAudio, SpuriousWakeup, WakeUp, CopyHead,
                 Count, SendBlock
  <2> QED
    BY <1>0, <2>1 DEF clUnchanged, inVars
<1>11. CASE Terminated \/ UNCHANGED vars
  BY <1>0, <1>11 DEF Terminated, vars, inVars
<1> QED
  BY <1>1, <1>2, <1>3, <1>4, <1>5, <1>6, <1>7, <1>8, <1>9, <1>10, <1>11
  DEF Next, Input

LEMMA DivAtMost == ASSUME NEW n \in Nat, NEW d \in Nat, d > 0
                   PROVE  n \div d <= n
  OBVIOUS

LEMMA ProductMonotone == ASSUME NEW k \in Nat, NEW m \in Nat, NEW n \in Nat, m <= n
                         PROVE  m * k <= n * k
<1>1. n - m \in Nat /\ n = m + (n - m)
  OBVIOUS
<1>2. (n - m) * k \in Nat
  BY <1>1, ProductInNat
<1>3. n * k = m * k + (n - m) * k
  OBVIOUS
<1>4. m * k \in Nat
  BY ProductInNat
<1> QED
  BY <1>2, <1>3, <1>4

LEMMA ProductCancel == ASSUME NEW k \in Nat, NEW m \in Int, NEW n \in Int, m * k < n * k
                       PROVE  m < n
<1> SUFFICES ASSUME n <= m PROVE FALSE
  OBVIOUS
<1>1. m - n \in Nat
  OBVIOUS
<1>2. (m - n) * k \in Nat
  BY <1>1, ProductInNat
<1>3. m * k = n * k + (m - n) * k
  OBVIOUS
<1> QED
  BY <1>2, <1>3

\* Of the samples of a block whole ones are copied, and not beyond the block.
LEMMA CopyIsPart ==
    ASSUME NEW c \in Clients, sReq[c] \in Int, iFragmentSize \in Nat,
           iAudioBufSize = iFragmentSize * GDTSize,
           sHdr.iChannels \in Nat, sHdr.iChannels > 0
    PROVE  CopySize(c) \in Nat /\ CopySize(c) <= iFragmentSize * GDTSize
<1>0. GDTSize \in Nat /\ iFragmentSize * GDTSize \in Nat
  BY InputAssumption, BytesOf
<1>1. /\ iFragmentSize \div sHdr.iChannels \in Nat
      /\ iFragmentSize \div sHdr.iChannels <= iFragmentSize
  BY DivInNat, DivAtMost
<1>2. /\ (iFragmentSize \div sHdr.iChannels) * GDTSize \in Nat
      /\ (iFragmentSize \div sHdr.iChannels) * GDTSize <= iFragmentSize * GDTSize
  BY <1>0, <1>1, ProductInNat, ProductMonotone
<1> QED
  BY <1>0, <1>2 DEF CopySize

\* A share of n samples of g bytes for each of d channels: bytes divided by the
\* channels, and samples divided by the channels, differ by less than a sample.
LEMMA ShareInBytes ==
    ASSUME NEW n \in Nat, NEW g \in Nat, g > 0, NEW d \in Nat, d > 0
    PROVE  LET written == (n * g) \div d
               taken   == (n \div d) * g
           IN  /\ taken <= written /\ written < taken + g
               /\ written <= n * g
               /\ n % d = 0 => written = taken
<1> DEFINE q == n \div d
           r == n % d
           w == (n * g) \div d
<1>1. q \in Nat /\ r \in Nat /\ r < d /\ n = q * d + r
  OBVIOUS
<1>2. n * g \in Nat
  BY ProductInNat
<1>3. w \in Nat /\ w * d <= n * g /\ n * g < (w + 1) * d /\ w <= n * g
  <2> DEFINE x == n * g
  <2>1. x \in Nat
    BY <1>2
  <2> HIDE DEF x
  <2>2. /\ x \div d \in Nat /\ (x \div d) * d <= x /\ x < (x \div d + 1) * d
        /\ x \div d <= x
    BY <2>1
  <2> QED
    BY <2>2 DEF x
<1> HIDE DEF q, r, w
<1>4. q * g \in Nat /\ r * g \in Nat /\ (q * g) * d \in Nat /\ g * d \in Nat
  BY <1>1, ProductInNat
<1>5. n * g = (q * g) * d + r * g
  <2>1. n * g = (q * d) * g + r * g
    BY <1>1
  <2>2. (q * d) * g = (q * g) * d
    BY <1>1
  <2> QED
    BY <2>1, <2>2
<1>6. r * g < g * d
  <2>1. (r + 1) * g <= d * g
    BY <1>1, ProductMonotone
  <2>2. (r + 1) * g = r * g + g
    BY <1>1
  <2>3. d * g = g * d
    OBVIOUS
  <2> QED
    BY <1>4, <2>1, <2>2, <2>3
<1>7. q * g <= w
  <2>1. (q * g) * d < (w + 1) * d
    BY <1>2, <1>3, <1>4, <1>5, ProductInNat
  <2>2. q * g < w + 1
    BY <1>3, <1>4, <2>1, ProductCancel
  <2> QED
    BY <1>3, <1>4, <2>2
<1>8. w < q * g + g
  <2>1. (q * g + g) * d = (q * g) * d + g * d
    BY <1>1, <1>4
  <2>2. w * d < (q * g + g) * d
    BY <1>2, <1>3, <1>4, <1>5, <1>6, <2>1, ProductInNat
  <2> QED
    BY <1>3, <1>4, <2>2, ProductCancel
<1>9. r = 0 => w = q * g
  <2> SUFFICES ASSUME r = 0 PROVE w = q * g
    OBVIOUS
  <2>1. n * g = (q * g) * d
    BY <1>4, <1>5
  <2>2. w * d < (q * g + 1) * d
    <3>1. (q * g + 1) * d = (q * g) * d + d
      BY <1>4
    <3> QED
      BY <1>3, <1>4, <2>1, <3>1, ProductInNat
  <2>3. w < q * g + 1
    BY <1>3, <1>4, <2>2, ProductCancel
  <2> QED
    BY <1>3, <1>4, <1>7, <2>3
<1> QED
  BY <1>3, <1>7, <1>8, <1>9 DEF q, r, w

\* A late client of an uncompressed stream neither divides by zero nor copies
\* beyond a buffer.
LEMMA LateNoFault ==
    ASSUME IInv, Raw, NEW c \in Clients, ~early[c], OutSize(c) \/ WakeUp(c)
    PROVE  /\ UNCHANGED proc
           /\ WakeUp(c) => copied' = [copied EXCEPT ![c] = CopySize(c)]
<1>1. pc[c] \in {"outSize", "wait"}
  BY DEF OutSize, WakeUp
<1>2. AudioBuf.size # 0 /\ OutBuf[c].size = sInHdr.iFragmentSize * GDTSize
  BY <1>1 DEF IInv, LateInv
<1>3. /\ sHdr.iChannels = sInHdr.iChannels
      /\ iFragmentSize = sInHdr.iFragmentSize
      /\ iAudioBufSize = iFragmentSize * GDTSize
      /\ AudioBuf.size = iFragmentSize * GDTSize
      /\ OutBuf[c].size = iFragmentSize * GDTSize
      /\ sInHdr \in Headers
  BY <1>2 DEF IInv, SetupInv, StreamHdr
<1>4. sHdr.iChannels \in Nat /\ sHdr.iChannels > 0 /\ iFragmentSize \in Nat
  BY <1>3, InputAssumption
<1>5. CASE OutSize(c)
  <2>1. ~(sReq[c] >= 0 /\ sHdr.iChannels = 0)
    BY <1>4
  <2>2. UNCHANGED proc
    BY <1>5, <2>1 DEF OutSize
  <2> QED
    BY <1>5, <2>2 DEF OutSize, WakeUp
<1>6. CASE WakeUp(c)
  <2>1. CopySize(c) \in Nat /\ CopySize(c) <= iFragmentSize * GDTSize
    <3>1. sReq[c] \in Int
      BY RequestInt DEF IInv
    <3> QED
      BY <1>3, <1>4, <3>1, CopyIsPart
  <2>2. iFragmentSize * GDTSize \in Nat
    BY <1>4, BytesOf
  <2>5. ~(CopySize(c) > OutBuf[c].size \/ iAudioBufSize > AudioBuf.size)
    BY <1>3, <2>1, <2>2
  <2> QED
    BY <1>1, <1>6, <2>5 DEF WakeUp, CopyHead, OutSize
<1> QED
  BY <1>5, <1>6

\* Every step leaves late clients of an uncompressed stream right.
LEMMA LateStep == IInv /\ [Next]_vars => LateInv'
<1> SUFFICES ASSUME IInv, [Next]_vars PROVE LateInv'
  OBVIOUS
<1>0. /\ pc \in [Clients -> {"unborn", "start", "sendHdr", "recvReq",
                             "outSize", "sync", "test", "lock", "wait", "count",
                             "send", "gone"}]
      /\ bConnected \in [Clients -> BOOLEAN]
      /\ OutBuf \in [Clients -> [size : Nat, head : Nat, tail : Nat]]
      /\ sReq \in [Clients -> Requests \cup {-1}]
      /\ iOutSize \in [Clients -> Nat] /\ copied \in [Clients -> Nat]
      /\ early \in [Clients -> BOOLEAN]
      /\ AudioBuf \in [size : Nat, head : Nat, tail : Nat]
      /\ LateInv /\ SetupInv
  BY DEF IInv, TypeOK
<1> USE DEF Streaming
<1>1. CASE Signal \/ MainStop \/ MainJoin \/ Terminated \/ UNCHANGED vars
  <2>1. UNCHANGED <<inVars, AudioBuf, pc, clVars, early, copied>>
    BY <1>1 DEF Signal, MainStop, MainJoin, Terminated, mainUnchanged, vars, hist
  <2> QED
    BY <1>0, <2>1 DEF LateInv, Raw, CopySize, WriteSize, inVars, clVars
<1>2. ASSUME NEW c \in Clients, MainAccept(c) PROVE LateInv'
  <2>1. /\ UNCHANGED <<inVars, AudioBuf, clVars, early, copied>>
        /\ pc' = [pc EXCEPT ![c] = "start"]
    BY <1>2 DEF MainAccept, mainUnchanged, hist
  <2> QED
    BY <1>0, <2>1 DEF LateInv, Raw, CopySize, WriteSize, inVars, clVars
<1>3. CASE Input
  <2>1. UNCHANGED <<pc, clVars, hist>>
    BY <1>3 DEF Input, AudioInConnect, AudioInSizes, AudioInChannels,
                AudioInRate, AudioInBuffers, AudioInRead, AudioInCopy,
                AudioInPublish, FLACDecode, FLACCopy, FLACPublish, FLACIdle,
                Publish, inUnchanged
  <2>2. CASE AudioInConnect \/ AudioInSizes \/ AudioInChannels \/ AudioInRate
             \/ AudioInBuffers
    <3>1. AudioBuf.size = 0 /\ (Raw' => Raw)
      BY <1>0, <2>2 DEF SetupInv, Raw, NoInHdr, AudioInConnect, AudioInSizes,
                        AudioInChannels, AudioInRate, AudioInBuffers, inVars
    <3>2. \A c \in Clients : Raw' /\ ~early[c] => pc[c] \in {"unborn", "start", "gone"}
      BY <1>0, <3>1 DEF LateInv
    <3> QED
      BY <2>1, <3>2 DEF LateInv, clVars, hist
  <2>3. CASE AudioInRead \/ FLACDecode \/ FLACIdle \/ AudioInCopy \/ AudioInPublish
             \/ FLACPublish
    <3>1. UNCHANGED inVars /\ AudioBuf'.size = AudioBuf.size
      BY <1>0, <2>3 DEF AudioInRead, FLACDecode, FLACIdle, AudioInCopy,
                        AudioInPublish, FLACPublish, Publish
    <3> QED
      BY <1>0, <2>1, <3>1 DEF LateInv, Raw, CopySize, WriteSize, inVars, clVars, hist
  <2>4. CASE FLACCopy
    BY <2>4 DEF LateInv, FLACCopy, IInv, MutexInv, Raw
  <2> QED
    BY <1>3, <2>2, <2>3, <2>4 DEF Input
<1>4. ASSUME NEW c \in Clients, Serve(c) PROVE LateInv'
  <2>0. UNCHANGED <<inVars, AudioBuf>>
    BY <1>4 DEF Serve, Compute, Talk, ServeStart, SendHdr, RecvReq, OutSize,
                Sync, Test, Leave, WaitAudio, SpuriousWakeup, WakeUp, CopyHead,
                Count, SendBlock, clUnchanged
  <2>1. UNCHANGED Raw /\ UNCHANGED <<inVars, AudioBuf>>
    BY <2>0 DEF Raw, inVars
  <2> USE DEF LateInv, CopySize, WriteSize, inVars
  <2>2. CASE ServeStart(c)
    <3>1. /\ pc[c] = "start" /\ pc' = [pc EXCEPT ![c] = "sendHdr"]
          /\ OutBuf' = [OutBuf EXCEPT ![c].size = iAudioBufSize]
          /\ early' = [early EXCEPT ![c] = AudioBuf.size = 0]
          /\ UNCHANGED <<bConnected, sReq, iOutSize, copied>>
      BY <2>2 DEF ServeStart
    <3>2. early'[c] = (AudioBuf.size = 0)
      BY <1>0, <3>1
    <3>3. Raw /\ AudioBuf.size # 0 => iAudioBufSize = sInHdr.iFragmentSize * GDTSize
      BY <1>0 DEF SetupInv
    <3>4. OutBuf'[c].size = iAudioBufSize
      BY <1>0, <3>1
    <3>5. \A d \in Clients \ {c} : /\ pc'[d] = pc[d] /\ OutBuf'[d] = OutBuf[d]
                                   /\ early'[d] = early[d]
      BY <1>0, <3>1
    <3>6. pc'[c] = "sendHdr"
      BY <1>0, <3>1
    <3> QED
      BY <1>0, <2>1, <3>1, <3>2, <3>3, <3>4, <3>5, <3>6
  <2>3. CASE SendHdr(c)
    BY <1>0, <2>1, <2>3 DEF SendHdr, hist, Fail
  <2>4. CASE RecvReq(c)
    <3>1. /\ pc[c] = "recvReq" /\ pc' = [pc EXCEPT ![c] = "outSize"]
          /\ UNCHANGED <<OutBuf, iOutSize, early, copied>>
      BY <2>4 DEF RecvReq, hist
    <3>2. \E ch \in Requests :
             /\ sReq' = [sReq EXCEPT ![c] = ch]
             /\ \/ bConnected' = [bConnected EXCEPT ![c] = FALSE]
                \/ ch < sHdr.iChannels /\ UNCHANGED bConnected
      BY <2>4 DEF RecvReq, Fail
    <3>3. Raw /\ AudioBuf.size # 0 => sHdr.iChannels = sInHdr.iChannels
      BY <1>0 DEF SetupInv, StreamHdr
    <3> QED
      BY <1>0, <2>1, <3>1, <3>2, <3>3
  <2>5. CASE OutSize(c)
    <3>1. /\ pc[c] = "outSize" /\ pc' = [pc EXCEPT ![c] = "sync"]
          /\ UNCHANGED <<bConnected, OutBuf, sReq, early, copied>>
      BY <2>5 DEF OutSize, hist
    <3>2. UNCHANGED iOutSize \/
          iOutSize' = [iOutSize EXCEPT ![c] = IF sReq[c] < 0 THEN iAudioBufSize
                                              ELSE iAudioBufSize \div sHdr.iChannels]
      BY <2>5 DEF OutSize
    <3>3. Raw /\ ~early[c] => /\ UNCHANGED proc
                              /\ AudioBuf.size # 0
      BY <1>0, <2>5, <3>1, LateNoFault
    <3>4. Raw /\ ~early[c] => iOutSize'[c] = WriteSize(c)
      BY <1>0, <2>5, <3>3 DEF OutSize, Fault
    <3>5. \A d \in Clients \ {c} : iOutSize'[d] = iOutSize[d] /\ pc'[d] = pc[d]
      BY <1>0, <3>1, <3>2
    <3>6. pc'[c] = "sync"
      BY <1>0, <3>1
    <3> HIDE DEF CopySize, WriteSize
    <3>7. \A d \in Clients : CopySize(d)' = CopySize(d) /\ WriteSize(d)' = WriteSize(d)
      BY <2>1, <3>1 DEF CopySize, WriteSize
    <3> QED
      BY <1>0, <2>1, <3>1, <3>3, <3>4, <3>5, <3>6, <3>7
  <2>6. CASE Sync(c)
    BY <1>0, <2>1, <2>6 DEF Sync
  <2>7. CASE Test(c)
    BY <1>0, <2>1, <2>7 DEF Test, clVars, hist
  <2>8. CASE Leave(c)
    BY <1>0, <2>1, <2>8 DEF Leave
  <2>9. CASE WaitAudio(c)
    BY <1>0, <2>1, <2>9 DEF WaitAudio, clVars, hist
  <2>10. CASE SpuriousWakeup(c)
    BY <1>0, <2>1, <2>10 DEF SpuriousWakeup, clVars, hist
  <2>11. CASE WakeUp(c)
    <3>1. /\ pc[c] = "wait" /\ pc' = [pc EXCEPT ![c] = "count"]
          /\ UNCHANGED <<bConnected, sReq, iOutSize, early>>
          /\ \/ UNCHANGED OutBuf
             \/ OutBuf' = [OutBuf EXCEPT ![c].head = AudioBuf.head]
          /\ \/ UNCHANGED copied
             \/ copied' = [copied EXCEPT ![c] = CopySize(c)]
      BY <2>11 DEF WakeUp, CopyHead
    <3>2. Raw /\ ~early[c] => copied' = [copied EXCEPT ![c] = CopySize(c)]
      BY <2>11, LateNoFault
    <3> HIDE DEF CopySize, WriteSize
    <3>3. \A d \in Clients : CopySize(d)' = CopySize(d) /\ WriteSize(d)' = WriteSize(d)
      BY <2>1, <3>1 DEF CopySize, WriteSize
    <3>4. \A d \in Clients : OutBuf'[d].size = OutBuf[d].size
      BY <1>0, <3>1
    <3>5. \A d \in Clients \ {c} : copied'[d] = copied[d] /\ pc'[d] = pc[d]
      BY <1>0, <3>1
    <3>6. Raw /\ ~early[c] => copied'[c] = CopySize(c)
      BY <1>0, <3>2
    <3>7. pc'[c] = "count"
      BY <1>0, <3>1
    <3> QED
      BY <1>0, <2>1, <3>1, <3>3, <3>4, <3>5, <3>6, <3>7
  <2>12. CASE Count(c)
    <3>1. /\ pc[c] = "count" /\ pc' = [pc EXCEPT ![c] = "send"]
          /\ UNCHANGED <<bConnected, sReq, iOutSize, early, copied>>
          /\ OutBuf' = [OutBuf EXCEPT ![c].tail = AudioBuf.tail]
      BY <2>12 DEF Count
    <3> QED
      BY <1>0, <2>1, <3>1
  <2>13. CASE SendBlock(c)
    <3>1. /\ pc[c] = "send" /\ pc' = [pc EXCEPT ![c] = "test"]
          /\ UNCHANGED <<sReq, iOutSize, early>>
          /\ OutBuf' = [OutBuf EXCEPT ![c].head = 0, ![c].tail = 0]
          /\ copied' = [copied EXCEPT ![c] = 0]
          /\ bConnected' = [bConnected EXCEPT ![c] = FALSE] \/ UNCHANGED bConnected
      BY <2>13 DEF SendBlock, Fail
    <3> QED
      BY <1>0, <2>1, <3>1
  <2> QED
    BY <1>4, <2>2, <2>3, <2>4, <2>5, <2>6, <2>7, <2>8, <2>9, <2>10, <2>11, <2>12, <2>13
    DEF Serve, Compute, Talk
<1> QED
  BY <1>1, <1>2, <1>3, <1>4 DEF Next, Main

\* A fault takes a client that came early, or a compressed stream.
LEMMA FaultStep == IInv /\ [Next]_vars => FaultNeedsEarlyClientOrFLAC'
<1> SUFFICES ASSUME IInv, [Next]_vars, proc' = "fault"
             PROVE  ~Raw' \/ \E c \in Clients : early'[c]
  BY DEF FaultNeedsEarlyClientOrFLAC
<1>1. CASE proc = "fault"
  <2>1. UNCHANGED <<sInHdr, early>>
    BY <1>1 DEF Next, Signal, Main, MainStop, MainJoin, MainAccept, mainUnchanged,
                Input, AudioInConnect, AudioInSizes, AudioInChannels, AudioInRate,
                AudioInBuffers, AudioInRead, AudioInCopy, AudioInPublish, FLACDecode,
                FLACCopy, FLACPublish, FLACIdle, Serve, Compute, Talk, ServeStart,
                SendHdr, RecvReq, OutSize, Sync, Test, Leave, WaitAudio,
                SpuriousWakeup, WakeUp, Count, SendBlock, Terminated, vars, inVars,
                hist
  <2> QED
    BY <1>1, <2>1 DEF IInv, FaultNeedsEarlyClientOrFLAC, Raw
<1>2. CASE proc # "fault"
  <2>1. PICK c \in Clients : OutSize(c) \/ WakeUp(c)
    BY <1>2 DEF Next, Signal, Main, MainStop, MainJoin, MainAccept, mainUnchanged,
                Input, AudioInConnect, AudioInSizes, AudioInChannels, AudioInRate,
                AudioInBuffers, AudioInRead, AudioInCopy, AudioInPublish, FLACDecode,
                FLACCopy, FLACPublish, FLACIdle, Publish, inUnchanged, Serve, Compute,
                Talk, ServeStart, SendHdr, RecvReq, Sync, Test, Leave, WaitAudio,
                SpuriousWakeup, Count, SendBlock, Terminated, vars
  <2>2. UNCHANGED <<sInHdr, early>>
    BY <2>1 DEF OutSize, WakeUp, CopyHead, clUnchanged, inVars, hist
  <2>3. ~Raw \/ early[c]
    BY <1>2, <2>1, LateNoFault
  <2> QED
    BY <2>2, <2>3 DEF Raw
<1> QED
  BY <1>1, <1>2

LEMMA StepInv == IInv /\ [Next]_vars => IInv'
BY TypeStep, MutexStep, BlockStep, HeaderStep, ClientStep, WakeStep, SetupStep,
   LateStep, FaultStep DEF IInv

\* IInv, the inductive invariant, holds of every reachable state.
THEOREM Invariance == Spec => []IInv
BY InitInv, StepInv, PTL DEF Spec

\* Every variable of streamdist keeps its type; in particular the sizes it
\* divides and the numbers of blocks are never negative.
THEOREM TypeCorrect == Spec => []TypeOK
<1>1. IInv => TypeOK
  BY DEF IInv
<1> QED
  BY Invariance, <1>1, PTL

\* No client thread holds MtxAudio while it talks to its peer or sleeps, and
\* AudioIn does only after FLACWrite has aborted.
THEOREM MutexCorrect == Spec => []MutexHeldToCopyOnly
<1>1. IInv => MutexHeldToCopyOnly
  BY DEF IInv, MutexInv, MutexHeldToCopyOnly
<1> QED
  BY Invariance, <1>1, PTL

\* What a client thread writes to its socket is one whole block, the one its
\* counter names.
THEOREM BlocksAreWhole == Spec => []NoTornBlock
<1>1. IInv => NoTornBlock
  BY DEF IInv, ClientInv, NoTornBlock
<1> QED
  BY Invariance, <1>1, PTL

\* The losses reported to a client are exactly the blocks it did not get,
\* whatever wakes its thread up.
THEOREM LossesAreExact == Spec => []LossesAddUp
<1>1. IInv => LossesAddUp
  BY DEF IInv, ClientInv, Streaming, LossesAddUp
<1> QED
  BY Invariance, <1>1, PTL

\* A client of an uncompressed stream that came when the buffers stood gets
\* the header of the stream, all that was copied for it, and less than one
\* sample more; not that either if the channels of a block are equally long.
THEOREM LateRawClients == Spec => []LateRawClientServedRight
<1>1. ASSUME IInv, NEW c \in Clients, Raw, ~early[c]
      PROVE  /\ pc[c] = "sendHdr" => sHdr = StreamHdr
             /\ pc[c] = "send" =>
                   /\ sReq[c] < sInHdr.iChannels
                   /\ iOutSize[c] <= OutBuf[c].size
                   /\ copied[c] <= iOutSize[c]
                   /\ iOutSize[c] < copied[c] + GDTSize
                   /\ sReq[c] < 0 \/ iFragmentSize % sInHdr.iChannels = 0 =>
                         iOutSize[c] = copied[c]
  <2>1. CASE pc[c] = "sendHdr"
    <3>1. AudioBuf.size # 0
      BY <1>1, <2>1 DEF IInv, LateInv
    <3>2. sHdr = StreamHdr
      BY <1>1, <3>1 DEF IInv, SetupInv
    <3> QED
      BY <2>1, <3>2
  <2>2. CASE pc[c] = "send"
    <3>1. /\ AudioBuf.size # 0
          /\ sReq[c] < sInHdr.iChannels
          /\ OutBuf[c].size = sInHdr.iFragmentSize * GDTSize
          /\ iOutSize[c] = WriteSize(c) /\ copied[c] = CopySize(c)
      BY <1>1, <2>2 DEF IInv, LateInv, Streaming
    <3>2. /\ sInHdr \in Headers
          /\ sHdr.iChannels = sInHdr.iChannels
          /\ iFragmentSize = sInHdr.iFragmentSize
          /\ iAudioBufSize = iFragmentSize * GDTSize
      BY <1>1, <3>1 DEF IInv, SetupInv, StreamHdr
    <3>3. /\ sInHdr.iChannels \in Nat /\ sInHdr.iChannels > 0
          /\ iFragmentSize \in Nat
          /\ GDTSize \in Nat /\ GDTSize > 0
      BY <3>2, InputAssumption
    <3>4. sReq[c] \in Int /\ iAudioBufSize \in Nat
      BY <1>1, RequestInt DEF IInv, TypeOK
    <3>5. CASE sReq[c] < 0
      <4>1. iOutSize[c] = iAudioBufSize /\ copied[c] = iAudioBufSize
        BY <3>1, <3>5 DEF WriteSize, CopySize
      <4> QED
        BY <2>2, <3>1, <3>2, <3>3, <3>4, <4>1
    <3>6. CASE ~(sReq[c] < 0)
      <4> DEFINE written == (iFragmentSize * GDTSize) \div sInHdr.iChannels
                 taken   == (iFragmentSize \div sInHdr.iChannels) * GDTSize
      <4>1. iOutSize[c] = written /\ copied[c] = taken
        BY <3>1, <3>2, <3>6 DEF WriteSize, CopySize
      <4>2. /\ taken <= written /\ written < taken + GDTSize
            /\ written <= iFragmentSize * GDTSize
            /\ iFragmentSize % sInHdr.iChannels = 0 => written = taken
        BY <3>3, ShareInBytes
      <4> HIDE DEF written, taken
      <4> QED
        BY <2>2, <3>1, <3>2, <3>6, <4>1, <4>2
    <3> QED
      BY <3>5, <3>6
  <2> QED
    BY <2>1, <2>2
<1>2. IInv => LateRawClientServedRight
  BY <1>1 DEF LateRawClientServedRight
<1> QED
  BY Invariance, <1>2, PTL

\* streamdist divides by zero or copies beyond a buffer for a client that
\* came before the stream, or of a compressed stream, only.
THEOREM FaultsExplained == Spec => []FaultNeedsEarlyClientOrFLAC
<1>1. IInv => FaultNeedsEarlyClientOrFLAC
  BY DEF IInv
<1> QED
  BY Invariance, <1>1, PTL
-----------------------------------------------------------------------------
(* The refinement.                                                         *)

\* A step that leaves what the mapping reads alone is invisible to it.
LEMMA Stutter ==
    ASSUME UNCHANGED <<iBlockCntr, pc, OutBuf, iLocalBlockCntr, lost>>
    PROVE  UNCHANGED Stream!vars
BY DEF Stream!vars

\* Every step of the server is a step of the block stream, or invisible.
LEMMA StreamStep ==
    ASSUME IInv, [Next]_vars, MaxSpurious = 0
    PROVE  [Stream!Next]_(Stream!vars)
<1> USE DEF IInv, TypeOK, Streaming
<1>1. CASE AudioInPublish \/ FLACPublish
  <2>1. /\ iBlockCntr' = iBlockCntr + 1
        /\ UNCHANGED <<pc, OutBuf, iLocalBlockCntr, lost>>
    BY <1>1, CounterStep DEF AudioInPublish, FLACPublish, Publish
  <2>2. Stream!Publish
    BY <2>1 DEF Stream!Publish
  <2> QED
    BY <2>2 DEF Stream!Next
<1>2. CASE Input /\ ~(AudioInPublish \/ FLACPublish)
  <2>1. UNCHANGED <<iBlockCntr, pc, OutBuf, iLocalBlockCntr, lost>>
    BY <1>2 DEF Input, AudioInConnect, AudioInSizes, AudioInChannels,
                AudioInRate, AudioInBuffers, AudioInRead, AudioInCopy,
                FLACDecode, FLACCopy, FLACIdle, inUnchanged, clVars, hist
  <2> QED
    BY <2>1, Stutter
<1>3. CASE Signal \/ MainStop \/ MainJoin
  BY <1>3, Stutter DEF Signal, MainStop, MainJoin, mainUnchanged, clVars, hist
<1>4. ASSUME NEW c \in Clients, MainAccept(c) PROVE UNCHANGED Stream!vars
  BY <1>4 DEF MainAccept, mainUnchanged, clVars, hist, Stream!vars
<1>5. ASSUME NEW c \in Clients, Serve(c) PROVE [Stream!Next]_(Stream!vars)
  <2> USE DEF clUnchanged
  <2>1. CASE ServeStart(c)
    BY <2>1 DEF ServeStart, Stream!vars
  <2>2. CASE SendHdr(c) \/ RecvReq(c)
    BY <2>2 DEF SendHdr, RecvReq, hist, Stream!vars
  <2>3. CASE OutSize(c)
    BY <2>3 DEF OutSize, hist, Stream!vars
  <2>4. CASE Sync(c)
    <3>1. Stream!Join(c)
      BY <2>4 DEF Sync, Stream!Join
    <3> QED
      BY <3>1 DEF Stream!Next
  <2>5. CASE Test(c)
    BY <2>5 DEF Test, clVars, hist, Stream!vars
  <2>6. CASE Leave(c)
    <3>1. Stream!Leave(c)
      BY <2>6 DEF Leave, Stream!Leave
    <3> QED
      BY <3>1 DEF Stream!Next
  <2>7. CASE WaitAudio(c)
    BY <2>7 DEF WaitAudio, clVars, hist, Stream!vars
  <2>8. CASE SpuriousWakeup(c)
    BY <2>8 DEF SpuriousWakeup
  <2>9. CASE WakeUp(c)
    BY <2>9 DEF WakeUp, CopyHead, Stream!vars
  <2>10. CASE Count(c)
    <3> DEFINE Newest == [d \in Clients |-> IF pc[d] = "send" THEN OutBuf[d].tail
                                            ELSE iLocalBlockCntr[d]]
    <3>1. /\ pc[c] = "count"
          /\ pc' = [pc EXCEPT ![c] = "send"]
          /\ OutBuf' = [OutBuf EXCEPT ![c].tail = iBlockCntr]
          /\ iLocalBlockCntr' = [iLocalBlockCntr EXCEPT ![c] = iBlockCntr]
          /\ lost' = [lost EXCEPT
                         ![c] = @ + (iBlockCntr - (iLocalBlockCntr[c] + 1))]
          /\ UNCHANGED iBlockCntr
      BY <2>10 DEF Count, Advance, BlockInv
    <3>2. iLocalBlockCntr[c] < iBlockCntr
      BY <3>1 DEF WakeInv
    <3>3. Newest[c] = iLocalBlockCntr[c]
      BY <3>1
    <3>4. Newest' = [Newest EXCEPT ![c] = iBlockCntr]
      BY <3>1
    <3>5. lost[c] + (iBlockCntr - (iLocalBlockCntr[c] + 1))
             = lost[c] + (iBlockCntr - Newest[c] - 1)
      BY <3>3
    <3>6. lost' = [lost EXCEPT ![c] = @ + (iBlockCntr - Newest[c] - 1)]
      BY <3>1, <3>5
    <3>7. UNCHANGED {d \in Clients : pc[d] \in Streaming}
      BY <3>1
    <3>8. Stream!Take(c)
      BY <3>1, <3>2, <3>3, <3>4, <3>6, <3>7 DEF Stream!Take
    <3> QED
      BY <3>8 DEF Stream!Next
  <2>11. CASE SendBlock(c)
    BY <2>11 DEF SendBlock, ClientInv, Stream!vars
  <2> QED
    BY <1>5, <2>1, <2>2, <2>3, <2>4, <2>5, <2>6, <2>7, <2>8, <2>9, <2>10, <2>11
    DEF Serve, Compute, Talk
<1>6. CASE Terminated \/ UNCHANGED vars
  BY <1>6, Stutter DEF Terminated, vars, clVars, hist
<1> QED
  BY <1>1, <1>2, <1>3, <1>4, <1>5, <1>6 DEF Next, Main

\* Without spurious wakeups of pthread_cond_wait(), the threads, the mutex,
\* the condition and the buffers give every client the abstract stream: whole
\* blocks, each newer than the one before, and a true count of those missed.
THEOREM Refinement == MaxSpurious = 0 => (Spec => ImplementsBlockStream)
<1> SUFFICES ASSUME MaxSpurious = 0 PROVE Spec => ImplementsBlockStream
  OBVIOUS
<1>1. Init => Stream!Init
  BY DEF Init, Stream!Init, Streaming
<1>2. IInv /\ [Next]_vars => [Stream!Next]_(Stream!vars)
  BY StreamStep
<1> QED
  BY Invariance, <1>1, <1>2, PTL DEF Spec, ImplementsBlockStream, Stream!Spec

-----------------------------------------------------------------------------
(* What the decoder leaves behind when it aborts.                          *)

\* FLACWrite has returned in the middle, and AudioIn idles or has ended.
LeftLocked == MtxAudio = AudioIn /\ pcIn \in {"idle", "ended"}

\* The mutex that FLACWrite leaves locked when it aborts is never free again:
\* no block is published any more, and a client that waits for one, or for the
\* mutex, does so until the process ends.
LockedForGood ==
    [][LeftLocked =>
          /\ LeftLocked' /\ UNCHANGED <<AudioBuf, iBlockCntr>>
          /\ \A c \in Clients : pc[c] \in {"lock", "wait"} => pc'[c] = pc[c]]_vars

\* An aborted decoder stops every client for good.
THEOREM AbortStopsClients == Spec => LockedForGood
<1> DEFINE A == LeftLocked =>
                   /\ LeftLocked' /\ UNCHANGED <<AudioBuf, iBlockCntr>>
                   /\ \A c \in Clients : pc[c] \in {"lock", "wait"} => pc'[c] = pc[c]
<1>1. ASSUME IInv, [Next]_vars PROVE [A]_vars
  <2> SUFFICES ASSUME LeftLocked PROVE A
    OBVIOUS
  <2>0. /\ DOMAIN pc = Clients /\ MtxAudio # NoThread
        /\ \A c \in Clients : pc[c] # "count"
    BY <1>1, ThreadAssumption DEF IInv, TypeOK, MutexInv, LeftLocked
  <2>1. CASE Signal \/ Terminated \/ UNCHANGED vars
    BY <2>1 DEF Signal, Terminated, vars, mainUnchanged, inVars, LeftLocked
  <2>2. CASE Main
    BY <2>0, <2>2 DEF Main, MainStop, MainJoin, MainAccept, mainUnchanged, inVars, LeftLocked
  <2>3. CASE Input
    <3>1. FLACIdle
      BY <2>0, <2>3 DEF Input, AudioInConnect, AudioInSizes, AudioInChannels, AudioInRate,
             AudioInBuffers, AudioInRead, AudioInCopy, AudioInPublish, FLACDecode,
             FLACCopy, FLACPublish, LeftLocked
    <3> QED
      BY <3>1 DEF FLACIdle, inUnchanged, LeftLocked
  <2>4. ASSUME NEW c \in Clients, Serve(c) PROVE A
    <3>1. UNCHANGED <<pcIn, AudioBuf, iBlockCntr>>
      BY <2>4 DEF Serve, Compute, Talk, ServeStart, OutSize, Sync, Test, Leave, WaitAudio,
             WakeUp, CopyHead, Count, SendHdr, RecvReq, SendBlock, SpuriousWakeup,
             clUnchanged
    <3>2. UNCHANGED MtxAudio /\ (UNCHANGED pc \/ pc[c] \notin {"lock", "wait"})
      BY <2>0, <2>4 DEF Serve, Compute, Talk, ServeStart, OutSize, Sync, Test, Leave,
             WaitAudio, WakeUp, Count, SendHdr, RecvReq, SendBlock, SpuriousWakeup,
             Audio!Lock
    <3>3. \A d \in Clients : d # c => pc'[d] = pc[d]
      BY <2>0, <2>4 DEF Serve, Compute, Talk, ServeStart, OutSize, Sync, Test, Leave,
             WaitAudio, WakeUp, Count, SendHdr, RecvReq, SendBlock, SpuriousWakeup
    <3> QED
      BY <3>1, <3>2, <3>3 DEF LeftLocked
  <2> QED
    BY <1>1, <2>1, <2>2, <2>3, <2>4 DEF Next
<1> QED
  BY Invariance, <1>1, PTL DEF Spec, LockedForGood
\* The same stream, with the theorems about it.
Proved == INSTANCE BlockStreamProofs WITH
    published <- iBlockCntr,
    joined <- {c \in Clients : pc[c] \in Streaming},
    newest <- [c \in Clients |-> IF pc[c] = "send" THEN OutBuf[c].tail
                                 ELSE iLocalBlockCntr[c]],
    missed <- lost

\* What the refinement is for: ServeClientThread never sends a block that
\* AudioIn has not stored, nor the same one again, nor an older one, and the
\* iLostCount it sends is the number of blocks between the two it sent.
THEOREM StreamPromise ==
    MaxSpurious = 0 =>
        (Spec => []Stream!NothingInvented /\ Stream!NewerAndCounted)
<1> SUFFICES ASSUME MaxSpurious = 0
             PROVE  Spec => []Stream!NothingInvented /\ Stream!NewerAndCounted
  OBVIOUS
<1>1. Stream!Spec => Proved!Spec
  BY DEF Stream!Spec, Stream!Init, Stream!Next, Stream!vars, Stream!Publish,
         Stream!Join, Stream!Take, Stream!Leave, Proved!Spec, Proved!Init,
         Proved!Next, Proved!vars, Proved!Publish, Proved!Join, Proved!Take,
         Proved!Leave
<1>2. Proved!Spec => []Proved!NothingInvented /\ Proved!NewerAndCounted
  BY Proved!NoInventions, Proved!Promise
<1>3. Spec => Stream!Spec
  BY Refinement DEF ImplementsBlockStream
<1>4. Proved!NothingInvented <=> Stream!NothingInvented
  BY DEF Proved!NothingInvented, Stream!NothingInvented
<1>5. Proved!NewerAndCounted => Stream!NewerAndCounted
  BY DEF Proved!NewerAndCounted, Stream!NewerAndCounted, Proved!vars, Stream!vars
<1> QED
  BY <1>1, <1>2, <1>3, <1>4, <1>5, PTL
=============================================================================
