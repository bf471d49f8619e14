-------------------------- MODULE SoundSrv2Proofs ---------------------------
(***************************************************************************)
(* Proofs about SoundSrv2, for any number of clients and blocks, any       *)
(* compression and any sizes of blocks.                                    *)
(***************************************************************************)
EXTENDS SoundSrv2, TLAPS

USE DEF InGoto, Goto, Stop, Fail, mainUnchanged, inUnchanged, clUnchanged,
        inVars, clVars, hist, Streaming, NoHdr, EmptyBuf,
        MSG_SOUND_COMPRESS_NONE, MSG_SOUND_COMPRESS_FLAC

\* The initial state satisfies the inductive invariant.
LEMMA InitInv == Init => IInv
<1> SUFFICES ASSUME Init PROVE IInv
  OBVIOUS
<1>1. TypeOK
  BY InputAssumption DEF Init, TypeOK
<1>2. MutexInv /\ ClientInv
  BY ThreadAssumption DEF Init, MutexInv, ClientInv
<1>3. SetupInv /\ BlockInv
  BY DEF Init, SetupInv, BlockInv
<1>4. CopyStaysInBuffers /\ RawSentAsCopied /\ LateClientIsToldAll
  BY DEF Init, CopyStaysInBuffers, RawSentAsCopied, SentAsCopied,
         LateClientIsToldAll
<1> QED
  BY <1>1, <1>2, <1>3, <1>4 DEF IInv
-----------------------------------------------------------------------------
\* What the main thread, a signal or the end of the process leave alone.
LEMMA MainStep ==
    ASSUME Signal \/ Main \/ Terminated \/ UNCHANGED vars
    PROVE  /\ UNCHANGED <<pcIn, inVars, MtxAudio, CndAudio, clVars, copied, lost>>
           /\ bRun' => bRun
BY DEF Signal, Main, MainStop, MainJoin, MainAccept, Terminated, vars

\* Every step keeps the types.
LEMMA TypeStep == TypeOK /\ [Next]_vars => TypeOK'
<1> SUFFICES ASSUME TypeOK, [Next]_vars PROVE TypeOK'
  OBVIOUS
<1> USE InputAssumption DEF TypeOK
<1>1. CASE Signal \/ Main \/ Terminated \/ UNCHANGED vars
  <2>1. CASE Signal
    BY <2>1 DEF Signal
  <2>2. CASE MainStop
    BY <2>2 DEF MainStop
  <2>3. CASE MainJoin
    BY <2>3 DEF MainJoin
  <2>4. ASSUME NEW c \in Clients, MainAccept(c) PROVE TypeOK'
    <3>1. InputIsSetUp \in BOOLEAN
      BY DEF InputIsSetUp
    <3>2. late' \in [Clients -> BOOLEAN]
      BY <2>4, <3>1 DEF MainAccept
    <3>3. pcMain' \in {"accept", "join", "exit"}
      BY <2>4 DEF MainAccept
    <3> QED
      BY <2>4, <3>2, <3>3 DEF MainAccept
  <2>5. CASE Terminated \/ UNCHANGED vars
    BY <2>5 DEF Terminated, vars
  <2> QED
    BY <1>1, <2>1, <2>2, <2>3, <2>4, <2>5 DEF Main
<1>2. CASE Input
  <2> USE DEF Audio!Lock, Audio!Unlock
  <2>1. CASE AudioInOpen
    BY <2>1 DEF AudioInOpen
  <2>2. CASE AudioInSizes
    BY <2>2 DEF AudioInSizes
  <2>3. CASE AudioInHdr
    BY <2>3 DEF AudioInHdr
  <2>4. CASE AudioInComp
    BY <2>4 DEF AudioInComp
  <2>5. CASE AudioInBuffers
    BY <2>5 DEF AudioInBuffers
  <2>6. CASE InitCompress
    BY <2>6 DEF InitCompress
  <2>7. CASE FLACWriteFirst
    BY <2>7 DEF FLACWriteFirst
  <2>8. CASE AudioInRead \/ AudioInFail
    BY <2>8 DEF AudioInRead, AudioInFail
  <2>9. CASE AudioInCopy
    <3>1. PICK n \in FrameSizes \cup {FragSize} :
             /\ iAudioBufSize' = n
             /\ AudioBuf' = [AudioBuf EXCEPT !.size = IF n > @ THEN n ELSE @,
                                             !.head = iBlockCntr + 1]
      BY <2>9 DEF AudioInCopy
    <3>2. iAudioBufSize' \in Nat /\ iBlockCntr + 1 \in Nat
      BY <3>1
    <3>3. AudioBuf' \in [size : Nat, head : Nat, tail : Nat]
      <4>1. CASE n > AudioBuf.size
        BY <3>1, <3>2, <4>1
      <4>2. CASE ~(n > AudioBuf.size)
        BY <3>1, <3>2, <4>2
      <4> QED
        BY <4>1, <4>2
    <3> QED
      BY <2>9, <3>2, <3>3 DEF AudioInCopy
  <2>10. CASE AudioInPublish
    <3>1. pcIn' \in {"loop", "lock"}
      BY <2>10 DEF AudioInPublish
    <3> QED
      BY <2>10, <3>1 DEF AudioInPublish, Audio!NotifyAll
  <2> QED
    BY <1>2, <2>1, <2>2, <2>3, <2>4, <2>5, <2>6, <2>7, <2>8, <2>9, <2>10
    DEF Input
<1>3. ASSUME NEW c \in Clients, Compute(c) PROVE TypeOK'
  <2> USE DEF Audio!Lock, Audio!Unlock
  <2>1. CASE ServeStart(c)
    BY <2>1 DEF ServeStart
  <2>2. CASE Sync(c)
    BY <2>2 DEF Sync, SyncAt
  <2>3. CASE Test(c)
    BY <2>3 DEF Test
  <2>4. CASE Leave(c)
    BY <2>4 DEF Leave
  <2>5. CASE WaitAudio(c)
    BY <2>5 DEF WaitAudio, Audio!Wait
  <2>6. CASE WakeUp(c)
    BY <2>6 DEF WakeUp, Grow
  <2>7. CASE Count(c)
    BY <2>7 DEF Count, Advance, AdvanceTo
  <2> QED
    BY <1>3, <2>1, <2>2, <2>3, <2>4, <2>5, <2>6, <2>7 DEF Compute
<1>4. ASSUME NEW c \in Clients, Talk(c) PROVE TypeOK'
  <2>1. bConnected' \in [Clients -> BOOLEAN]
    BY <1>4 DEF Talk, SendHdr, SendComp, SendBlock
  <2>2. CASE SendHdr(c)
    BY <2>1, <2>2 DEF SendHdr
  <2>3. CASE SendComp(c)
    BY <2>1, <2>3 DEF SendComp
  <2>4. CASE SendBlock(c)
    <3>1. proc' \in {"running", "exited", "fault"}
      BY <2>4 DEF SendBlock
    <3> QED
      BY <2>1, <2>4, <3>1 DEF SendBlock
  <2> QED
    BY <1>4, <2>2, <2>3, <2>4 DEF Talk
<1> QED
  BY <1>1, <1>2, <1>3, <1>4 DEF Next
-----------------------------------------------------------------------------
\* What a client thread can do to what it shares with others: take, hold and
\* give back the mutex, and wait.
LEMMA ClientLeaves ==
    ASSUME NEW c \in Clients, Compute(c) \/ Talk(c)
    PROVE  UNCHANGED <<bRun, pcMain, pcIn, inVars>>
BY DEF Compute, Talk, ServeStart, SendHdr, SendComp, Sync, SyncAt, Test, Leave,
       WaitAudio, WakeUp, Count, SendBlock

\* What AudioIn can do to a client: no more than wake it up.
LEMMA InputLeaves ==
    ASSUME Input
    PROVE  UNCHANGED <<proc, pcMain, iCompress, pc, clVars, hist>>
BY DEF Input, AudioInOpen, AudioInSizes, AudioInHdr, AudioInComp,
       AudioInBuffers, InitCompress, FLACWriteFirst, AudioInRead, AudioInFail,
       AudioInCopy, AudioInPublish

\* The main thread leaves client threads alone, except to create one.
LEMMA MainLeaves ==
    ASSUME Signal \/ Main \/ Terminated \/ UNCHANGED vars
    PROVE  UNCHANGED pc \/ \E c \in Clients : /\ pc[c] = "unborn"
                                             /\ pc' = [pc EXCEPT ![c] = "start"]
BY DEF Signal, Main, MainStop, MainJoin, MainAccept, Terminated, vars

\* Only a thread that copies, or AudioIn, holds MtxAudio.
LEMMA MutexStep == IInv /\ [Next]_vars => MutexInv'
<1> SUFFICES ASSUME IInv, [Next]_vars PROVE MutexInv'
  OBVIOUS
<1> USE ThreadAssumption DEF IInv, MutexInv, Audio!Lock, Audio!Unlock
<1>0. /\ pc \in [Clients -> {"unborn", "start", "sendHdr", "sendComp", "sync",
                             "gone"} \cup Streaming]
      /\ CndAudio \subseteq Clients
  BY DEF TypeOK
<1>1. CASE Signal \/ Main \/ Terminated \/ UNCHANGED vars
  <2>1. UNCHANGED <<pcIn, MtxAudio, CndAudio>>
    BY <1>1, MainStep
  <2>2. UNCHANGED pc \/ \E c \in Clients : /\ pc[c] = "unborn"
                                          /\ pc' = [pc EXCEPT ![c] = "start"]
    BY <1>1, MainLeaves
  <2> QED
    BY <1>0, <2>1, <2>2
<1>2. CASE Input
  <2> UNCHANGED pc
    BY <1>2, InputLeaves
  <2>1. CASE AudioInOpen \/ AudioInSizes \/ AudioInHdr \/ AudioInComp
    BY <2>1 DEF AudioInOpen, AudioInSizes, AudioInHdr, AudioInComp
  <2>2. CASE AudioInBuffers \/ AudioInRead \/ AudioInFail
    BY <2>2 DEF AudioInBuffers, AudioInRead, AudioInFail
  <2>3. CASE InitCompress \/ FLACWriteFirst
    BY <2>3 DEF InitCompress, FLACWriteFirst
  <2>4. CASE AudioInCopy
    BY <2>4 DEF AudioInCopy
  <2>5. CASE AudioInPublish
    BY <2>5 DEF AudioInPublish, Audio!NotifyAll
  <2> QED
    BY <1>2, <2>1, <2>2, <2>3, <2>4, <2>5 DEF Input
<1>3. ASSUME NEW c \in Clients, Compute(c) PROVE MutexInv'
  <2> UNCHANGED pcIn
    BY <1>3, ClientLeaves
  <2>1. CASE ServeStart(c) \/ Sync(c) \/ Test(c) \/ Leave(c)
    <3>1. /\ UNCHANGED <<MtxAudio, CndAudio>>
          /\ pc[c] \in {"start", "sync", "test"}
          /\ \E p \in {"sendHdr", "test", "lock", "gone"} :
                pc' = [pc EXCEPT ![c] = p]
      BY <2>1 DEF ServeStart, Sync, SyncAt, Test, Leave
    <3> QED
      BY <1>0, <3>1
  <2>2. CASE WaitAudio(c)
    BY <1>0, <2>2 DEF WaitAudio, Audio!Wait
  <2>3. CASE WakeUp(c)
    BY <1>0, <2>3 DEF WakeUp
  <2>4. CASE Count(c)
    BY <1>0, <2>4 DEF Count
  <2> QED
    BY <1>3, <2>1, <2>2, <2>3, <2>4 DEF Compute
<1>4. ASSUME NEW c \in Clients, Talk(c) PROVE MutexInv'
  <2>1. /\ UNCHANGED <<pcIn, MtxAudio, CndAudio>>
        /\ pc[c] \in {"sendHdr", "sendComp", "send"}
        /\ \E p \in {"sendComp", "sync", "test"} : pc' = [pc EXCEPT ![c] = p]
    BY <1>4 DEF Talk, SendHdr, SendComp, SendBlock
  <2> QED
    BY <1>0, <2>1
<1> QED
  BY <1>1, <1>2, <1>3, <1>4 DEF Next
-----------------------------------------------------------------------------
\* The description of the stream is complete when InputIsSetUp, and late
\* clients are served with it.
LEMMA SetupStep == IInv /\ [Next]_vars => SetupInv' /\ LateClientIsToldAll'
<1> SUFFICES ASSUME IInv, [Next]_vars
             PROVE  SetupInv' /\ LateClientIsToldAll'
  OBVIOUS
<1> USE DEF IInv, SetupInv, LateClientIsToldAll
<1>0. /\ pcIn \in {"open", "sizes", "hdr", "comp", "buffers", "init", "head",
                   "loop", "lock", "publish", "ended", "dead"}
      /\ sHdr \in [iFragmentSize : Nat, iCompress : Nat]
      /\ late \in [Clients -> BOOLEAN]
      /\ pc \in [Clients -> {"unborn", "start", "sendHdr", "sendComp", "sync",
                             "gone"} \cup Streaming]
      /\ bRun \in BOOLEAN
  BY DEF TypeOK
<1>1. CASE Signal \/ Main \/ Terminated \/ UNCHANGED vars
  <2> UNCHANGED <<pcIn, inVars>> /\ (bRun' => bRun)
    BY <1>1, MainStep
  <2>1. ASSUME NEW c \in Clients, MainAccept(c)
        PROVE  SetupInv' /\ LateClientIsToldAll'
    BY <1>0, <2>1 DEF MainAccept, InputIsSetUp
  <2>2. CASE UNCHANGED <<pc, late>>
    <3>1. SetupInv'
      <4> UNCHANGED <<sHdr, CompHead, iCompress>>
        OBVIOUS
      <4> QED
        BY <1>0, <2>2
    <3>2. LateClientIsToldAll'
      BY <1>0, <2>2
    <3> QED
      BY <3>1, <3>2
  <2> QED
    BY <1>1, <2>1, <2>2 DEF Signal, Main, MainStop, MainJoin, Terminated, vars
<1>2. CASE Input
  <2> UNCHANGED <<iCompress, pc, late>>
    BY <1>2, InputLeaves
  <2>1. CASE AudioInOpen \/ AudioInSizes \/ AudioInHdr
    BY <1>0, <2>1 DEF AudioInOpen, AudioInSizes, AudioInHdr
  <2>2. CASE AudioInComp \/ AudioInBuffers
    BY <1>0, <2>2 DEF AudioInComp, AudioInBuffers
  <2>3. CASE InitCompress \/ FLACWriteFirst
    BY <1>0, <2>3 DEF InitCompress, FLACWriteFirst
  <2>4. CASE AudioInRead \/ AudioInFail
    BY <1>0, <2>4 DEF AudioInRead, AudioInFail
  <2>5. CASE AudioInCopy \/ AudioInPublish
    <3>1. /\ UNCHANGED <<bRun, sHdr, CompHead>>
          /\ pcIn \in {"lock", "publish"} /\ pcIn' \in {"loop", "lock", "publish"}
      BY <2>5 DEF AudioInCopy, AudioInPublish
    <3> QED
      BY <1>0, <3>1
  <2> QED
    BY <1>2, <2>1, <2>2, <2>3, <2>4, <2>5 DEF Input
<1>3. ASSUME NEW c \in Clients, Compute(c) \/ Talk(c)
      PROVE  SetupInv' /\ LateClientIsToldAll'
  <2> UNCHANGED <<bRun, pcIn, inVars>>
    BY <1>3, ClientLeaves
  <2>1. \A d \in Clients : late'[d] => late[d]
    BY <1>0, <1>3 DEF Compute, Talk, ServeStart, SendHdr, SendComp, Sync, SyncAt,
                      Test, Leave, WaitAudio, WakeUp, Count, SendBlock
  <2>2. LateClientIsToldAll'
    BY <2>1
  <2> QED
    BY <2>1, <2>2
<1> QED
  BY <1>1, <1>2, <1>3 DEF Next
-----------------------------------------------------------------------------
\* Blocks are stored and counted by AudioIn alone, in a buffer that fits.
LEMMA BlockStep == IInv /\ [Next]_vars => BlockInv'
<1> SUFFICES ASSUME IInv, [Next]_vars PROVE BlockInv'
  OBVIOUS
<1> USE DEF IInv, BlockInv
<1>0. /\ pcIn \in {"open", "sizes", "hdr", "comp", "buffers", "init", "head",
                   "loop", "lock", "publish", "ended", "dead"}
      /\ iAudioBufSize \in Nat /\ iBlockCntr \in Nat
      /\ AudioBuf \in [size : Nat, head : Nat, tail : Nat]
  BY DEF TypeOK
<1>1. CASE Signal \/ Main \/ Terminated \/ UNCHANGED vars
  BY <1>1, MainStep
<1>2. CASE Input
  <2>1. CASE AudioInOpen \/ AudioInSizes \/ AudioInHdr \/ AudioInComp
    BY <1>0, <2>1 DEF AudioInOpen, AudioInSizes, AudioInHdr, AudioInComp
  <2>2. CASE AudioInBuffers
    BY <1>0, <2>2 DEF AudioInBuffers
  <2>3. CASE InitCompress \/ FLACWriteFirst
    BY <1>0, <2>3 DEF InitCompress, FLACWriteFirst
  <2>4. CASE AudioInRead \/ AudioInFail
    BY <1>0, <2>4 DEF AudioInRead, AudioInFail
  <2>5. CASE AudioInCopy
    <3>1. PICK n \in FrameSizes \cup {FragSize} :
             /\ iAudioBufSize' = n
             /\ AudioBuf' = [AudioBuf EXCEPT !.size = IF n > @ THEN n ELSE @,
                                             !.head = iBlockCntr + 1]
      BY <2>5 DEF AudioInCopy
    <3>2. /\ AudioBuf'.tail = AudioBuf.tail /\ AudioBuf'.head = iBlockCntr + 1
          /\ AudioBuf'.size = IF n > AudioBuf.size THEN n ELSE AudioBuf.size
      BY <1>0, <3>1
    <3>3. pcIn' = "publish" /\ iBlockCntr' = iBlockCntr /\ n \in Nat
      BY <2>5, InputAssumption DEF AudioInCopy
    <3>4. iAudioBufSize' <= AudioBuf'.size
      BY <1>0, <3>1, <3>2, <3>3
    <3> QED
      BY <3>2, <3>3, <3>4
  <2>6. CASE AudioInPublish
    BY <1>0, <2>6 DEF AudioInPublish
  <2> QED
    BY <1>2, <2>1, <2>2, <2>3, <2>4, <2>5, <2>6 DEF Input
<1>3. ASSUME NEW c \in Clients, Compute(c) \/ Talk(c) PROVE BlockInv'
  BY <1>3, ClientLeaves
<1> QED
  BY <1>1, <1>2, <1>3 DEF Next

\* No client is ahead of the input, and none wakes up for nothing.
LEMMA ClientStep == IInv /\ [Next]_vars => ClientInv'
<1> SUFFICES ASSUME IInv, [Next]_vars PROVE ClientInv'
  OBVIOUS
<1> USE DEF IInv, ClientInv
<1>0. /\ pc \in [Clients -> {"unborn", "start", "sendHdr", "sendComp", "sync",
                             "gone"} \cup Streaming]
      /\ iBlockCntr \in Nat
      /\ OutBuf \in [Clients -> [size : Nat, head : Nat, tail : Nat]]
      /\ iLocalBlockCntr \in [Clients -> Nat]
      /\ lost \in [Clients -> Int]
  BY DEF TypeOK
<1>1. CASE Signal \/ Main \/ Terminated \/ UNCHANGED vars
  <2>1. UNCHANGED <<iBlockCntr, CndAudio, OutBuf, iLocalBlockCntr, lost>>
    BY <1>1, MainStep
  <2>2. UNCHANGED pc \/ \E c \in Clients : /\ pc[c] = "unborn"
                                          /\ pc' = [pc EXCEPT ![c] = "start"]
    BY <1>1, MainLeaves
  <2> QED
    BY <1>0, <2>1, <2>2
<1>2. CASE Input
  <2> UNCHANGED <<pc, OutBuf, iLocalBlockCntr, lost>>
    BY <1>2, InputLeaves
  <2>1. CASE AudioInPublish
    BY <1>0, <2>1 DEF AudioInPublish
  <2>2. CASE ~AudioInPublish
    <3>1. UNCHANGED <<iBlockCntr, CndAudio>>
      BY <1>2, <2>2 DEF Input, AudioInOpen, AudioInSizes, AudioInHdr, AudioInComp,
           AudioInBuffers, InitCompress, FLACWriteFirst, AudioInRead,
           AudioInFail, AudioInCopy
    <3> QED
      BY <1>0, <3>1
  <2> QED
    BY <2>1, <2>2
<1>3. ASSUME NEW c \in Clients, Compute(c) PROVE ClientInv'
  <2> UNCHANGED iBlockCntr
    BY <1>3, ClientLeaves
  <2>1. CASE ServeStart(c) \/ Test(c)
    BY <1>0, <2>1 DEF ServeStart, Test
  <2>2. CASE Sync(c)
    BY <1>0, <2>2 DEF Sync, SyncAt
  <2>3. CASE Leave(c)
    BY <1>0, <2>3 DEF Leave
  <2>4. CASE WaitAudio(c)
    BY <1>0, <2>4 DEF WaitAudio, Audio!Wait
  <2>5. CASE WakeUp(c)
    BY <1>0, <2>5 DEF WakeUp
  <2>6. CASE Count(c)
    <3>1. AudioBuf.tail = iBlockCntr /\ AudioBuf \in [size : Nat, head : Nat, tail : Nat]
      BY DEF BlockInv, TypeOK
    <3> QED
      BY <1>0, <2>6, <3>1 DEF Count, Advance, AdvanceTo
  <2> QED
    BY <1>3, <2>1, <2>2, <2>3, <2>4, <2>5, <2>6 DEF Compute
<1>4. ASSUME NEW c \in Clients, Talk(c) PROVE ClientInv'
  <2>1. /\ UNCHANGED <<iBlockCntr, CndAudio, iLocalBlockCntr, lost>>
        /\ \/ pc[c] = "sendHdr" /\ pc' = [pc EXCEPT ![c] = "sendComp"]
           \/ pc[c] = "sendComp" /\ pc' = [pc EXCEPT ![c] = "sync"]
           \/ pc[c] = "send" /\ pc' = [pc EXCEPT ![c] = "test"]
        /\ \A d \in Clients \ {c} : OutBuf'[d] = OutBuf[d]
    BY <1>0, <1>4 DEF Talk, SendHdr, SendComp, SendBlock
  <2> QED
    BY <1>0, <2>1
<1> QED
  BY <1>1, <1>2, <1>3, <1>4 DEF Next
-----------------------------------------------------------------------------
\* Only AudioInCopy changes the size of a block once there are blocks; it has
\* the mutex then, and does not change that of a raw stream.
LEMMA SizeStep == IInv /\ [Next]_vars => CopyStaysInBuffers' /\ RawSentAsCopied'
<1> SUFFICES ASSUME IInv, [Next]_vars
             PROVE  CopyStaysInBuffers' /\ RawSentAsCopied'
  OBVIOUS
<1> USE DEF IInv, CopyStaysInBuffers, RawSentAsCopied, SentAsCopied
<1>0. /\ pc \in [Clients -> {"unborn", "start", "sendHdr", "sendComp", "sync",
                             "gone"} \cup Streaming]
      /\ iAudioBufSize \in Nat /\ iBlockCntr \in Nat
      /\ AudioBuf \in [size : Nat, head : Nat, tail : Nat]
      /\ OutBuf \in [Clients -> [size : Nat, head : Nat, tail : Nat]]
      /\ iLocalBlockCntr \in [Clients -> Nat]
      /\ copied \in [Clients -> Nat]
  BY DEF TypeOK
<1>1. CASE Signal \/ Main \/ Terminated \/ UNCHANGED vars
  <2>1. UNCHANGED <<iCompress, iAudioBufSize, AudioBuf, OutBuf, copied>>
    BY <1>1, MainStep
  <2>2. UNCHANGED pc \/ \E c \in Clients : /\ pc[c] = "unborn"
                                          /\ pc' = [pc EXCEPT ![c] = "start"]
    BY <1>1, MainLeaves
  <2> QED
    BY <1>0, <2>1, <2>2
<1>2. CASE Input
  <2> UNCHANGED <<iCompress, pc, OutBuf, copied>>
    BY <1>2, InputLeaves
  <2>1. ASSUME NEW c \in Clients, pc[c] \in {"count", "send"}
        PROVE  pcIn \notin {"open", "sizes", "hdr", "comp", "buffers", "init",
                            "head"}
    BY <1>0, <2>1 DEF ClientInv, BlockInv
  <2>2. CASE AudioInSizes \/ AudioInBuffers
    BY <2>1, <2>2 DEF AudioInSizes, AudioInBuffers
  <2>3. CASE AudioInCopy
    <3>1. \A c \in Clients : pc[c] # "count"
      BY <2>3, ThreadAssumption DEF AudioInCopy, Audio!Lock, MutexInv
    <3>2. iCompress = MSG_SOUND_COMPRESS_NONE => iAudioBufSize' = iAudioBufSize
      BY <2>3 DEF AudioInCopy, Encode
    <3> QED
      BY <3>1, <3>2
  <2>4. CASE ~AudioInSizes /\ ~AudioInBuffers /\ ~AudioInCopy
    <3>1. iAudioBufSize' = iAudioBufSize /\ AudioBuf'.size = AudioBuf.size
      BY <1>0, <1>2, <2>4 DEF Input, AudioInOpen, AudioInHdr, AudioInComp, InitCompress,
           FLACWriteFirst, AudioInRead, AudioInFail, AudioInPublish
    <3> QED
      BY <3>1
  <2> QED
    BY <2>2, <2>3, <2>4
<1>3. ASSUME NEW c \in Clients, Compute(c) \/ Talk(c)
      PROVE  CopyStaysInBuffers' /\ RawSentAsCopied'
  <2> UNCHANGED <<iCompress, iAudioBufSize, AudioBuf, pcIn, iBlockCntr>>
    BY <1>3, ClientLeaves
  <2>1. CASE WakeUp(c)
    <3>1. iAudioBufSize <= AudioBuf.size
      BY <1>0, <2>1 DEF WakeUp, ClientInv, BlockInv
    <3>2. iAudioBufSize <= Grow(c)
      BY <1>0 DEF Grow
    <3>3. /\ OutBuf'[c].size = Grow(c) /\ copied'[c] = iAudioBufSize
          /\ \A d \in Clients \ {c} : /\ OutBuf'[d] = OutBuf[d]
                                      /\ copied'[d] = copied[d]
                                      /\ pc'[d] = pc[d]
          /\ pc'[c] = "count"
      BY <1>0, <2>1 DEF WakeUp
    <3> QED
      BY <3>1, <3>2, <3>3
  <2>2. CASE Count(c)
    <3>1. /\ OutBuf'[c].size = OutBuf[c].size /\ copied' = copied
          /\ \A d \in Clients \ {c} : OutBuf'[d] = OutBuf[d] /\ pc'[d] = pc[d]
          /\ pc[c] = "count" /\ pc'[c] = "send"
      BY <1>0, <2>2 DEF Count
    <3> QED
      BY <3>1
  <2>3. CASE ~WakeUp(c) /\ ~Count(c)
    <3>1. /\ pc'[c] \notin {"count", "send"}
          /\ \A d \in Clients \ {c} : /\ OutBuf'[d] = OutBuf[d]
                                      /\ copied'[d] = copied[d]
                                      /\ pc'[d] = pc[d]
      BY <1>0, <1>3, <2>3 DEF Compute, Talk, ServeStart, SendHdr, SendComp, Sync, SyncAt,
           Test, Leave, WaitAudio, SendBlock
    <3> QED
      BY <3>1
  <2> QED
    BY <2>1, <2>2, <2>3
<1> QED
  BY <1>1, <1>2, <1>3 DEF Next
-----------------------------------------------------------------------------
\* Every step preserves the inductive invariant, which thus always holds.
LEMMA StepInv == IInv /\ [Next]_vars => IInv'
BY TypeStep, MutexStep, SetupStep, BlockStep, ClientStep, SizeStep DEF IInv

THEOREM Invariance == Spec => []IInv
BY InitInv, StepInv, PTL DEF Spec

\* Every variable keeps its type.
THEOREM TypeCorrect == Spec => []TypeOK
<1>1. IInv => TypeOK
  BY DEF IInv
<1> QED
  BY Invariance, <1>1, PTL

\* No copy to a client's buffer goes beyond either buffer, whatever sizes the
\* encoder makes blocks.
THEOREM CopiesFit == Spec => []CopyStaysInBuffers
<1>1. IInv => CopyStaysInBuffers
  BY DEF IInv
<1> QED
  BY Invariance, <1>1, PTL

\* What is written to a client of a raw stream is what was copied for it,
\* although its size is read again without the mutex.
THEOREM RawBlocksAreSentWhole == Spec => []RawSentAsCopied
<1>1. IInv => RawSentAsCopied
  BY DEF IInv
<1> QED
  BY Invariance, <1>1, PTL

\* A client that comes when the input was set up is told all it needs.
THEOREM LateClientsAreTold == Spec => []LateClientIsToldAll
<1>1. IInv => LateClientIsToldAll
  BY DEF IInv
<1> QED
  BY Invariance, <1>1, PTL
-----------------------------------------------------------------------------
\* The last block a client has taken, in BlockStream's terms, is what its
\* counter says.
Newest == [c \in Clients |-> IF pc[c] = "send" THEN OutBuf[c].tail
                             ELSE iLocalBlockCntr[c]]

\* Every step of the server is a step of the block stream, or invisible.
LEMMA StreamStep ==
    ASSUME IInv, IInv', [Next]_vars
    PROVE  [Stream!Next]_(Stream!vars)
<1> USE DEF IInv
<1>0. /\ pc \in [Clients -> {"unborn", "start", "sendHdr", "sendComp", "sync",
                             "gone"} \cup Streaming]
      /\ iBlockCntr \in Nat
      /\ iLocalBlockCntr \in [Clients -> Nat]
      /\ lost \in [Clients -> Int]
  BY DEF TypeOK
<1> DEFINE joined == {c \in Clients : pc[c] \in Streaming}
<1>a. Newest = iLocalBlockCntr /\ Newest' = iLocalBlockCntr'
  BY DEF TypeOK, ClientInv, Newest
<1>b. ASSUME UNCHANGED <<iBlockCntr, joined, iLocalBlockCntr, lost>>
      PROVE  [Stream!Next]_(Stream!vars)
  BY <1>a, <1>b DEF Stream!vars, Newest
<1>1. CASE Signal \/ Main \/ Terminated \/ UNCHANGED vars
  <2>1. UNCHANGED <<iBlockCntr, iLocalBlockCntr, lost>>
    BY <1>1, MainStep
  <2>2. UNCHANGED joined
    BY <1>0, <1>1, MainLeaves
  <2> QED
    BY <2>1, <2>2, <1>b
<1>2. CASE Input
  <2> UNCHANGED <<pc, iLocalBlockCntr, lost>>
    BY <1>2, InputLeaves
  <2>1. CASE AudioInPublish
    <3>1. iBlockCntr' = iBlockCntr + 1
      BY <2>1 DEF AudioInPublish
    <3>2. Stream!Publish
      BY <3>1, <1>a DEF Stream!Publish, Newest
    <3> QED
      BY <3>2 DEF Stream!Next
  <2>2. CASE ~AudioInPublish
    <3>1. UNCHANGED iBlockCntr
      BY <1>2, <2>2 DEF Input, AudioInOpen, AudioInSizes, AudioInHdr, AudioInComp,
           AudioInBuffers, InitCompress, FLACWriteFirst, AudioInRead,
           AudioInFail, AudioInCopy
    <3> QED
      BY <3>1, <1>b
  <2> QED
    BY <2>1, <2>2
<1>3. ASSUME NEW c \in Clients, Compute(c) \/ Talk(c)
      PROVE  [Stream!Next]_(Stream!vars)
  <2>1. UNCHANGED iBlockCntr
    BY <1>3, ClientLeaves
  <2>2. CASE Sync(c)
    <3>1. Stream!Join(c)
      BY <1>0, <1>a, <2>1, <2>2 DEF Sync, SyncAt, Stream!Join, Newest
    <3> QED
      BY <3>1 DEF Stream!Next
  <2>3. CASE Leave(c)
    <3>1. Stream!Leave(c)
      BY <1>0, <1>a, <2>1, <2>3 DEF Leave, Stream!Leave, Newest
    <3> QED
      BY <3>1 DEF Stream!Next
  <2>4. CASE Count(c)
    <3>1. iLocalBlockCntr[c] < iBlockCntr
      BY <2>4 DEF Count, ClientInv
    <3>2. UNCHANGED joined
      BY <1>0, <2>4 DEF Count
    <3>3. /\ iLocalBlockCntr' = [iLocalBlockCntr EXCEPT ![c] = iBlockCntr]
          /\ lost' = [lost EXCEPT ![c] = @ + (iBlockCntr - iLocalBlockCntr[c] - 1)]
      <4>1. iBlockCntr - (iLocalBlockCntr[c] + 1) = iBlockCntr - iLocalBlockCntr[c] - 1
        BY <1>0
      <4> QED
        BY <2>4, <4>1, Zenon DEF Count, Advance, AdvanceTo
    <3>5. c \in joined
      BY <2>4 DEF Count
    <3>4. Stream!Take(c)
      BY <1>a, <2>1, <3>1, <3>2, <3>3, <3>5 DEF Stream!Take, Newest
    <3> QED
      BY <3>4 DEF Stream!Next
  <2>5. CASE ~Sync(c) /\ ~Leave(c) /\ ~Count(c)
    <3>1. UNCHANGED <<iLocalBlockCntr, lost>>
      BY <1>3, <2>5 DEF Compute, Talk, ServeStart, SendHdr, SendComp, Test,
           WaitAudio, WakeUp, SendBlock
    <3>2. UNCHANGED joined
      BY <1>0, <1>3, <2>5 DEF Compute, Talk, ServeStart, SendHdr, SendComp, Test,
           WaitAudio, WakeUp, SendBlock
    <3> QED
      BY <2>1, <3>1, <3>2, <1>b
  <2> QED
    BY <2>2, <2>3, <2>4, <2>5
<1> QED
  BY <1>1, <1>2, <1>3 DEF Next

\* The server gives every client a freely spinning stream of blocks.
THEOREM Refinement == Spec => ImplementsBlockStream
<1>1. Init => Stream!Init
  BY DEF Init, Stream!Init
<1>2. IInv /\ IInv' /\ [Next]_vars => [Stream!Next]_(Stream!vars)
  BY StreamStep
<1> QED
  BY Invariance, <1>1, <1>2, PTL DEF Spec, ImplementsBlockStream, Stream!Spec

\* The same stream, with the theorems about it.
Proved == INSTANCE BlockStreamProofs WITH
    published <- iBlockCntr,
    joined <- {c \in Clients : pc[c] \in Streaming},
    newest <- [c \in Clients |-> IF pc[c] = "send" THEN OutBuf[c].tail
                                 ELSE iLocalBlockCntr[c]],
    missed <- lost

\* What the refinement is for: a client of the sound card is sent newer blocks
\* only, each when it was the newest, and the number of lost blocks
\* ServeClientThread sends with one is what lies between it and the last.
THEOREM StreamPromise ==
    Spec => []Stream!NothingInvented /\ Stream!NewerAndCounted
<1>1. Stream!Spec => Proved!Spec
  BY DEF Stream!Spec, Stream!Init, Stream!Next, Stream!vars, Stream!Publish,
         Stream!Join, Stream!Take, Stream!Leave, Proved!Spec, Proved!Init,
         Proved!Next, Proved!vars, Proved!Publish, Proved!Join, Proved!Take,
         Proved!Leave
<1>2. Proved!Spec => []Proved!NothingInvented /\ Proved!NewerAndCounted
  BY Proved!NoInventions, Proved!Promise
<1>3. Spec => Stream!Spec
  BY Refinement DEF ImplementsBlockStream
<1>4. Proved!NothingInvented <=> Stream!NothingInvented
  BY DEF Proved!NothingInvented, Stream!NothingInvented
<1>5. Proved!NewerAndCounted => Stream!NewerAndCounted
  BY DEF Proved!NewerAndCounted, Stream!NewerAndCounted, Proved!vars, Stream!vars
<1> QED
  BY <1>1, <1>2, <1>3, <1>4, <1>5, PTL
=============================================================================
