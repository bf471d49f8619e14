----------------------------- MODULE SoundProxy -----------------------------
(***************************************************************************)
(* soundproxy, the relay of a soundsrv (SoundProxy.cc).                    *)
(*                                                                         *)
(* SoundInThread connects to the real server, keeps its first message, and *)
(* copies each block it reads to DataMsg, broadcasting CondData.           *)
(* WaitConnectThread gives each connection a slot and a thread of its own, *)
(* which sends the first message and then the blocks it is awake for.      *)
(* Exec() waits for a signal, stops and joins the two, and the object is   *)
(* deleted whatever the client threads are doing.                          *)
(*                                                                         *)
(* MutexData protects the messages; MutexClass protects bRun, the slots    *)
(* and the log.  A section under MutexClass touches nothing else and takes *)
(* no other lock, so each is one step and the mutex needs no variable.     *)
(* A block is its number; its first part (head) and the rest (tail) are    *)
(* copied in two steps.                                                    *)
(*                                                                         *)
(* NoSlotAccepts, SlotNotMarked, HdrFailedUnlocks, HdrTimeoutGoesOn,        *)
(* WakeUnlocked, CopyBeforeWait and InTestsOwnCopy are mistakes the code   *)
(* does not make.                                                          *)
(***************************************************************************)
EXTENDS Integers

CONSTANTS Clients,        \* connections, each served by a thread of its own
          SoundIn,        \* the input thread
          NoThread,       \* holder of a free mutex
          MaxClients,     \* SP_MAXCLIENTS, the number of slots
          MaxBlocks       \* the real server sends at most so many blocks

Slots == 0 .. MaxClients - 1

ASSUME ThreadAssumption ==
    /\ SoundIn \notin Clients
    /\ NoThread \notin Clients \cup {SoundIn}
    /\ MaxClients \in Nat \ {0}
    /\ MaxBlocks \in Nat

VARIABLES
    bRun,            \* FALSE once somebody has called Stop()
    proc,            \* "running", "exited", or "undefined": see MainDelete
    pcMain,          \* where Exec() and main() are
    pcIn,            \* where SoundInThread is
    pcWait,          \* where WaitConnectThread is
    iSlotIdx,        \* the slot it found, -1 for none
    bServeClient,    \* shared: the slots taken
    iClientSockH,    \* shared: slot -> the connection put there
    FirstMsg,        \* shared: "junk", "torn" or "whole"
    DataMsg,         \* shared: the newest block
    published,       \* the number of that block
    MutexData,       \* protects the two messages
    CondData         \* "there is a new block"

shared == <<bServeClient, iClientSockH, FirstMsg, DataMsg, published,
            MutexData, CondData>>

VARIABLES
    pc,              \* c -> where the thread of c is
    iThisIdx,        \* c -> the slot it was told to serve
    iSockH,          \* c -> the connection it found there
    HdrBuf,          \* c -> its copy of FirstMsg
    MsgBuf           \* c -> its copy of DataMsg

\* History, for the properties alone.
VARIABLES
    late,            \* c -> was it accepted after the first message?
    newest,          \* c -> the last block it copied, or where it joined
    missed           \* c -> the blocks it was not awake for

client == <<iThisIdx, iSockH, HdrBuf, MsgBuf, late, newest, missed>>

vars == <<bRun, proc, pcMain, pcIn, pcWait, iSlotIdx, shared, pc, client>>

Data == INSTANCE MtxCnd WITH Mtx <- MutexData, Cnd <- CondData

NoBlock == [head |-> 0, tail |-> 0]
-----------------------------------------------------------------------------
\* The object constructed, signals blocked, both threads created.
Init ==
    /\ bRun = TRUE
    /\ proc = "running"
    /\ pcMain = "sigwait"
    /\ pcIn = "connect"
    /\ pcWait = "find"
    /\ iSlotIdx = -1
    /\ bServeClient = {}
    /\ iClientSockH = [s \in Slots |-> NoThread]
    /\ FirstMsg = "junk"           \* allocated, never written
    /\ DataMsg = NoBlock
    /\ published = 0
    /\ MutexData = NoThread
    /\ CondData = {}
    /\ pc = [c \in Clients |-> "unborn"]
    /\ iThisIdx = [c \in Clients |-> -1]
    /\ iSockH = [c \in Clients |-> NoThread]
    /\ HdrBuf = [c \in Clients |-> "junk"]
    /\ MsgBuf = [c \in Clients |-> NoBlock]
    /\ late = [c \in Clients |-> FALSE]
    /\ newest = [c \in Clients |-> 0]
    /\ missed = [c \in Clients |-> 0]
-----------------------------------------------------------------------------
(* main() and Exec().                                                      *)

MainGoto(from, to) ==
    /\ proc = "running"
    /\ pcMain = from /\ pcMain' = to
    /\ UNCHANGED <<pcIn, pcWait, iSlotIdx, shared, pc, client>>

\* SIGHUP, SIGINT or SIGTERM ends sigwait(), and Stop() is called.
MainSignal == MainGoto("sigwait", "join") /\ bRun' = FALSE /\ UNCHANGED proc

MainJoin ==
    /\ pcIn = "ended" /\ pcWait = "ended"
    /\ MainGoto("join", "delete")
    /\ UNCHANGED <<bRun, proc>>

\* delete SoundProxy destroys a condition client threads may wait for and
\* buffers they may be copying; if there are any, nothing is known of the
\* program until its main thread returns.
MainDelete ==
    /\ MainGoto("delete", "exit")
    /\ \/ proc' = "exited"
       \/ (\E c \in Clients : pc[c] \notin {"unborn", "gone"})
          /\ proc' = "undefined"
    /\ UNCHANGED bRun
-----------------------------------------------------------------------------
(* SoundInThread.                                                          *)

InGoto(from, to) ==
    /\ proc = "running"
    /\ pcIn = from /\ pcIn' = to
    /\ UNCHANGED <<proc, pcMain, pcWait, iSlotIdx, bServeClient, iClientSockH,
                   pc, client>>

messages == <<FirstMsg, DataMsg, published>>
monitor  == <<MutexData, CondData>>

InConnect ==
    \/ InGoto("connect", "select") /\ UNCHANGED <<bRun, messages, monitor>>
    \/ InGoto("connect", "ended") /\ bRun' = FALSE      \* Stop(); return
       /\ UNCHANGED <<messages, monitor>>

HdrTimeoutGoesOn == InGoto("select", "test") /\ UNCHANGED bRun

\* ReadSelect(SP_1ST_MSG_TIMEOUT) in vain: Stop().
HdrTimeout == InGoto("select", "test") /\ bRun' = FALSE

InSelect ==
    /\ UNCHANGED messages
    /\ \/ HdrTimeout /\ UNCHANGED monitor
       \/ /\ InGoto("select", "readHdr")
          /\ Data!Lock(SoundIn)
          /\ UNCHANGED <<bRun, CondData>>

HdrPart ==
    /\ InGoto("readHdr", "stopHdr")
    /\ FirstMsg' \in {FirstMsg, "torn"}
    /\ UNCHANGED <<bRun, DataMsg, published, CondData>>

HdrFailedUnlocks == HdrPart /\ Data!Unlock

\* Less than a header was read, straight into FirstMsg; the mutex is kept
\* until Stop() has been called.
HdrFailed == HdrPart /\ UNCHANGED MutexData

\* ReadN() of the first message, with MutexData held however long it takes.
InReadHdr ==
    \/ HdrFailed
    \/ /\ InGoto("readHdr", "test")
       /\ FirstMsg' = "whole"
       /\ Data!Unlock
       /\ UNCHANGED <<bRun, DataMsg, published, CondData>>

InStopHdr ==
    /\ InGoto("stopHdr", "test")
    /\ bRun' = FALSE
    /\ Data!Unlock
    /\ UNCHANGED <<messages, CondData>>

TestThen(run) ==
    /\ InGoto("test", IF run THEN "loop" ELSE "ended")
    /\ UNCHANGED <<bRun, messages, monitor>>

InTestsOwnCopy == TestThen(TRUE)

\* bLocalRun = bRun; at the end of the loop the socket is closed.
InTest == TestThen(bRun)

\* Nothing to read for SP_MSG_TIMEOUT; a whole block in the private buffer;
\* or less than one, and Stop().
InLoop ==
    /\ \/ InGoto("loop", "test") /\ UNCHANGED bRun
       \/ InGoto("loop", "lock") /\ published < MaxBlocks /\ UNCHANGED bRun
       \/ InGoto("loop", "test") /\ bRun' = FALSE
    /\ UNCHANGED <<messages, monitor>>

InCopy ==
    /\ InGoto("lock", "publish")
    /\ Data!Lock(SoundIn)
    /\ DataMsg' = [DataMsg EXCEPT !.head = published + 1]
    /\ UNCHANGED <<bRun, FirstMsg, published, CondData>>

\* The rest of the memcpy(), NotifyAll() and Release().
InPublish ==
    /\ InGoto("publish", "test")
    /\ DataMsg' = [DataMsg EXCEPT !.tail = published + 1]
    /\ published' = published + 1
    /\ Data!NotifyAll
    /\ Data!Unlock
    /\ UNCHANGED <<bRun, FirstMsg>>
-----------------------------------------------------------------------------
(* WaitConnectThread.                                                      *)

WaitGoto(from, to) ==
    /\ proc = "running"
    /\ pcWait = from /\ pcWait' = to
    /\ UNCHANGED <<bRun, proc, pcMain, pcIn, messages, monitor>>

Lowest(S) == CHOOSE s \in S : \A t \in S : s <= t

FindThen(to) ==
    /\ WaitGoto("find", to)
    /\ iSlotIdx' = IF Slots \subseteq bServeClient THEN -1
                   ELSE Lowest(Slots \ bServeClient)
    /\ UNCHANGED <<bServeClient, iClientSockH, pc, client>>

NoSlotAccepts == FindThen("accept")

\* With no slot left, sched_yield() and round again.
FindFreeSlot == FindThen(IF Slots \subseteq bServeClient THEN "test" ELSE "accept")

\* WaitForConnect() returns c: the slot is taken for good, and its thread
\* created.  FirstMsg has arrived, or will not, once SoundIn is past it.
Serve(c, taken) ==
    /\ pc[c] = "unborn"
    /\ bServeClient' = taken
    /\ iClientSockH' = [iClientSockH EXCEPT ![iSlotIdx] = c]
    /\ pc' = [pc EXCEPT ![c] = "start"]
    /\ iThisIdx' = [iThisIdx EXCEPT ![c] = iSlotIdx]
    /\ late' = [late EXCEPT ![c] =
                   pcIn \notin {"connect", "select", "readHdr", "stopHdr"}]
    /\ UNCHANGED <<iSockH, HdrBuf, MsgBuf, newest, missed>>

SlotNotMarked(c) == Serve(c, bServeClient)

TakeSlot(c) == Serve(c, bServeClient \cup {iSlotIdx})

WaitAccept ==
    /\ WaitGoto("accept", "test")
    /\ \/ UNCHANGED <<bServeClient, iClientSockH, pc, client>>   \* timeout
       \/ \E c \in Clients : TakeSlot(c)
    /\ UNCHANGED iSlotIdx

WaitTest ==
    /\ WaitGoto("test", IF bRun THEN "find" ELSE "ended")
    /\ UNCHANGED <<iSlotIdx, bServeClient, iClientSockH, pc, client>>
-----------------------------------------------------------------------------
(* ServeClientThread, the thread of c.                                     *)

Goto(c, from, to) ==
    /\ proc = "running"
    /\ pc[c] = from /\ pc' = [pc EXCEPT ![c] = to]
    /\ UNCHANGED <<bRun, proc, pcMain, pcIn, pcWait, iSlotIdx, bServeClient,
                   iClientSockH, messages, iThisIdx, late>>

\* The connection is looked up in the slot, under MutexClass.
ServeStart(c) ==
    /\ Goto(c, "start", "header")
    /\ iSockH' = [iSockH EXCEPT ![c] = iClientSockH[iThisIdx[c]]]
    /\ UNCHANGED <<monitor, HdrBuf, MsgBuf, newest, missed>>

\* FirstMsg is copied, under MutexData.
CopyHdr(c) ==
    /\ Goto(c, "header", "sendHdr")
    /\ MutexData = NoThread
    /\ HdrBuf' = [HdrBuf EXCEPT ![c] = FirstMsg]
    /\ UNCHANGED <<monitor, iSockH, MsgBuf, newest, missed>>

\* The socket is closed and the thread ends; its slot stays taken.
End(c, from) ==
    /\ Goto(c, from, "gone")
    /\ newest' = [newest EXCEPT ![c] = 0]
    /\ missed' = [missed EXCEPT ![c] = 0]
    /\ iSockH' = [iSockH EXCEPT ![c] = NoThread]
    /\ HdrBuf' = [HdrBuf EXCEPT ![c] = "junk"]
    /\ MsgBuf' = [MsgBuf EXCEPT ![c] = NoBlock]
    /\ UNCHANGED monitor

\* Written in time, or not: then the thread ends.  bRun is not looked at.
\* HdrBuf is not read again, and the model forgets it.
SendHdr(c) ==
    \/ End(c, "sendHdr")
    \/ /\ Goto(c, "sendHdr", "lock")
       /\ newest' = [newest EXCEPT ![c] = published]
       /\ HdrBuf' = [HdrBuf EXCEPT ![c] = "junk"]
       /\ UNCHANGED <<monitor, iSockH, MsgBuf, missed>>

CopyHead(c, from) ==
    /\ Goto(c, from, "copy")
    /\ MsgBuf' = [MsgBuf EXCEPT ![c].head = DataMsg.head]
    /\ UNCHANGED <<CondData, iSockH, HdrBuf, newest, missed>>

CopyBeforeWait(c) == CopyHead(c, "lock") /\ Data!Lock(c)

\* MutexData.Wait() and CondData.Wait(): without a predicate.
WaitData(c) ==
    /\ Goto(c, "lock", "wait")
    /\ MutexData = NoThread
    /\ Data!Wait(c)
    /\ UNCHANGED <<iSockH, HdrBuf, MsgBuf, newest, missed>>

WakeUnlocked(c) ==
    /\ c \notin CondData
    /\ CopyHead(c, "wait")
    /\ UNCHANGED MutexData

\* Notified, with the mutex back; the copy starts.
WakeUp(c) ==
    /\ c \notin CondData
    /\ CopyHead(c, "wait")
    /\ Data!Lock(c)

Copy(c) ==
    /\ Goto(c, "copy", "test")
    /\ MsgBuf' = [MsgBuf EXCEPT ![c].tail = DataMsg.tail]
    /\ newest' = [newest EXCEPT ![c] = DataMsg.tail]
    /\ missed' = [missed EXCEPT ![c] = @ + (DataMsg.tail - newest[c] - 1)]
    /\ Data!Unlock
    /\ UNCHANGED <<CondData, iSockH, HdrBuf>>

\* Has the proxy been stopped meanwhile?
Test(c) ==
    \/ ~bRun /\ End(c, "test")
    \/ /\ bRun /\ Goto(c, "test", "send")
       /\ UNCHANGED <<monitor, iSockH, HdrBuf, MsgBuf, newest, missed>>

\* WriteN() of the block; or WriteSelect() times out, and the block is
\* dropped without a trace; or the client is gone.
SendBlock(c) ==
    \/ End(c, "send")
    \/ /\ Goto(c, "send", "lock")
       /\ MsgBuf' = [MsgBuf EXCEPT ![c] = NoBlock]
       /\ UNCHANGED <<monitor, iSockH, HdrBuf, newest, missed>>
-----------------------------------------------------------------------------
Main == MainSignal \/ MainJoin \/ MainDelete

Input ==
    \/ InConnect \/ InSelect \/ InReadHdr \/ InStopHdr
    \/ InTest \/ InLoop \/ InCopy \/ InPublish

WaitConnect == FindFreeSlot \/ WaitAccept \/ WaitTest

Compute(c) ==
    ServeStart(c) \/ CopyHdr(c) \/ WaitData(c) \/ WakeUp(c) \/ Copy(c) \/ Test(c)

Talk(c) == SendHdr(c) \/ SendBlock(c)

Terminated == proc # "running" /\ UNCHANGED vars

Next ==
    \/ Main \/ Input \/ WaitConnect
    \/ \E c \in Clients : Compute(c) \/ Talk(c)
    \/ Terminated

Spec == Init /\ [][Next]_vars

\* Threads are scheduled; the real server ends a message it has begun, by
\* the rest of it or by closing; and select() times out.  No signal need
\* come, and a client that has begun to take a message need not end.
Fairness ==
    /\ WF_vars(MainJoin) /\ WF_vars(MainDelete)
    /\ WF_vars(Input)
    /\ WF_vars(WaitConnect)
    /\ \A c \in Clients : WF_vars(Compute(c))

FairSpec == Spec /\ Fairness
-----------------------------------------------------------------------------
Streaming == {"lock", "wait", "copy", "test", "send"}

\* Every variable keeps its type.
TypeOK ==
    /\ bRun \in BOOLEAN
    /\ proc \in {"running", "exited", "undefined"}
    /\ pcMain \in {"sigwait", "join", "delete", "exit"}
    /\ pcIn \in {"connect", "select", "readHdr", "stopHdr", "test", "loop",
                 "lock", "publish", "ended"}
    /\ pcWait \in {"find", "accept", "test", "ended"}
    /\ iSlotIdx \in Slots \cup {-1}
    /\ pcWait = "accept" => iSlotIdx \in Slots
    /\ bServeClient \subseteq Slots
    /\ iClientSockH \in [Slots -> Clients \cup {NoThread}]
    /\ FirstMsg \in {"junk", "torn", "whole"}
    /\ DataMsg \in [head : Nat, tail : Nat]
    /\ published \in Nat
    /\ MutexData \in Clients \cup {SoundIn, NoThread}
    /\ CondData \subseteq Clients
    /\ pc \in [Clients -> Streaming \cup {"unborn", "start", "header",
                                          "sendHdr", "gone"}]
    /\ iThisIdx \in [Clients -> Slots \cup {-1}]
    /\ iSockH \in [Clients -> Clients \cup {NoThread}]
    /\ HdrBuf \in [Clients -> {"junk", "torn", "whole"}]
    /\ MsgBuf \in [Clients -> [head : Nat, tail : Nat]]
    /\ late \in [Clients -> BOOLEAN]
    /\ newest \in [Clients -> Nat]
    /\ missed \in [Clients -> Int]

\* A connection is handed to its thread through a slot, read some time after
\* it was written: every thread writes to the connection it was created for,
\* so no client is served twice and none by nobody.
OwnConnection ==
    \A c \in Clients :
        pc[c] \in Streaming \cup {"header", "sendHdr"} => iSockH[c] = c

\* A client is about to be sent a first message that the real server sent,
\* all of it, if it came when SoundIn was past it; and half a message only
\* if the proxy has been told to stop.
HeaderIsReal ==
    \A c \in Clients :
        pc[c] = "sendHdr" /\ bRun =>
            /\ HdrBuf[c] # "torn"
            /\ late[c] => HdrBuf[c] = "whole"

\* What a client is about to be written is one block, not half of it and
\* half of the next.
NoTornBlock ==
    \A c \in Clients :
        pc[c] \in {"test", "send"} => MsgBuf[c].head = MsgBuf[c].tail

\* "it just relays data from real soundsrv": the proxy's clients see a
\* freely spinning stream, each block at most once and in order.  A block
\* that was taken may still be dropped by a write that is not possible.
Stream == INSTANCE BlockStream WITH
    joined <- {c \in Clients : pc[c] \in Streaming}

ImplementsBlockStream == Stream!Spec

\* Once stopped, by a signal or by the loss of the real server, the two
\* threads end, whatever clients do; after a signal main() gets to its end.
StopEnds ==
    /\ ~bRun ~> pcIn = "ended" /\ pcWait = "ended"
    /\ pcMain = "join" ~> proc # "running"
-----------------------------------------------------------------------------
(* The inductive invariant of the proofs in SoundProxyProofs.tla.          *)

\* Who holds MutexData, and who waits.
MutexInv ==
    /\ \A c \in Clients : MutexData = c <=> pc[c] = "copy"
    /\ MutexData = SoundIn <=> pcIn \in {"readHdr", "stopHdr", "publish"}
    /\ \A c \in CondData : pc[c] = "wait"

\* A slot that is taken stays with the connection that took it, and no two
\* connections share one.
SlotInv ==
    /\ pcWait = "accept" => iSlotIdx \notin bServeClient
    /\ \A c \in Clients :
          pc[c] # "unborn" => /\ iThisIdx[c] \in bServeClient
                              /\ iClientSockH[iThisIdx[c]] = c

\* While the proxy is not stopped, FirstMsg is what it should be.
FirstMsgInv ==
    /\ FirstMsg = "torn" => ~bRun \/ pcIn = "stopHdr"
    /\ pcIn \notin {"connect", "select", "readHdr", "stopHdr"} =>
          FirstMsg = "whole" \/ ~bRun
    /\ \A c \in Clients :
          late[c] => pcIn \notin {"connect", "select", "readHdr", "stopHdr"}

\* DataMsg holds the block published counts, or is on its way to the next;
\* what clients hold is whole, and they are behind it when they copy.
BlockInv ==
    /\ DataMsg.tail = published
    /\ DataMsg.head = IF pcIn = "publish" THEN published + 1 ELSE published
    /\ \A c \in Clients :
          /\ pc[c] = "copy" => MsgBuf[c].head = published
          /\ pc[c] \in Streaming => newest[c] <= published
          /\ pc[c] = "copy" \/ (pc[c] = "wait" /\ c \notin CondData) =>
                newest[c] < published
          /\ pc[c] \notin Streaming => newest[c] = 0 /\ missed[c] = 0

IInv == /\ TypeOK /\ MutexInv /\ SlotInv /\ FirstMsgInv /\ BlockInv
        /\ OwnConnection /\ HeaderIsReal /\ NoTornBlock
=============================================================================
