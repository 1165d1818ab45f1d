--------------------------- MODULE MessageQueues ----------------------------
(***************************************************************************)
(* Sender and receiver over a POSIX message queue:                         *)
(*   heap  VxWorks-Examples/heap_mq.c: the messages are pointers to blocks *)
(*         that the sender allocates and the receiver frees; an operator   *)
(*         may call shutdown() and then heap_mq() again;                   *)
(*   loop  POSIX_MQ_LOOP/heap_mq.c and posix_mq.c: two threads that send   *)
(*         and receive one canned message until a call fails;              *)
(*   once  VxWorks-Examples/posix_mq.c: one message, from a sender that    *)
(*         relies on the receiver to create the queue.                     *)
(* All messages have priority 30, so the queue is first in, first out.     *)
(*                                                                         *)
(* The receiver of loop stores a zero one byte past buffer[].  Where the   *)
(* build puts mymq there, its descriptor is destroyed by the first message.*)
(***************************************************************************)
EXTENDS Naturals, Sequences

CONSTANTS
  Blocks,       \* what malloc can hand out
  MaxMsg,       \* mq_maxmsg: 100 in the VxWorks programs, 10 in the others
  MaxRestarts   \* bound: calls of heap_mq() after shutdown()

Msg == "msg"     \* canned_msg
NULL == "NULL"   \* malloc failed

ASSUME QueueAssumption ==
  MaxMsg \in Nat \ {0} /\ MaxRestarts \in Nat /\ NULL \notin Blocks

VARIABLES
  mqProg,
  exists, mqueue,     \* the queue, which outlives the tasks
  mqOpen,             \* those of "send" and "recv" that have it open
  sndPc, rcvPc,
  sndBlk, rcvBlk,     \* buffptr of each
  heap,               \* blocks that are allocated
  mqFails,            \* tasks whose mq_open fails for want of resources
  pastEnd,            \* loop: what lies behind buffer[], "mymq" or "other"
  mqMain, restarts

mqVars == <<mqProg, exists, mqueue, mqOpen, sndPc, rcvPc, sndBlk, rcvBlk, heap,
            mqFails, pastEnd, mqMain, restarts>>

MqTypeOK ==
  /\ mqProg \in {"heap", "loop", "once"}
  /\ exists \in BOOLEAN
  /\ mqueue \in Seq(Blocks \cup {Msg, NULL}) /\ Len(mqueue) <= MaxMsg
  /\ mqOpen \subseteq {"send", "recv"}
  /\ sndPc \in {"none", "open", "make", "send", "delay", "exit"}
  /\ rcvPc \in {"none", "open", "recv", "got", "exit"}
  /\ sndBlk \in Blocks \cup {Msg, NULL} /\ rcvBlk \in Blocks \cup {Msg, NULL}
  /\ heap \subseteq Blocks
  /\ mqFails \subseteq {"send", "recv"} /\ pastEnd \in {"mymq", "other"}
  /\ mqMain \in {"start", "createRecv", "joinSend", "joinRecv", "running", "closed", "stopped", "exit"}
  /\ restarts \in 0..MaxRestarts

MqInit ==
  /\ mqProg \in {"heap", "loop", "once"}
  /\ exists = FALSE /\ mqueue = <<>> /\ mqOpen = {}
  /\ sndPc = "none" /\ rcvPc = "none"
  /\ sndBlk = NULL /\ rcvBlk = NULL
  /\ heap = {}
  /\ mqFails \in (IF mqProg = "heap" THEN {{}, {"send", "recv"}} ELSE SUBSET {"send", "recv"})
  /\ pastEnd \in (IF mqProg = "loop" THEN {"mymq", "other"} ELSE {"other"})
  /\ mqMain = "start" /\ restarts = 0

-----------------------------------------------------------------------------
(* The queue: mq_open, mq_send and mq_receive                               *)

\* mq_open by the tasks of who
MqOpen(who, create) ==
  IF (exists \/ create) /\ who \cap mqFails = {}
    THEN exists' = TRUE /\ mqOpen' = mqOpen \cup who
    ELSE UNCHANGED <<exists, mqOpen>>

\* m is queued; mq_send blocks while the queue is full
Queued(m) ==
  /\ "send" \in mqOpen /\ Len(mqueue) < MaxMsg
  /\ mqueue' = Append(mqueue, m)

\* the oldest message is taken; mq_receive blocks while there is none
Dequeued ==
  /\ "recv" \in mqOpen /\ mqueue # <<>>
  /\ rcvBlk' = Head(mqueue)
  /\ mqueue' = Tail(mqueue)

-----------------------------------------------------------------------------
(* heap                                                                     *)

\* buffptr = malloc(sizeof(imagebuff))
HeapMake ==
  /\ sndPc = "make"
  /\ IF heap = Blocks
       THEN sndBlk' = NULL /\ UNCHANGED heap
       ELSE \E b \in Blocks \ heap : sndBlk' = b /\ heap' = heap \cup {b}
  /\ sndPc' = "send"
  /\ UNCHANGED mqueue

HeapSendFrees ==
  /\ sndPc = "send"
  /\ \/ Queued(sndBlk)
     \/ "send" \notin mqOpen /\ UNCHANGED mqueue
  /\ heap' = heap \ {sndBlk}
  /\ sndPc' = "delay"
  /\ UNCHANGED sndBlk

\* mq_send; an error is reported and the block forgotten
HeapSend ==
  /\ sndPc = "send"
  /\ \/ Queued(sndBlk)
     \/ "send" \notin mqOpen /\ UNCHANGED mqueue
  /\ sndPc' = "delay"
  /\ UNCHANGED <<sndBlk, heap>>

\* taskDelay(3000)
HeapDelay ==
  /\ sndPc = "delay" /\ sndPc' = "make"
  /\ UNCHANGED <<mqueue, sndBlk, heap>>

sender_heap ==
  /\ HeapMake \/ HeapSend \/ HeapDelay
  /\ UNCHANGED <<rcvPc, rcvBlk>>

\* mq_receive; an error is reported and the loop goes on
HeapReceive ==
  /\ rcvPc = "recv"
  /\ \/ Dequeued /\ rcvPc' = "got"
     \/ "recv" \notin mqOpen /\ UNCHANGED <<mqueue, rcvBlk, rcvPc>>
  /\ UNCHANGED heap

\* the contents are printed; free(buffptr)
HeapFree ==
  /\ rcvPc = "got"
  /\ heap' = heap \ {rcvBlk}
  /\ rcvPc' = "recv"
  /\ UNCHANGED <<mqueue, rcvBlk>>

receiver_heap ==
  /\ HeapReceive \/ HeapFree
  /\ UNCHANGED <<sndPc, sndBlk>>

\* heap_mq(): the queue is opened, both tasks are spawned
heap_mq ==
  /\ mqMain \in {"start", "stopped"}
  /\ mqMain = "stopped" => restarts < MaxRestarts
  /\ restarts' = IF mqMain = "stopped" THEN restarts + 1 ELSE restarts
  /\ MqOpen({"send", "recv"}, TRUE)
  /\ sndPc' = "make" /\ rcvPc' = "recv"
  /\ mqMain' = "running"
  /\ UNCHANGED <<mqueue, sndBlk, rcvBlk, heap>>

\* shutdown(): mq_close(mymq) ...
mq_close ==
  /\ mqMain = "running" /\ mqMain' = "closed"
  /\ mqOpen' = {}
  /\ UNCHANGED <<exists, mqueue, sndPc, rcvPc, sndBlk, rcvBlk, heap, restarts>>

\* ... and taskDelete(sid), taskDelete(rid), wherever the tasks are
taskDelete ==
  /\ mqMain = "closed"
  /\ \/ sndPc # "none" /\ sndPc' = "none" /\ UNCHANGED <<rcvPc, mqMain>>
     \/ sndPc = "none" /\ rcvPc' = "none" /\ mqMain' = "stopped" /\ UNCHANGED sndPc
  /\ UNCHANGED <<exists, mqueue, mqOpen, sndBlk, rcvBlk, heap, restarts>>

HeapNext ==
  /\ mqProg = "heap"
  /\ \/ sender_heap /\ UNCHANGED <<exists, mqOpen, mqMain, restarts>>
     \/ receiver_heap /\ UNCHANGED <<exists, mqOpen, mqMain, restarts>>
     \/ heap_mq \/ mq_close \/ taskDelete
  /\ UNCHANGED <<mqProg, mqFails, pastEnd>>

-----------------------------------------------------------------------------
(* loop                                                                     *)

sender_open ==
  /\ sndPc = "open" /\ sndPc' = "send"
  /\ MqOpen({"send"}, TRUE)
  /\ UNCHANGED mqueue

\* do mq_send while(rc != ERROR)
sender_loop ==
  /\ sndPc = "send"
  /\ \/ Queued(Msg) /\ UNCHANGED sndPc
     \/ "send" \notin mqOpen /\ sndPc' = "exit" /\ UNCHANGED mqueue
  /\ UNCHANGED <<exists, mqOpen>>

receiver_open ==
  /\ rcvPc = "open" /\ rcvPc' = "recv"
  /\ MqOpen({"recv"}, TRUE)
  /\ UNCHANGED <<mqueue, rcvBlk>>

\* do mq_receive, buffer[MAX_MSG_SIZE] = '\0' while(rc != ERROR)
receiver_loop ==
  /\ rcvPc = "recv"
  /\ \/ /\ Dequeued
        /\ mqOpen' = IF pastEnd = "mymq" THEN mqOpen \ {"recv"} ELSE mqOpen
        /\ UNCHANGED rcvPc
     \/ "recv" \notin mqOpen /\ rcvPc' = "exit" /\ UNCHANGED <<mqueue, mqOpen, rcvBlk>>
  /\ UNCHANGED exists

\* main: the two threads are created, then joined
main_loop ==
  \/ mqMain = "start" /\ sndPc' = "open" /\ mqMain' = "createRecv" /\ UNCHANGED rcvPc
  \/ mqMain = "createRecv" /\ rcvPc' = "open" /\ mqMain' = "joinSend" /\ UNCHANGED sndPc
  \/ mqMain = "joinSend" /\ sndPc = "exit" /\ mqMain' = "joinRecv" /\ UNCHANGED <<sndPc, rcvPc>>
  \/ mqMain = "joinRecv" /\ rcvPc = "exit" /\ mqMain' = "exit" /\ UNCHANGED <<sndPc, rcvPc>>

SenderLoop ==
  /\ mqProg = "loop" /\ (sender_open \/ sender_loop)
  /\ UNCHANGED <<mqProg, rcvPc, sndBlk, rcvBlk, heap, mqFails, pastEnd, mqMain, restarts>>

ReceiverLoop ==
  /\ mqProg = "loop" /\ (receiver_open \/ receiver_loop)
  /\ UNCHANGED <<mqProg, sndPc, sndBlk, heap, mqFails, pastEnd, mqMain, restarts>>

MainLoop ==
  /\ mqProg = "loop" /\ main_loop
  /\ UNCHANGED <<mqProg, exists, mqueue, mqOpen, sndBlk, rcvBlk, heap, mqFails, pastEnd, restarts>>

-----------------------------------------------------------------------------
(* once                                                                     *)

mq_demo ==
  /\ mqMain = "start" /\ mqMain' = "running"
  /\ rcvPc' = "open" /\ sndPc' = "open"
  /\ UNCHANGED <<exists, mqueue, mqOpen, rcvBlk>>

\* mq_open(O_CREAT|O_RDWR), then one mq_receive
receiver_once ==
  /\ \/ /\ rcvPc = "open" /\ rcvPc' = "recv"
        /\ MqOpen({"recv"}, TRUE)
        /\ UNCHANGED <<mqueue, rcvBlk>>
     \/ /\ rcvPc = "recv" /\ rcvPc' = "exit"
        /\ Dequeued \/ ("recv" \notin mqOpen /\ UNCHANGED <<mqueue, rcvBlk>>)
        /\ UNCHANGED <<exists, mqOpen>>
  /\ UNCHANGED <<mqMain, sndPc>>

\* "receiver runs at a higher priority than the sender": it is blocked
ReceiverWaits ==
  rcvPc = "exit" \/ (rcvPc = "recv" /\ "recv" \in mqOpen /\ mqueue = <<>>)

\* mq_open(O_RDWR), then one mq_send
sender_once ==
  /\ ReceiverWaits
  /\ \/ /\ sndPc = "open" /\ sndPc' = "send"
        /\ MqOpen({"send"}, FALSE)
        /\ UNCHANGED mqueue
     \/ /\ sndPc = "send" /\ sndPc' = "exit"
        /\ Queued(Msg) \/ ("send" \notin mqOpen /\ UNCHANGED mqueue)
        /\ UNCHANGED <<exists, mqOpen>>
  /\ UNCHANGED <<mqMain, rcvPc, rcvBlk>>

Once ==
  /\ mqProg = "once"
  /\ mq_demo \/ receiver_once \/ sender_once
  /\ UNCHANGED <<mqProg, sndBlk, heap, mqFails, pastEnd, restarts>>

-----------------------------------------------------------------------------
MqNext == HeapNext \/ SenderLoop \/ ReceiverLoop \/ MainLoop \/ Once

MqSpec == MqInit /\ [][MqNext]_mqVars

\* a thread that is not blocked runs; the sender of loop blocks when it has
\* filled the queue, so that its higher priority starves nobody
MqFairness ==
  /\ WF_mqVars(SenderLoop) /\ WF_mqVars(ReceiverLoop) /\ WF_mqVars(MainLoop)
  /\ WF_mqVars(Once)

-----------------------------------------------------------------------------
\* what is in the queue and in the hands of the tasks, one entry for each pointer
Pointers ==
  mqueue \o (IF sndPc = "send" THEN <<sndBlk>> ELSE <<>>)
         \o (IF rcvPc = "got" THEN <<rcvBlk>> ELSE <<>>)

\* heap_mq.c never uses a block after it was freed and never frees one twice:
\* a pointer in the queue or in a task's hands is to an allocated block and is
\* the only one, wherever shutdown() struck and over the restarts after it.
PointersOwned ==
  mqProg = "heap" =>
    \A k \in 1..Len(Pointers) : Pointers[k] \in Blocks =>
      /\ Pointers[k] \in heap
      /\ \A j \in 1..Len(Pointers) : Pointers[j] = Pointers[k] => j = k

\* Until the first shutdown() no block is lost: every allocated block is in
\* the queue or in the hands of the sender or the receiver.
NoBlockLost ==
  mqProg = "heap" /\ restarts = 0 /\ mqMain = "running" /\ mqOpen # {} =>
    \A b \in heap : \E k \in 1..Len(Pointers) : Pointers[k] = b

\* The loop programs come to their end only if neither thread could open the
\* queue: a thread whose own calls do not fail waits for ever for the other.
LoopEndsIfBothFail ==
  /\ [](mqProg = "loop" /\ mqMain = "exit" => mqFails = {"send", "recv"})
  /\ (mqProg = "loop" /\ mqFails = {"send", "recv"}) => <>(mqMain = "exit")

\* posix_mq.c delivers its message although the sender opens the queue without
\* O_CREAT: the priorities make the receiver create it first.
OnceDelivered ==
  (mqProg = "once" /\ mqFails = {}) => <>(rcvPc = "exit" /\ rcvBlk = Msg)

=============================================================================
