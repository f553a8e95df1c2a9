----------------------------- MODULE SlaveMailbox -----------------------------
(***************************************************************************)
(* How the slave's keys get from the SplitLink works of the master to its  *)
(* kb_handler thread (kb_handler_splitlink_master_adapter.c): a mailbox    *)
(* with room for the newest values, the flags slave_values_msg_pending and *)
(* slave_values_dirty, and a message queue that also carries resets.       *)
(*                                                                         *)
(* Works are atomic with respect to one another and preempt the thread     *)
(* between any two of its steps.  Version n stands for the slave's values  *)
(* after their n-th change; 0 is "every key is up", which is also what a   *)
(* reset leaves behind.                                                    *)
(***************************************************************************)
EXTENDS Integers, WorkQueue

CONSTANTS
    Drained,        \* some hook calls drain_thread_msgs from the thread
    QueueSize,      \* CONFIG_KB_HANDLER_MSGQ_SIZE
    MaxVersion,     \* bound: changes of the slave's values
    MaxDrops        \* bound: how often the connection is lost

ASSUME MailboxAssumption ==
    /\ Drained \in BOOLEAN
    /\ {QueueSize, MaxVersion} \subseteq Nat \ {0}
    /\ MaxDrops \in Nat

VARIABLES
    slave,       \* the slave's values
    link, drops, \* the connection is up; how often it was lost
    inbox,       \* rx_msgq: the packet of values it holds, or -1
    slot,        \* what the values rx_slot last completed
    works,       \* works queued on the system workqueue
    latest,      \* latest_slave_values
    msgPending,  \* slave_values_msg_pending
    dirty,       \* slave_values_dirty
    retry,       \* slave_values_retry_work is scheduled
    queue,       \* kbh_core_msgq
    thread,      \* where the thread is in handle_thread_msg
    copy,        \* slave_values, its copy
    keys         \* the slave's part of the thread's keys

linkVars == <<slave, link, drops, inbox, slot, works>>
boxVars  == <<latest, msgPending, dirty, retry, queue>>
kbVars   == <<thread, copy, keys>>
mailboxVars == <<linkVars, boxVars, kbVars>>

MailboxInit ==
    /\ slave = 0 /\ link = FALSE /\ drops = 0
    /\ inbox = -1 /\ slot = 0 /\ works = <<>>
    /\ latest = 0 /\ msgPending = FALSE /\ dirty = FALSE /\ retry = FALSE
    /\ queue = <<>>
    /\ thread = "idle" /\ copy = 0 /\ keys = 0

-----------------------------------------------------------------------------
(* The connection, as the slave and the SplitLink transport use it *)

SlaveMoves ==
    /\ slave < MaxVersion
    /\ slave' = slave + 1
    /\ UNCHANGED <<link, drops, inbox, slot, works, boxVars, kbVars>>

LinkUp ==
    /\ ~link /\ works = <<>>
    /\ link' = TRUE
    /\ UNCHANGED <<slave, drops, inbox, slot, works, boxVars, kbVars>>

LinkDown ==
    /\ link /\ drops < MaxDrops
    /\ link' = FALSE /\ drops' = drops + 1
    /\ works' = Submit(works, "disconnect")
    /\ UNCHANGED <<slave, inbox, slot, boxVars, kbVars>>

\* splitlink_bt_queue_rx; the slave sends its values frame by frame.
Arrive ==
    /\ link /\ inbox = -1
    /\ inbox' = slave
    /\ works' = Submit(works, "rx")
    /\ UNCHANGED <<slave, link, drops, slot, boxVars, kbVars>>

-----------------------------------------------------------------------------
(* The works *)

Runs(work) == works # <<>> /\ Head(works) = work

\* The packet completes the rx_slot, or is skipped while the slot is READY.
RxWork ==
    /\ Runs("rx")
    /\ inbox' = -1
    /\ works' = Submit(Tail(works), "values")
    /\ slot' = IF \E i \in DOMAIN works : works[i] = "values" THEN slot ELSE inbox
    /\ UNCHANGED <<slave, link, drops, boxVars, kbVars>>

Enqueue ==
    IF Len(queue) < QueueSize
    THEN queue' = Append(queue, "VALUES") /\ UNCHANGED retry
    ELSE retry' = TRUE /\ UNCHANGED queue

\* Faulty variants: dirty is not set when a message is on its way; the message
\* is queued each time; the work hands the values over itself.
DirtyOnlyFirst ==
    /\ Runs("values")
    /\ works' = Tail(works)
    /\ latest' = slot
    /\ IF msgPending THEN UNCHANGED <<msgPending, dirty, retry, queue>>
       ELSE msgPending' = TRUE /\ dirty' = TRUE /\ Enqueue
    /\ UNCHANGED <<slave, link, drops, inbox, slot, kbVars>>

AlwaysEnqueues ==
    /\ Runs("values")
    /\ works' = Tail(works)
    /\ latest' = slot
    /\ dirty' = TRUE /\ msgPending' = TRUE
    /\ Enqueue
    /\ UNCHANGED <<slave, link, drops, inbox, slot, kbVars>>

HandsOver ==
    /\ Runs("values")
    /\ works' = Tail(works)
    /\ latest' = slot /\ keys' = slot
    /\ dirty' = TRUE /\ msgPending' = TRUE
    /\ IF msgPending THEN UNCHANGED <<retry, queue>> ELSE Enqueue
    /\ UNCHANGED <<slave, link, drops, inbox, slot, thread, copy>>

\* kb_handler_core_handle_slave_values
ValuesWork ==
    /\ Runs("values")
    /\ works' = Tail(works)
    /\ latest' = slot
    /\ dirty' = TRUE
    /\ msgPending' = TRUE
    /\ IF msgPending THEN UNCHANGED <<retry, queue>> ELSE Enqueue
    /\ UNCHANGED <<slave, link, drops, inbox, slot, kbVars>>

\* kb_handler_core_handle_slave_reset: dropped when the queue is full.
DisconnectWork ==
    /\ Runs("disconnect")
    /\ works' = Tail(works)
    /\ queue' = IF Len(queue) < QueueSize THEN Append(queue, "RESET") ELSE queue
    /\ UNCHANGED <<slave, link, drops, inbox, slot, latest, msgPending, dirty,
                   retry, kbVars>>

\* Faulty variant: it tries once.
RetryOnce ==
    /\ retry
    /\ IF msgPending /\ Len(queue) < QueueSize
       THEN queue' = Append(queue, "VALUES") ELSE UNCHANGED queue
    /\ retry' = FALSE
    /\ UNCHANGED <<linkVars, latest, msgPending, dirty, kbVars>>

\* slave_values_retry_work_handler: a full queue schedules the work again.
RetryWork ==
    /\ retry
    /\ IF msgPending /\ Len(queue) < QueueSize
       THEN queue' = Append(queue, "VALUES") ELSE UNCHANGED queue
    /\ retry' = (msgPending /\ Len(queue) = QueueSize)
    /\ UNCHANGED <<linkVars, latest, msgPending, dirty, kbVars>>

-----------------------------------------------------------------------------
(* The thread: drain_thread_msgs *)

TakeMessage(message) ==
    /\ Drained
    /\ thread = "idle" /\ queue # <<>> /\ Head(queue) = message
    /\ queue' = Tail(queue)
    /\ UNCHANGED <<linkVars, latest, msgPending, dirty, retry>>

TakeReset == TakeMessage("RESET") /\ keys' = 0 /\ UNCHANGED <<thread, copy>>

TakeValues ==
    TakeMessage("VALUES") /\ thread' = "clear" /\ UNCHANGED <<copy, keys>>

ThreadStep(from, to) ==
    thread = from /\ thread' = to /\ UNCHANGED linkVars

ClearDirty ==
    /\ ThreadStep("clear", "copy")
    /\ dirty' = FALSE
    /\ UNCHANGED <<latest, msgPending, retry, queue, copy, keys>>

CopyLatest ==
    /\ ThreadStep("copy", "handle")
    /\ copy' = latest
    /\ UNCHANGED <<boxVars, keys>>

HandleValues ==
    /\ ThreadStep("handle", "release")
    /\ keys' = copy
    /\ UNCHANGED <<boxVars, copy>>

ReleasePending ==
    /\ ThreadStep("release", "check")
    /\ msgPending' = FALSE
    /\ UNCHANGED <<latest, dirty, retry, queue, copy, keys>>

\* Values that came meanwhile, and whose work did not find the flag cleared.
CheckDirty ==
    /\ thread = "check" /\ UNCHANGED linkVars
    /\ msgPending' = (msgPending \/ dirty)
    /\ thread' = IF dirty /\ ~msgPending THEN "put" ELSE "idle"
    /\ UNCHANGED <<latest, dirty, retry, queue, copy, keys>>

PutAgain ==
    /\ ThreadStep("put", "idle")
    /\ Enqueue
    /\ UNCHANGED <<latest, msgPending, dirty, copy, keys>>

Work   == RxWork \/ ValuesWork \/ DisconnectWork
Thread == TakeReset \/ TakeValues \/ ClearDirty \/ CopyLatest \/ HandleValues
              \/ ReleasePending \/ CheckDirty \/ PutAgain

MailboxNext == SlaveMoves \/ LinkUp \/ LinkDown \/ Arrive \/ Work \/ RetryWork \/ Thread

MailboxSpec == MailboxInit /\ [][MailboxNext]_mailboxVars

(* The thread and the workqueue go on, the radio delivers and the halves   *)
(* reconnect.  The thread has the lower priority but frames are at least a *)
(* connection interval apart.                                              *)
FairSpec ==
    /\ MailboxSpec
    /\ WF_mailboxVars(LinkUp) /\ WF_mailboxVars(Arrive)
    /\ WF_mailboxVars(Work) /\ WF_mailboxVars(RetryWork)
    /\ WF_mailboxVars(Thread)

-----------------------------------------------------------------------------
ThreadStates == {"idle", "clear", "copy", "handle", "release", "check", "put"}

MailboxTypeOK ==
    /\ slave \in 0 .. MaxVersion /\ drops \in 0 .. MaxDrops
    /\ inbox \in -1 .. MaxVersion
    /\ Len(works) <= 3
    /\ {slot, latest, copy, keys} \subseteq 0 .. MaxVersion
    /\ {link, msgPending, dirty, retry} \subseteq BOOLEAN
    /\ Len(queue) <= QueueSize
    /\ thread \in ThreadStates

(* The message that stands for new values is in one place at a time, and   *)
(* slave_values_msg_pending says whether there is one: queued, waiting for *)
(* the retry work, or in the hands of the thread.  Otherwise a flag left   *)
(* set would silence the slave's keys, or messages would fill the queue.   *)
QueuedValues == {i \in DOMAIN queue : queue[i] = "VALUES"}

InHand == thread \in {"clear", "copy", "handle", "release", "put"}

OneMessage ==
    /\ \A i, j \in QueuedValues : i = j
    /\ ~(QueuedValues # {} /\ retry)
    /\ ~(InHand /\ (retry \/ QueuedValues # {}))
    /\ msgPending <=> (InHand \/ retry \/ QueuedValues # {})

(* Values the thread has not seen are never forgotten: the message that    *)
(* makes it look is on its way (slave_values_dirty is cleared before the   *)
(* copy and read after slave_values_msg_pending is cleared).               *)
NothingForgotten == latest # copy => msgPending \/ thread = "check"

(* Every news has one message that announces it.                            *)
NewsIsAnnounced == OneMessage /\ NothingForgotten

(* The keys only ever go forward or, on a reset, up.                       *)
KeysNeverGoBack == [][keys' >= keys \/ keys' = 0]_keys

(* The master follows the slave: when the slave's keys rest and the        *)
(* connection stays, the thread ends up with them.                         *)
KeysFollowSlave == <>[](keys = slave)
=============================================================================
