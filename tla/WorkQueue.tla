------------------------------ MODULE WorkQueue ------------------------------
(* The queue of Zephyr's system workqueue, as the firmware uses it. *)
EXTENDS Integers, Sequences

\* k_work_submit: a work that is already queued stays where it is.
Submit(queue, work) ==
    IF \E i \in DOMAIN queue : queue[i] = work THEN queue ELSE Append(queue, work)

\* k_work_cancel: a work that is queued, which it is once, is taken out.
Withdraw(queue, work) ==
    IF \E i \in DOMAIN queue : queue[i] = work
    THEN LET at == CHOOSE i \in DOMAIN queue : queue[i] = work
         IN  SubSeq(queue, 1, at - 1) \o SubSeq(queue, at + 1, Len(queue))
    ELSE queue
=============================================================================
