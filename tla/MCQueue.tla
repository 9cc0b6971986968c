------------------------------ MODULE MCQueue ------------------------------
(* Queue for TLC. *)
EXTENDS Queue, TLC

MCConds == {"not_empty", "not_full", "all_tasks_done"}
MCLockOf == [c \in MCConds |-> "mutex"]

MCQueues ==
    {[order |-> "fifo", maxsize |-> 1], [order |-> "lifo", maxsize |-> 0], [order |-> "priority", maxsize |-> 0]}

\* Every call of the bounded queue; the others differ from it in their order only.
MCRequests(q) ==
    CASE q.order = "fifo" ->
            [op : {"put"}, item : {1, 2}, mode : {"forever"}]
                \cup [op : {"put"}, item : {1}, mode : {"timed", "negative"}]
                \cup [op : {"get"}, mode : {"forever", "timed", "now"}]
                \cup [op : {"task_done", "join"}]
      [] q.order = "lifo" ->
            [op : {"put"}, item : {1, 2}, mode : {"forever"}] \cup [op : {"get"}, mode : {"timed"}]
      [] q.order = "priority" ->
            [op : {"put"}, item : {1, 2, 3}, mode : {"negative"}] \cup [op : {"get"}, mode : {"now", "negative"}]

MCMaxUnfinished(q) == CASE q.order = "fifo" -> 2 [] q.order = "lifo" -> 3 [] q.order = "priority" -> 4
=============================================================================
