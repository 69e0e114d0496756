----------------------------- MODULE MCTdQueue -----------------------------
(* TdQueue with three tiocbs in three settings, which part tells apart.     *)
(* "cancel" has the constants of the configuration: io_submit may fail, and *)
(* nothing is deferred.  In the others it does not fail, and callbacks may  *)
(* queue their own tiocb again: "defer" has room for two tiocbs, which are  *)
(* merged while another is deferred, "live" for one, so that tiocbs are     *)
(* deferred behind each other.                                              *)
EXTENDS TdQueue

VARIABLE part

Defer == INSTANCE TdQueue WITH Size <- 2, MayFail <- FALSE, Reuse <- TRUE
Live  == INSTANCE TdQueue WITH Size <- 1, MayFail <- FALSE, Reuse <- TRUE,
                               Positions <- {0}

QueueInit == Init /\ part \in {"cancel", "defer", "live"}

QueueNext ==
    /\ UNCHANGED part
    /\ \/ part = "cancel" /\ Next
       \/ part = "defer" /\ Defer!Next
       \/ part = "live" /\ Live!Next

(* Drained is asked of "live" only, and so is fairness.                     *)
QueueSpec ==
    /\ QueueInit /\ [][QueueNext]_<<part, vars>>
    /\ part = "live" => Live!Fairness

(* With less room the arrays do not overflow either (NoOverflow), and        *)
(* without failures every tiocb comes back once drivers queue no more, also *)
(* those deferred behind each other (Drained).                              *)
DeferredDrained ==
    /\ [](part = "defer" => Defer!NoOverflow)
    /\ [](part = "live" => Live!NoOverflow)
    /\ part = "live" => Drained
=============================================================================
