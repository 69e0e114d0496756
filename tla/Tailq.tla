---- MODULE Tailq ----
(***************************************************************************)
(* The tail queues of <sys/queue.h>, with their pointers.  The code puts   *)
(* one entry on two queues, removes entries that are on none and leaves    *)
(* freed entries where they are, so what a queue then holds is a question  *)
(* of pointers.                                                            *)
(*                                                                         *)
(* Entries are 1 .. n.  A cell holds an entry or 0: cell x is the next of  *)
(* entry x, cell n + h the first of queue h.  prev[x] and last[h] are      *)
(* cells, and 0 is the null pointer.                                       *)
(***************************************************************************)
EXTENDS Integers, Sequences

TAILQ_INIT(n, heads) ==
  [n |-> n, cell |-> [c \in 1 .. n + heads |-> 0], prev |-> [x \in 1 .. n |-> 0],
   last |-> [h \in 1 .. heads |-> n + h], null |-> FALSE]

TAILQ_FIRST(q, h) == q.cell[q.n + h]
TAILQ_EMPTY(q, h) == TAILQ_FIRST(q, h) = 0
TAILQ_NEXT(q, x) == q.cell[x]

\* memset of an entry
Cleared(q, x) == [q EXCEPT !.cell[x] = 0, !.prev[x] = 0]

\* Removing what was never inserted writes through the null pointer.
TAILQ_REMOVE(q, h, x) ==
  LET y == q.cell[x]
      q1 == IF y # 0 THEN [q EXCEPT !.prev[y] = q.prev[x]] ELSE [q EXCEPT !.last[h] = q.prev[x]]
  IN  IF q.prev[x] = 0 THEN [q EXCEPT !.null = TRUE] ELSE [q1 EXCEPT !.cell[q.prev[x]] = y]

TAILQ_INSERT_TAIL(q, h, x) ==
  [q EXCEPT !.cell = [[@ EXCEPT ![x] = 0] EXCEPT ![q.last[h]] = x], !.prev[x] = q.last[h], !.last[h] = x]

TAILQ_INSERT_HEAD(q, h, x) ==
  LET y == TAILQ_FIRST(q, h)
      q1 == [q EXCEPT !.cell[x] = y]
      q2 == IF y # 0 THEN [q1 EXCEPT !.prev[y] = x] ELSE [q1 EXCEPT !.last[h] = x]
  IN  [q2 EXCEPT !.cell[q.n + h] = x, !.prev[x] = q.n + h]

TAILQ_MOVE_HEAD(q, x, src, dst) == TAILQ_INSERT_HEAD(TAILQ_REMOVE(q, src, x), dst, x)

\* The entries from x on, as far as they are followed: a queue with a loop in it
\* gives more than n.
RECURSIVE Walk(_, _, _)
Walk(q, x, k) == IF x = 0 \/ k = 0 THEN <<>> ELSE <<x>> \o Walk(q, q.cell[x], k - 1)
TAILQ_FOREACH(q, h) == Walk(q, TAILQ_FIRST(q, h), q.n + 1)
====
