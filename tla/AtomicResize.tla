---- MODULE AtomicResize ----
(***************************************************************************)
(* What vhd-util resize and vhd-util revert promise together: whatever     *)
(* happens to the tools, a vhd that can be used holds either everything it *)
(* held before the resize or everything the resize was asked for.  Between *)
(* the two it is Undo: disabled, or still to be put back by its journal.   *)
(***************************************************************************)
CONSTANTS
  Contents,        \* what a vhd can hold
  Undo,            \* the vhd is not to be used
  Resized(_, _)    \* Resized(c, d): d is c with another virtual size
VARIABLES
  disk,            \* what a user of the vhd finds
  saved            \* what it held when the last resize began

Init == disk \in Contents /\ saved = disk

Begin == disk # Undo /\ disk' = Undo /\ saved' = disk

Undone == disk = Undo /\ disk' = saved /\ UNCHANGED saved

Done == disk = Undo /\ disk' # Undo /\ Resized(saved, disk') /\ UNCHANGED saved

\* A resize that changes nothing a user sees yet.
Again == disk # Undo /\ saved' = disk /\ UNCHANGED disk

\* The journal of a resize that is still there is reverted.
Reopen == disk # Undo /\ disk' = Undo /\ UNCHANGED saved

Next == Begin \/ Undone \/ Done \/ Again \/ Reopen

Spec == Init /\ [][Next]_<<disk, saved>>
====
