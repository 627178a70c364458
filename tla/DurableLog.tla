----------------------------- MODULE DurableLog -----------------------------
(***************************************************************************)
(* What the event log promises to those who append, without bytes, windows *)
(* or a disk: it keeps whole events in the order in which they were        *)
(* appended, and loses only the latest ones, and of these none whose       *)
(* append succeeded.  EventLog implements this.                            *)
(***************************************************************************)
EXTENDS Naturals

CONSTANT Events  \* natural numbers, in the order of the appends

VARIABLES
  kept,   \* events in the log; a later append has a greater number
  acked   \* events whose append succeeded

vars == <<kept, acked>>

Init == kept = {} /\ acked = {}

Append(e) ==
  /\ \A k \in kept : k < e
  /\ kept' = kept \cup {e}
  /\ UNCHANGED acked

\* Only the latest event is acknowledged: one writer, which waits for the disk.
Acknowledge(e) ==
  /\ e \in kept /\ \A k \in kept : k <= e
  /\ acked' = acked \cup {e}
  /\ UNCHANGED kept

Lose ==
  /\ \E lost \in SUBSET (kept \ acked) :
       /\ \A e \in lost, k \in kept \ lost : k < e
       /\ kept' = kept \ lost
  /\ UNCHANGED acked

Next == (\E e \in Events : Append(e) \/ Acknowledge(e)) \/ Lose

Spec == Init /\ [][Next]_vars

-----------------------------------------------------------------------------
\* An acknowledged event is in the log.
AckedIsKept == acked \subseteq kept
=============================================================================
