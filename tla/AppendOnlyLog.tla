--------------------------- MODULE AppendOnlyLog ---------------------------
(***************************************************************************)
(* What an evidence table promises: entries are only ever added at the     *)
(* end, an entry with the key of an earlier one is not added at all, and   *)
(* the only way to lose entries is a power loss, which takes the latest    *)
(* ones and none that reached the disk.                                    *)
(***************************************************************************)
EXTENDS Naturals, Sequences

CONSTANTS
  Entry,       \* what may be recorded
  Same(_, _)   \* whether two entries are one finding

VARIABLES
  log,   \* the entries, oldest first
  kept   \* how many of them are on disk

Init == log \in Seq(Entry) /\ kept = Len(log)

Record(e) ==
  /\ \A i \in DOMAIN log : ~Same(log[i], e)
  /\ log' = Append(log, e)
  /\ UNCHANGED kept

Sync == kept' = Len(log) /\ UNCHANGED log

LosePower ==
  /\ \E n \in kept .. Len(log) : log' = SubSeq(log, 1, n)
  /\ kept' = Len(log')

Next == (\E e \in Entry : Record(e)) \/ Sync \/ LosePower

Spec == Init /\ [][Next]_<<log, kept>>
=============================================================================
