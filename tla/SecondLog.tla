----------------------------- MODULE SecondLog -----------------------------
(***************************************************************************)
(* What the metric log promises its readers, whatever files it is cut      *)
(* into: a log of lines that only grows at its end, by lines of one second *)
(* that is not older than any line written before, none of them written    *)
(* before, and that only ever forgets its oldest lines.                    *)
(***************************************************************************)
EXTENDS Naturals, Sequences

VARIABLES
  log,      \* the lines that can still be read, oldest first
  written   \* every line ever appended

Init == log = <<>> /\ written = {}

\* The oldest d lines go, those from the second part of log' on are new.
Kept(d) == SubSeq(log, d + 1, Len(log))
Added(d) == {log'[i] : i \in (Len(log) - d + 1) .. Len(log')}

Step ==
  \E d \in 0 .. Len(log) :
     /\ Len(log') >= Len(log) - d
     /\ SubSeq(log', 1, Len(log) - d) = Kept(d)
     /\ Added(d) \cap written = {}
     /\ \A l, k \in Added(d) : l.second = k.second
     /\ \A l \in Added(d), k \in written : k.second <= l.second
     /\ written' = written \cup Added(d)

Spec == Init /\ [][Step]_<<log, written>>
=============================================================================
