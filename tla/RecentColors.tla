---------------------------- MODULE RecentColors ----------------------------
(***************************************************************************)
(* What the colour cache promises: a bounded list of colours, the latest    *)
(* first.  The first `touched` of them were used in the current block of    *)
(* pixels; when it ends the others are forgotten.                           *)
(***************************************************************************)
EXTENDS Naturals, Sequences, SequencesExt

CONSTANTS Colors, Slots
VARIABLES recent, touched

Lower(a, b) == IF a < b THEN a ELSE b

Init == recent = <<>> /\ touched = 0

\* The list and the mark after a pixel; at the end of a block it is cut.
After(list, t) ==
  \/ recent' = list /\ touched' = t
  \/ recent' = SubSeq(list, 1, t) /\ touched' = 0

Again == \E i \in DOMAIN recent :
  After(<<recent[i]>> \o RemoveAt(recent, i), IF i > touched THEN touched + 1 ELSE touched)

New == \E c \in Colors \ Range(recent) :
  After(SubSeq(<<c>> \o recent, 1, Lower(Slots, Len(recent) + 1)),
        Lower(Slots, touched + 1))

Forget == recent' = <<>> /\ touched' = 0

Spec == Init /\ [][Again \/ New \/ Forget]_<<recent, touched>>
=============================================================================
