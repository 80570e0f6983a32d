---------------------------- MODULE AuditLedger ----------------------------
(***************************************************************************)
(* What the audit sink (control_center/audit.py) promises whoever reads it *)
(* back: a trail that grows at its end and is forgotten from its           *)
(* beginning, whose order never changes. A write that fails half-way       *)
(* leaves a fragment at the end; the line that is then written behind it   *)
(* is lost in it.                                                          *)
(***************************************************************************)
EXTENDS Naturals, Sequences

CONSTANTS
    Record,  \* audit records
    Torn,    \* a fragment without a newline
    Junk     \* a line that is no record

VARIABLE trail  \* the lines, the oldest first

Init == trail = <<>>

Add(line) == trail' = Append(trail, line)

Spoil ==
    /\ trail # <<>>
    /\ trail[Len(trail)] = Torn
    /\ trail' = [trail EXCEPT ![Len(trail)] = Junk]

Forget(n) == trail' = SubSeq(trail, n + 1, Len(trail))

Next ==
    \/ \E line \in Record \cup {Torn} : Add(line)
    \/ Spoil
    \/ \E n \in 1..Len(trail) : Forget(n)

Spec == Init /\ [][Next]_trail
=============================================================================
