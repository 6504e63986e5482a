-------------------------------- MODULE LogView --------------------------------
(***************************************************************************)
(* What the live log of a deployment promises to those who look at it, with *)
(* nothing of how it is kept: LogStream implements this.                    *)
(*                                                                          *)
(* A screen grows by the entry that follows, or starts anew.  The beginning *)
(* may be missing when the screen says so.  What may go wrong on the way is *)
(* known by name, and lifts a part of the promise.                          *)
(***************************************************************************)
EXTENDS Integers, Sequences

CONSTANT Browsers

VARIABLES
    written,    \* chunks of the log
    settled,    \* the deployment is over
    view,       \* what each browser shows
    marred      \* what happened that may lose an entry

vars == <<written, settled, view, marred>>

Causes == {"overlap", "lost", "quiet"}

View == [screen : Seq(Nat), gone : BOOLEAN, ended : BOOLEAN]
Dark == [screen |-> <<>>, gone |-> FALSE, ended |-> FALSE]

Write ==
    /\ ~settled
    /\ written' = written + 1
    /\ UNCHANGED <<settled, view, marred>>

Settle ==
    /\ ~settled
    /\ settled' = TRUE
    /\ UNCHANGED <<written, view, marred>>

Mar ==
    /\ marred' \in SUBSET Causes
    /\ marred \subseteq marred'
    /\ UNCHANGED <<written, settled, view>>

Shown(s) == IF s = <<>> THEN 0 ELSE s[Len(s)]

\* The next entry, and no other while nothing went wrong; never one that is
\* there already, unless the entries were counted from 1 again.
Follow(b) ==
    LET v == view[b] IN
    \E n \in 1..written :
        /\ ~v.ended
        /\ marred = {} => n = Shown(v.screen) + 1 \/ (v.screen = <<>> /\ v.gone)
        /\ "quiet" \notin marred => n > Shown(v.screen)
        /\ view' = [view EXCEPT ![b].screen = Append(@, n)]
        /\ UNCHANGED <<written, settled, marred>>

\* The screen is cleared, for what follows to fill it from the start.
Reset(b) ==
    /\ ~view[b].ended
    /\ view' = [view EXCEPT ![b] = Dark]
    /\ UNCHANGED <<written, settled, marred>>

\* A notice says that the beginning is not to be had any more.
Omit(b) ==
    /\ ~view[b].ended
    /\ view[b].screen = <<>>
    /\ view' = [view EXCEPT ![b].gone = TRUE]
    /\ UNCHANGED <<written, settled, marred>>

\* The whole log of a deployment that is over.
Unroll(b) ==
    /\ settled
    /\ ~view[b].ended
    /\ view[b].screen = <<>>
    /\ view' = [view EXCEPT ![b].screen = [i \in 1..written |-> i]]
    /\ UNCHANGED <<written, settled, marred>>

\* Nobody is told the end of a deployment that goes on.
End(b) ==
    /\ settled
    /\ view' = [view EXCEPT ![b].ended = TRUE]
    /\ UNCHANGED <<written, settled, marred>>

Init ==
    /\ written = 0
    /\ settled = FALSE
    /\ view = [b \in Browsers |-> Dark]
    /\ marred = {}

Next ==
    \/ Write \/ Settle \/ Mar
    \/ \E b \in Browsers : Follow(b) \/ Reset(b) \/ Omit(b) \/ Unroll(b) \/ End(b)

Spec == Init /\ [][Next]_vars

-----------------------------------------------------------------------------
TypeOK ==
    /\ written \in Nat
    /\ settled \in BOOLEAN
    /\ view \in [Browsers -> View]
    /\ marred \subseteq Causes

\* A screen is in the order of the log, and shows nothing twice, unless the
\* entries were counted from 1 again under it.
Increasing(s) == \A i, j \in 1..Len(s) : i < j => s[i] < s[j]
Ordered == "quiet" \notin marred => \A b \in Browsers : Increasing(view[b].screen)

\* Nothing is missing on a screen but a beginning it says is gone, while
\* nothing went wrong on the way.
Consecutive(s) == \A i \in 1..(Len(s) - 1) : s[i + 1] = s[i] + 1
Whole ==
    marred = {} => \A b \in Browsers :
        LET s == view[b].screen
        IN  Consecutive(s) /\ (s # <<>> => s[1] = 1 \/ view[b].gone)
================================================================================
