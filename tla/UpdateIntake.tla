---------------------------- MODULE UpdateIntake ----------------------------
(***************************************************************************)
(* What the collection pipeline promises about one connection, whatever    *)
(* its workers, its faults and its administrators do: published updates    *)
(* are settled one after the other, a settled update stays settled, and    *)
(* the mark the provider is asked to continue from only ever stands on an  *)
(* update that is settled together with all updates before it.             *)
(***************************************************************************)
EXTENDS Integers

VARIABLES
    published,   \* number of updates the provider has published
    settled,     \* updates that have been recorded, answered or ignored
    mark         \* the update the next poll continues after

intakeVars == <<published, settled, mark>>

Init ==
    /\ published = 0
    /\ settled = {}
    /\ mark = 0

\* A new update; it is settled at once when it repeats a recorded one.
Publish ==
    /\ published' = published + 1
    /\ settled' \in {settled, settled \cup {published + 1}}
    /\ UNCHANGED mark

\* An update u is settled, and with it the published updates S that repeat
\* it; the mark moves onto u in the same step.
Settle ==
    \E S \in SUBSET (1..published) : \E u \in S :
        /\ settled' = settled \cup S
        /\ mark' = u
        /\ 1..u \subseteq settled'
        /\ UNCHANGED published

Next == Publish \/ Settle

Spec == Init /\ [][Next]_intakeVars
=============================================================================
