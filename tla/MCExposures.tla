---------------------------- MODULE MCExposures ----------------------------
(***************************************************************************)
(* Instances of Exposures for TLC.                                         *)
(***************************************************************************)
EXTENDS Exposures, TLC

CONSTANTS e1, p1, p2, h1, d1

First  == [type |-> "credential_exposure", email |-> e1, what |-> p1]
Second == [type |-> "credential_exposure", email |-> e1, what |-> p2]
Person == [type |-> "identity_exposure", email |-> e1, what |-> NoRow]

AllRecords == {First, Second, Person}
SomeFiles ==
    {<<First, Second, First>>, <<Person, First, Person>>, <<Person, Person>>, <<Second, Bad>>}

SomeTriages == {[status |-> "false_positive", doubt |-> 10],
                [status |-> "confirmed", doubt |-> 0]}

\* A tenant at work: an asset was monitored, an intake reported it, and the
\* asset became critical afterwards, by create_asset, intake_finding and
\* update_asset.
Reported ==
    [id |-> 2, status |-> "new", doubt |-> 4, asset |-> 1, ingest |-> NoRow,
     score |-> 54, detail |-> [sightings |-> 1, breakdown |-> 54,
                               surface |-> NoRow]]
Established ==
    [Tables EXCEPT
        !.assets[1] = [id |-> 1, email |-> e1, criticality |-> "critical"],
        !.findings[dedup_key(Person)] = Reported]

MCInit == Start(Tables, 1, {}) \/ Start(Established, 2, {})
MCSpec == MCInit /\ [][Next]_vars

SlotSymmetry == Permutations(Slots)
=============================================================================
