--------------------------- MODULE MCThreatIntel ---------------------------
(***************************************************************************)
(* Instances of ThreatIntel for TLC.                                       *)
(***************************************************************************)
EXTENDS ThreatIntel, TLC

CONSTANTS v1, u1, misp, lower, upper, mixed

CveAndUrl == v1 :> "cve" @@ u1 :> "url"
UrlOnly   == u1 :> "url"
NoKinds   == [o \in {} |-> "url"]

\* The feed lists the CVE, first without and then with ransomware, or not.
SomeFeeds == {[c \in {v1} |-> FALSE], [c \in {v1} |-> TRUE], [c \in {} |-> FALSE]}
NoFeeds   == {}

\* A connection of three saves: with the secret, and then left blank under the
\* two other spellings.  Two saves that fill in a blank each may now overlap.
Given(spelling, present) == [spelling |-> spelling, present |-> present]
Respelt ==
    [Tables EXCEPT
        !.integration_connections[misp] =
            [id |-> 1, enabled |-> TRUE,
             secrets_metadata |-> <<Given(lower, TRUE), Given(upper, FALSE),
                                    Given(mixed, FALSE)>>]]

Start(tables, requests) ==
    db = tables /\ slot = [r \in Slots |-> Idle] /\ served = requests

MCInit == Start(Tables, 1) \/ Start(Respelt, 3)
MCSpec == MCInit /\ [][Next]_vars

SlotSymmetry == Permutations(Slots)
=============================================================================
