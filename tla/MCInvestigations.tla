-------------------------- MODULE MCInvestigations --------------------------
(***************************************************************************)
(* Instances of Investigations for TLC.                                    *)
(***************************************************************************)
EXTENDS Investigations, TLC

CONSTANTS d1, own, u1

Quiet ==
    [similarity |-> 80, lure |-> TRUE, resolves |-> TRUE, mx |-> FALSE,
     age_days |-> Unset, cert_age_days |-> Unset, urlhaus_listed |-> FALSE,
     parked |-> FALSE]

\* The same domain parked while it is new, and listed once it is used.
Parked  == [Quiet EXCEPT !.age_days = 30, !.cert_age_days = 7, !.parked = TRUE]
Listed  == [Quiet EXCEPT !.urlhaus_listed = TRUE]
SeenAs  == {Parked, Listed}

OwnOrBoth == {{own}, {own, d1}}

Body(assignee, status) == [assignee |-> assignee, status |-> status]
SomePatches ==
    {Body(Unset, "contained"), Body(Unset, "closed"), Body(u1, "open")}

\* A tenant at work: create_brand, a scan that found a parked domain, and a
\* case opened from it and closed.
Found(verdict) ==
    [id |-> 2, brand |-> 1, verdict |-> verdict, status |-> "new", alerted |-> FALSE]
Monitored(verdict) ==
    [Tables EXCEPT
        !.brands[1] = [id |-> 1, status |-> "active", official |-> {own}],
        !.findings[<<1, d1>>] = Found(verdict)]
Investigating(status) ==
    [Monitored("low") EXCEPT
        !.cases[3] = [id |-> 3, brand |-> 1, finding |-> <<1, d1>>,
                      snapshot |-> <<<<1, d1>>, 2>>, status |-> status,
                      closed_at |-> status \in TERMINAL, assignee |-> NoRow]]

MCInit ==
    \/ Start(Tables, 3, {})
    \/ \E status \in {"open", "closed"} : Start(Investigating(status), 3, {})
MCSpec == MCInit /\ [][Next]_vars

SlotSymmetry == Permutations(Slots)
=============================================================================
