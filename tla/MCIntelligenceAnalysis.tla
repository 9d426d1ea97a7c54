----------------------- MODULE MCIntelligenceAnalysis -----------------------
(***************************************************************************)
(* Instances of IntelligenceAnalysis for TLC.                              *)
(***************************************************************************)
EXTENDS IntelligenceAnalysis, TLC

CONSTANTS k1, k2, brand

WorkerSymmetry == Permutations(Workers)

\* The first events belong to one tenant, the last one to another.
LastApart == [e \in Events |-> IF e = MaxEvent THEN NumTenants ELSE 1]
OneTenant == [e \in Events |-> 1]

\* Every earlier event of the tenant is in the window.
EarlierContext ==
    [e \in Events |-> {d \in 1..(e - 1) : TenantOf[d] = TenantOf[e]}]

\* Two days of findings about the same brand.
SameBrand == [k \in Keys |-> brand]

Result(decision, k, f, c) ==
    [decision |-> decision, key |-> k, finding |-> f, case |-> c]

Noise == Result("other", NoKey, FALSE, FALSE)
Mention(k) == Result("linkable", k, FALSE, FALSE)
Exposure(k) == Result("linkable", k, TRUE, FALSE)
Threat(k) == Result("other", k, TRUE, TRUE)

\* Mentions to link, findings of one day and threats of the next.
TwoDays == {Mention(k1), Exposure(k1), Threat(k2)}
Promotions == {Noise, Exposure(k1), Threat(k1)}
=============================================================================
