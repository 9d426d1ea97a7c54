------------------------- MODULE MCCollectionIngest -------------------------
(***************************************************************************)
(* Instances of CollectionIngest for TLC.                                  *)
(***************************************************************************)
EXTENDS CollectionIngest, TLC

CONSTANTS c1, c2, s1, s2, r1

\* One chat whose source row is deleted and created again.
SameChatRef == s1 :> c1 @@ s2 :> c1
OneSourceRef == s1 :> c1

OneRequest == r1 :> s1
NoRequests == [r \in {} |-> s1]

\* The provider of the repository's tests: external_id is the update_id.
UpdateIdAsExternalId == [u \in 1..MaxUpdate |-> {u}]
\* A provider that identifies the message, not the update: an update may
\* repeat the message of the previous one (an edit).
EditsShareExternalId == [u \in 1..MaxUpdate |-> {100 + u, 99 + u}]

WorkerSymmetry == Permutations(Workers)
=============================================================================
