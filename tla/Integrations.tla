---------------------------- MODULE Integrations ----------------------------
(***************************************************************************)
(* The saved connections of the premium integrations                       *)
(* (app/routers/integrations_routes.py, app/integrations/schemas.py): one  *)
(* row per integration with its configuration and, of every secret that    *)
(* was sent, a marker that it is present.  A save is checked against the   *)
(* markers on file, so that the secret may be left blank afterwards; names *)
(* of fields are compared without case and stored as they were spelled.    *)
(*                                                                         *)
(* Test and sync only report whether the row is ready, and write nothing.  *)
(* The other fields of a configuration, which are replaced whole, and the  *)
(* licence, without which every request is answered 402, are left out.     *)
(***************************************************************************)
EXTENDS UnitOfWork, SequencesExt

CONSTANTS
    Connectors,  \* integrations of the catalog
    NeedsSecret, \* those of them with a required secret (SECRETS_SPEC)
    Spellings    \* spellings of the name of that secret

ASSUME SecretConnectors == NeedsSecret \subseteq Connectors
ASSUME FiniteSpellings == IsFiniteSet(Spellings)

connections == db.integration_connections   \* UNIQUE (tenant, name)

Marker == [spelling: Spellings, present: BOOLEAN]

IntegrationConnection ==
    [id: Ids, enabled: BOOLEAN, secrets_metadata: SeqOf(Marker, Cardinality(Spellings))]

IntegrationsTypeOK ==
    connections \in [Connectors -> IntegrationConnection \cup {NoRow}]

ASSUME NullConnection == NoRow \notin IntegrationConnection

NoConnections == [c \in Connectors |-> NoRow]

\* What a payload carries under the name of the secret: nothing, or a value
\* or a blank under one spelling.
Secrets == {NoRow} \cup [spelling: Spellings, present: BOOLEAN]

-----------------------------------------------------------------------------
\* _marker_present: the first marker under any spelling decides.
MarkerPresent(markers) == IF markers = <<>> THEN FALSE ELSE Head(markers).present

\* _missing_required: no value sent and none on file.
Complete(c, secret) ==
    \/ c \notin NeedsSecret
    \/ IF secret = NoRow THEN FALSE ELSE secret.present
    \/ IF connections[c] = NoRow THEN FALSE
       ELSE MarkerPresent(connections[c].secrets_metadata)

\* _is_ready: of several spellings the last one decides.
IsReady(c, rows) ==
    /\ rows[c] # NoRow
    /\ c \in NeedsSecret =>
          LET markers == rows[c].secrets_metadata IN
          IF markers = <<>> THEN FALSE ELSE Last(markers).present

\* _split_secrets
Sent(secret) == IF secret = NoRow THEN <<>> ELSE <<secret>>

\* Mutant: the markers on file are overwritten.
Replaced(markers, secret) == Sent(secret)

\* A value replaces the marker of its spelling, a blank adds one if there is
\* none.
MergedMarkers(markers, secret) ==
    CASE secret = NoRow -> markers
      [] secret # NoRow /\ \E i \in DOMAIN markers :
                              markers[i].spelling = secret.spelling ->
           [i \in DOMAIN markers |->
               IF markers[i].spelling = secret.spelling /\ secret.present
               THEN secret ELSE markers[i]]
      [] OTHER -> Append(markers, secret)

\* POST /integrations/{name}/connections
configure_integration(r, c, secret) ==
    /\ Complete(c, secret)
    /\ LET old == connections[c]
           new == IF old = NoRow
                  THEN [id |-> Number, enabled |-> TRUE,
                        secrets_metadata |-> Sent(secret)]
                  ELSE [old EXCEPT !.enabled = TRUE,
                          !.secrets_metadata = MergedMarkers(@, secret)]
       IN Begin(r, "configure", [connector |-> c, secret |-> secret],
                {IF old = NoRow THEN Insert("integration_connections", c, new)
                 ELSE Update("integration_connections", c, old, new)}, "answer")
    /\ UNCHANGED db

-----------------------------------------------------------------------------
\* The flush of r's transaction.
Flushes(r) == slot[r].phase = "flush" /\ slot'[r].phase # "flush" /\ db' # db

\* A connection that was saved is complete: no later save, though accepted
\* without the secret, makes it "not configured" again, but one that leaves the
\* secret blank under a spelling the row does not have (the check looks at the
\* first spelling on file, readiness at the last), and one that overlapped
\* another save of the row and sent the secret: it writes all markers it read.
ReadyLostOnlyByRespelling ==
    [][\A c \in Connectors :
          /\ connections[c] = NoRow /\ connections'[c] # NoRow =>
                IsReady(c, db'.integration_connections)
          /\ IsReady(c, connections) /\ ~IsReady(c, db'.integration_connections) =>
                \E r \in Slots :
                    /\ Flushes(r) /\ slot[r].op = "configure"
                    /\ slot[r].on.secret # NoRow
                    /\ \/ slot[r].overtaken
                       \/ /\ ~slot[r].on.secret.present
                          /\ \A i \in DOMAIN connections[c].secrets_metadata :
                                connections[c].secrets_metadata[i].spelling
                                   # slot[r].on.secret.spelling]_db
=============================================================================
