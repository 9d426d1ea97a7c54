------------------------- MODULE ThreatIntelProofs -------------------------
(***************************************************************************)
(* Theorems about ThreatIntel and Integrations: type correctness, the      *)
(* score that is explained, the signal silence keeps and the connections   *)
(* that stay ready, for every number of slots and requests, every feed and *)
(* every number of spellings.                                              *)
(*                                                                         *)
(* None of the properties is inductive: a flush writes what was decided on *)
(* rows as they were read.  IInv says of every pending write which columns *)
(* it may name, who asked for it, and, until another commit overtakes it,  *)
(* what it makes of the row that is there.                                 *)
(***************************************************************************)
EXTENDS ThreatIntel, UnitOfWorkProofs, FiniteSetTheorems

(***************************************************************************)
(* The inductive invariant.                                                *)
(***************************************************************************)
TableNames ==
    {"observables", "enrichments", "kev", "sync_state", "integration_connections"}

ObservableAdded(row) ==
    /\ row \in Observable
    /\ row.enriched = FALSE /\ row.factors = NoRow
    /\ row.score = 0 /\ row.verdict = "unknown"

\* Factors are only written with the mark of an enrichment, or after it.
ObservableColumns(o, set) ==
    /\ DOMAIN set \subseteq {"enriched", "score", "verdict", "factors"}
    /\ "enriched" \in DOMAIN set => set["enriched"] = TRUE
    /\ "score" \in DOMAIN set => set["score"] \in 0..100
    /\ "verdict" \in DOMAIN set =>
          set["verdict"] \in {"unknown", "no_known_threat", "low", "suspicious",
                              "malicious"}
    /\ "factors" \in DOMAIN set =>
          /\ set["factors"] \in SUBSET Factor
          /\ "enriched" \notin DOMAIN set =>
                observables[o] # NoRow /\ observables[o].enriched = TRUE

EnrichmentAdded(k, row) ==
    /\ row \in Enrichment
    /\ k[2] \in Asked(row.observable)

KevColumns(set) ==
    /\ DOMAIN set \subseteq {"known_ransomware"}
    /\ "known_ransomware" \in DOMAIN set => set["known_ransomware"] \in BOOLEAN

SyncColumns(set) ==
    /\ DOMAIN set \subseteq {"items"}
    /\ "items" \in DOMAIN set => set["items"] \in Nat

\* Of every spelling at most one marker.
Markers ==
    {markers \in Seq(Marker) :
        \A i, j \in DOMAIN markers :
            markers[i].spelling = markers[j].spelling => i = j}

Connection == [id: Ids, enabled: BOOLEAN, secrets_metadata: Markers]

ReadyRow(c, row) ==
    c \in NeedsSecret => /\ row.secrets_metadata # <<>>
                         /\ Last(row.secrets_metadata).present

ConnectionAdded(c, row) == row \in Connection /\ ReadyRow(c, row)

ConnectionColumns(set) ==
    /\ DOMAIN set \subseteq {"enabled", "secrets_metadata"}
    /\ "enabled" \in DOMAIN set => set["enabled"] \in BOOLEAN
    /\ "secrets_metadata" \in DOMAIN set => set["secrets_metadata"] \in Markers

InsertOK(w) ==
    \/ \E o \in Observables : w.at = <<"observables", o>> /\ ObservableAdded(w.set)
    \/ \E k \in Ids \X Sources : w.at = <<"enrichments", k>> /\ EnrichmentAdded(k, w.set)
    \/ \E c \in Cves : w.at = <<"kev", c>> /\ w.set \in KEVEntry
    \/ w.at = <<"sync_state", "cisa_kev">> /\ w.set \in SyncState
    \/ \E c \in Connectors :
          w.at = <<"integration_connections", c>> /\ ConnectionAdded(c, w.set)

UpdateOK(w) ==
    \/ \E o \in Observables : w.at = <<"observables", o>> /\ ObservableColumns(o, w.set)
    \/ \E c \in Cves : w.at = <<"kev", c>> /\ KevColumns(w.set)
    \/ w.at = <<"sync_state", "cisa_kev">> /\ SyncColumns(w.set)
    \/ \E c \in Connectors :
          w.at = <<"integration_connections", c>> /\ ConnectionColumns(w.set)

WriteOK(w) ==
    \/ w.how = "insert" /\ InsertOK(w)
    \/ w.how = "update" /\ UpdateOK(w)

\* Which request a write is of; without the secret in the payload the markers
\* stay.
AskedFor(w, op, on) ==
    w.how = "update" =>
       /\ \A o \in Observables : w.at = <<"observables", o>> => op = "enrich"
       /\ \A c \in Connectors : w.at = <<"integration_connections", c>> =>
             /\ op = "configure"
             /\ on.secret = NoRow => "secrets_metadata" \notin DOMAIN w.set

\* A save that leaves the secret blank under a spelling c does not have.
Respelled(c, secret) ==
    /\ secret # NoRow
    /\ ~secret.present
    /\ \A i \in DOMAIN connections[c].secrets_metadata :
          connections[c].secrets_metadata[i].spelling # secret.spelling

\* What the write makes of the row that is there.
Timely(w, on) ==
    w.how = "update" =>
       /\ \A o \in Observables : w.at = <<"observables", o>> =>
             /\ Explained(observables[o]) =>
                   Explained(Merged(observables[o], w.set))
             /\ Known(o, observables) /\ "factors" \in DOMAIN w.set =>
                   on.answered # {}
       /\ \A c \in Connectors : w.at = <<"integration_connections", c>> =>
             \/ ~ReadyRow(c, connections[c])
             \/ ReadyRow(c, Merged(connections[c], w.set))
             \/ Respelled(c, on.secret)

SlotOK(x) ==
    x.phase # "idle" =>
        /\ DOMAIN x = {"phase", "op", "on", "n", "writes", "then", "overtaken"}
        /\ x.phase \in {"flush", "record"}
        /\ x.then \in {"answer", "record"}
        /\ x.overtaken \in BOOLEAN
        /\ "record" \in {x.phase, x.then} => x.on.items \in Nat
        /\ \A w \in x.writes :
              /\ WriteOK(w)
              /\ AskedFor(w, x.op, x.on)
              /\ ~x.overtaken => Timely(w, x.on)

\* An observable nobody has enriched has no factors.
EnrichedFirst ==
    \A o \in Observables :
        observables[o] # NoRow /\ observables[o].enriched = FALSE =>
            observables[o].factors = NoRow

OneMarkerEach ==
    \A c \in Connectors : connections[c] # NoRow =>
        connections[c].secrets_metadata \in Markers

IInv ==
    /\ TypeOK
    /\ DOMAIN db = TableNames
    /\ DOMAIN enrichments = Ids \X Sources
    /\ DOMAIN slot = Slots
    /\ EnrichedFirst
    /\ OneMarkerEach
    /\ \A r \in Slots : SlotOK(slot[r])

-----------------------------------------------------------------------------
(***************************************************************************)
(* The score.                                                              *)
(***************************************************************************)
LEMMA AnswerFactors ==
    ASSUME NEW answer
    PROVE  ScoreFactors(answer) \in SUBSET Factor
<1>1. /\ ScoreFactors("ransomware") \subseteq Factor
      /\ ScoreFactors("likely") \subseteq Factor
      /\ ScoreFactors("online") \subseteq Factor
      /\ ScoreFactors("host") \subseteq Factor
      /\ ScoreFactors("payload") \subseteq Factor
  BY DEF Factor
<1>2. ScoreFactors("listed") \subseteq ScoreFactors("ransomware")
  BY DEF ScoreFactors
<1>3. ScoreFactors("offline") \subseteq ScoreFactors("online")
  BY DEF ScoreFactors
<1>4. answer \notin {"listed", "ransomware", "likely", "offline", "online", "host",
                     "payload"} => ScoreFactors(answer) = {}
  BY DEF ScoreFactors
<1>5. CASE answer = "listed"
  BY <1>1, <1>2, <1>5
<1>6. CASE answer = "offline"
  BY <1>1, <1>3, <1>6
<1>7. QED
  BY <1>1, <1>4, <1>5, <1>6

LEMMA PointsRange ==
    /\ Points({}) = 0
    /\ \A factors : Points(factors) \in 0..100
<1>1. Points({}) = 0
  BY DEF Points, Worth
<1>2. ASSUME NEW factors
      PROVE  Points(factors) \in 0..100
  <2>1. PICK a, b, c, d, e, f, g :
           /\ a = Worth(<<"kev_listed", 50>>, factors)
           /\ b = Worth(<<"kev_ransomware", 10>>, factors)
           /\ c = Worth(<<"epss", 27>>, factors)
           /\ d = Worth(<<"urlhaus_url", 45>>, factors)
           /\ e = Worth(<<"urlhaus_online", 10>>, factors)
           /\ f = Worth(<<"urlhaus_host", 35>>, factors)
           /\ g = Worth(<<"urlhaus_payload", 45>>, factors)
    OBVIOUS
  <2>2. /\ a \in Nat /\ b \in Nat /\ c \in Nat /\ d \in Nat
        /\ e \in Nat /\ f \in Nat /\ g \in Nat
    BY <2>1 DEF Worth
  <2>3. Points(factors) = IF a + b + c + d + e + f + g > 100 THEN 100
                          ELSE a + b + c + d + e + f + g
    BY <2>1 DEF Points
  <2>4. QED
    BY <2>2, <2>3
<1>3. QED
  BY <1>1, <1>2

LEMMA VerdictRange ==
    ASSUME NEW score
    PROVE  VERDICTS(score) \in {"no_known_threat", "low", "suspicious", "malicious"}
  BY DEF VERDICTS

IsRow(row) == row = [c \in DOMAIN row |-> row[c]]
Marked(row) == [row EXCEPT !.enriched = TRUE]

\* What an enrichment makes of the row of an observable.
Assesses(new, row, answers) ==
    /\ DOMAIN new = DOMAIN row /\ new.id = row.id /\ new.enriched = TRUE
    /\ IsRow(new)
    /\ new.score \in 0..100
    /\ new.verdict \in {"unknown", "no_known_threat", "low", "suspicious",
                        "malicious"}
    /\ new.factors # row.factors => new.factors \in SUBSET Factor
    /\ Explained(row) => Explained(new)
    /\ new.factors # row.factors /\ row.factors # NoRow => DOMAIN answers # {}

LEMMA AssessedRow ==
    ASSUME NEW row \in Observable, NEW answers, NEW failed,
           row.enriched = FALSE => row.factors = NoRow
    PROVE  Assesses(Marked(Assessed(row, answers, failed)), row, answers)
<1>1. /\ DOMAIN row = {"id", "enriched", "score", "verdict", "factors"}
      /\ row = [c \in DOMAIN row |-> row[c]]
      /\ row.id \in Ids /\ row.enriched \in BOOLEAN /\ row.score \in 0..100
      /\ row.verdict \in {"unknown", "no_known_threat", "low", "suspicious",
                          "malicious"}
      /\ row # NoRow
  BY NullAssumption DEF Observable
<1>2. PICK mid, new : mid = Assessed(row, answers, failed) /\ new = Marked(mid)
  OBVIOUS
<1>3. /\ new = [mid EXCEPT !.enriched = TRUE]
      /\ IsRow(new)
  BY <1>2 DEF Marked, IsRow
<1>4. CASE DOMAIN answers # {}
  <2>1. PICK factors :
           factors = UNION {ScoreFactors(answers[s]) : s \in DOMAIN answers}
    OBVIOUS
  <2>2. factors \in SUBSET Factor
    BY <2>1, AnswerFactors
  <2>3. PICK score : score = Points(factors)
    OBVIOUS
  <2>4. PICK verdict : verdict = VERDICTS(score)
    OBVIOUS
  <2>5. mid = [row EXCEPT !.score = score, !.verdict = verdict, !.factors = factors]
    BY <1>2, <1>4, <2>1, <2>3, <2>4 DEF Assessed, Scored
  <2>6. /\ DOMAIN new = DOMAIN row /\ new.id = row.id /\ new.enriched = TRUE
        /\ new.score = score /\ new.verdict = verdict /\ new.factors = factors
    BY <1>1, <1>3, <2>5
  <2>7. score \in 0..100
    BY <2>3, PointsRange
  <2>8. /\ verdict \in {"no_known_threat", "low", "suspicious", "malicious"}
    BY <2>4, VerdictRange
  <2>9. factors # NoRow
    BY <2>2, NullAssumption
  <2>10. Explained(new)
    BY <2>3, <2>4, <2>6, <2>9 DEF Explained
  <2>11. QED
    BY <1>2, <1>3, <1>4, <2>2, <2>6, <2>7, <2>8, <2>10 DEF Assesses
<1>5. CASE DOMAIN answers = {} /\ failed # {} /\ ~row.enriched
  <2>1. mid = [row EXCEPT !.score = 0, !.verdict = "unknown", !.factors = {}]
    BY <1>2, <1>5 DEF Assessed
  <2>2. /\ DOMAIN new = DOMAIN row /\ new.id = row.id /\ new.enriched = TRUE
        /\ new.score = 0 /\ new.verdict = "unknown" /\ new.factors = {}
    BY <1>1, <1>3, <2>1
  <2>3. Explained(new)
    BY <2>2, PointsRange DEF Explained
  <2>4. row.factors = NoRow
    BY <1>1, <1>5
  <2>5. QED
    <3>1. 0 \in 0..100 /\ {} \in SUBSET Factor
      OBVIOUS
    <3>2. Assesses(new, row, answers)
      BY <1>3, <2>2, <2>3, <2>4, <3>1 DEF Assesses
    <3>3. QED
      BY <1>2, <3>2
<1>6. CASE DOMAIN answers = {} /\ ~(failed # {} /\ ~row.enriched)
  <2>1. mid = row
    BY <1>2, <1>6 DEF Assessed
  <2>2. /\ DOMAIN new = DOMAIN row /\ new.id = row.id /\ new.enriched = TRUE
        /\ new.score = row.score /\ new.verdict = row.verdict
        /\ new.factors = row.factors
    BY <1>1, <1>3, <2>1
  <2>3. Explained(row) => Explained(new)
    BY <1>1, <2>2 DEF Explained
  <2>4. QED
    BY <1>1, <1>2, <1>3, <2>2, <2>3 DEF Assesses
<1>7. QED
  BY <1>4, <1>5, <1>6

-----------------------------------------------------------------------------
(***************************************************************************)
(* The markers of the secrets.                                             *)
(***************************************************************************)
\* There are no more markers than spellings.
LEMMA MarkersBounded ==
    ASSUME NEW markers \in Markers
    PROVE  markers \in SeqOf(Marker, Cardinality(Spellings))
<1>1. /\ markers \in Seq(Marker) /\ Len(markers) \in Nat
      /\ DOMAIN markers = 1..Len(markers)
      /\ markers \in [1..Len(markers) -> Marker]
  BY DEF Markers
<1>2. PICK n : n = Len(markers)
  OBVIOUS
<1>3. PICK f : f = [i \in 1..n |-> markers[i].spelling]
  OBVIOUS
<1>4. f \in [1..n -> Spellings]
  BY <1>1, <1>2, <1>3 DEF Marker
<1>5. \A a, b \in DOMAIN f : f[a] = f[b] => a = b
  BY <1>1, <1>2, <1>3 DEF Markers
<1>6. f \in Injection(1..n, Spellings)
  BY <1>4, <1>5 DEF Injection, IsInjective
<1>7. Cardinality(1..n) <= Cardinality(Spellings)
  BY <1>6, FS_Injection, FiniteSpellings
<1>8. Cardinality(1..n) = n
  <2>1. n \in Nat /\ n \in Int /\ 1 \in Int
    BY <1>1, <1>2
  <2>2. Cardinality(1..n) = IF 1 > n THEN 0 ELSE n - 1 + 1
    BY <2>1, FS_Interval
  <2>3. QED
    BY <2>1, <2>2
<1>9. Cardinality(Spellings) \in Nat
  BY FS_CardinalityType, FiniteSpellings
<1>10. n \in 0..Cardinality(Spellings)
  BY <1>1, <1>2, <1>7, <1>8, <1>9
<1>11. QED
  BY <1>1, <1>2, <1>10 DEF SeqOf

LEMMA SentOK ==
    ASSUME NEW secret \in Secrets
    PROVE  /\ Sent(secret) \in Markers
           /\ secret # NoRow => /\ Sent(secret) # <<>>
                                /\ Last(Sent(secret)) = secret
<1>1. CASE secret = NoRow
  <2>1. Sent(secret) = <<>> /\ <<>> \in Seq(Marker) /\ DOMAIN <<>> = {}
    BY <1>1 DEF Sent
  <2>2. QED
    BY <1>1, <2>1 DEF Markers
<1>2. CASE secret # NoRow
  <2>1. secret \in Marker /\ Sent(secret) = <<secret>>
    BY <1>2 DEF Secrets, Marker, Sent
  <2>2. /\ <<secret>> \in Seq(Marker) /\ DOMAIN <<secret>> = {1}
        /\ <<secret>>[1] = secret /\ Len(<<secret>>) = 1
    BY <2>1
  <2>3. QED
    BY <2>1, <2>2 DEF Markers, Last
<1>3. QED
  BY <1>1, <1>2

\* A save keeps one marker of every spelling, and takes readiness away only by
\* a blank under another spelling.
LEMMA MergedOK ==
    ASSUME NEW markers \in Markers, NEW secret \in Secrets
    PROVE  /\ MergedMarkers(markers, secret) \in Markers
           /\ secret = NoRow => MergedMarkers(markers, secret) = markers
           /\ \/ markers = <<>> \/ ~Last(markers).present
              \/ /\ MergedMarkers(markers, secret) # <<>>
                 /\ Last(MergedMarkers(markers, secret)).present
              \/ /\ secret # NoRow /\ ~secret.present
                 /\ \A i \in DOMAIN markers : markers[i].spelling # secret.spelling
<1>1. /\ markers \in Seq(Marker) /\ Len(markers) \in Nat
      /\ DOMAIN markers = 1..Len(markers)
      /\ \A i, j \in DOMAIN markers :
            markers[i].spelling = markers[j].spelling => i = j
  BY DEF Markers
<1>2. CASE secret = NoRow
  BY <1>2 DEF MergedMarkers
<1>3. CASE secret # NoRow /\ \E i \in DOMAIN markers :
                                markers[i].spelling = secret.spelling
  <2>1. secret \in Marker
    BY <1>3 DEF Secrets, Marker
  <2>2. PICK new : new = [i \in 1..Len(markers) |->
                            IF markers[i].spelling = secret.spelling /\ secret.present
                            THEN secret ELSE markers[i]]
    OBVIOUS
  <2>3. MergedMarkers(markers, secret) = new
    BY <1>1, <1>3, <2>2 DEF MergedMarkers
  <2>4. /\ new \in Seq(Marker) /\ Len(new) = Len(markers)
        /\ DOMAIN new = 1..Len(markers)
    BY <1>1, <2>1, <2>2
  <2>5. \A i \in 1..Len(markers) :
           /\ new[i].spelling = markers[i].spelling
           /\ markers[i].present => new[i].present
    BY <2>2
  <2>6. new \in Markers
    BY <1>1, <2>4, <2>5 DEF Markers
  <2>7. markers # <<>> /\ Last(markers).present => new # <<>> /\ Last(new).present
    <3>1. SUFFICES ASSUME markers # <<>>, Last(markers).present
                   PROVE  new # <<>> /\ Last(new).present
      OBVIOUS
    <3>2. Len(markers) \in 1..Len(markers)
      BY <1>1, <3>1
    <3>3. new[Len(markers)].present
      BY <2>5, <3>1, <3>2 DEF Last
    <3>4. QED
      BY <2>4, <3>2, <3>3 DEF Last
  <2>8. QED
    BY <1>3, <2>3, <2>6, <2>7
<1>4. CASE secret # NoRow /\ ~\E i \in DOMAIN markers :
                                markers[i].spelling = secret.spelling
  <2>1. secret \in Marker
    BY <1>4 DEF Secrets, Marker
  <2>2. PICK new : new = Append(markers, secret)
    OBVIOUS
  <2>3. MergedMarkers(markers, secret) = new
    BY <1>4, <2>2 DEF MergedMarkers
  <2>4. /\ new \in Seq(Marker) /\ Len(new) = Len(markers) + 1
        /\ DOMAIN new = 1..(Len(markers) + 1)
        /\ new[Len(markers) + 1] = secret
        /\ \A i \in 1..Len(markers) : new[i] = markers[i]
    BY <1>1, <2>1, <2>2
  <2>5. ASSUME NEW i \in DOMAIN new, NEW j \in DOMAIN new,
               new[i].spelling = new[j].spelling
        PROVE  i = j
    <3>1. \/ i \in DOMAIN markers /\ new[i] = markers[i]
          \/ i = Len(markers) + 1 /\ new[i] = secret
      BY <1>1, <2>4
    <3>2. \/ j \in DOMAIN markers /\ new[j] = markers[j]
          \/ j = Len(markers) + 1 /\ new[j] = secret
      BY <1>1, <2>4
    <3>3. QED
      BY <1>1, <1>4, <2>5, <3>1, <3>2
  <2>6. new \in Markers
    BY <2>4, <2>5 DEF Markers
  <2>7. new # <<>> /\ Last(new) = secret
    BY <1>1, <2>4 DEF Last
  <2>8. QED
    BY <1>4, <2>3, <2>6, <2>7
<1>5. QED
  BY <1>2, <1>3, <1>4

-----------------------------------------------------------------------------
(***************************************************************************)
(* The rows a flush leaves.                                                *)
(***************************************************************************)
Allowed(ws) == (\A w \in ws : WriteOK(w)) /\ ~Raises(ws, {})

LEMMA Tabled ==
    ASSUME IInv
    PROVE  /\ DOMAIN db = TableNames
           /\ db["observables"] \in [Observables -> Observable \cup {NoRow}]
           /\ DOMAIN db["enrichments"] = Ids \X Sources
           /\ db["kev"] \in [Cves -> KEVEntry \cup {NoRow}]
           /\ db["sync_state"] \in [{"cisa_kev"} -> SyncState \cup {NoRow}]
           /\ db["integration_connections"] \in [Connectors -> Connection \cup {NoRow}]
<1>1. db["integration_connections"] \in [Connectors -> Connection \cup {NoRow}]
  <2>1. connections \in [Connectors -> IntegrationConnection \cup {NoRow}]
    BY DEF IInv, TypeOK, IntegrationsTypeOK
  <2>2. ASSUME NEW c \in Connectors, connections[c] # NoRow
        PROVE  connections[c] \in Connection
    <3>1. PICK row : row = connections[c]
      OBVIOUS
    <3>2. row \in IntegrationConnection /\ row.secrets_metadata \in Markers
      BY <2>1, <2>2, <3>1 DEF IInv, OneMarkerEach
    <3>3. row \in Connection
      BY <3>2 DEF IntegrationConnection, Connection
    <3>4. QED
      BY <3>1, <3>3
  <2>3. QED
    BY <2>1, <2>2 DEF connections
<1>2. QED
  BY <1>1 DEF IInv, TypeOK, observables, enrichments, kev, sync_state

\* A row a flush leaves was there, or was inserted where none was, or has been
\* updated.
Stored(row, old, ws, at) ==
    \/ row = old
    \/ \E w \in ws : w.at = at /\ w.how = "insert" /\ old = NoRow /\ row = w.set
    \/ \E w \in ws : /\ w.at = at /\ w.how = "update"
                     /\ old # NoRow /\ row = Merged(old, w.set)

LEMMA RowFrom ==
    ASSUME NEW ws, Allowed(ws), NEW t, NEW k
    PROVE  Stored(Row(t, k, ws), db[t][k], ws, <<t, k>>)
<1>1. PICK old, row : old = db[t][k] /\ row = Row(t, k, ws)
  OBVIOUS
<1>2. \A w \in ws : w.how \in {"insert", "update"}
  BY DEF Allowed, WriteOK
<1>3. \/ row = old
      \/ \E w \in ws : w.at = <<t, k>> /\ w.how = "insert" /\ row = w.set
      \/ \E w \in ws : /\ w.at = <<t, k>> /\ w.how = "update"
                       /\ DOMAIN w.set # {} /\ row = Merged(old, w.set)
  <2>1. Outcome(row, old, ws, <<t, k>>)
    BY <1>1, RowCases
  <2>2. QED
    BY <1>2, <2>1 DEF Outcome
<1>4. ASSUME NEW w \in ws, w.at = <<t, k>>
      PROVE  /\ w.how = "insert" => old = NoRow
             /\ w.how = "update" /\ DOMAIN w.set # {} => old # NoRow
  <2>1. /\ w.how = "insert" => db[w.at[1]][w.at[2]] = NoRow
        /\ w.how = "update" /\ DOMAIN w.set # {} => ~Stale(w)
    BY DEF Allowed, Raises
  <2>2. w.at[1] = t /\ w.at[2] = k
    BY <1>4
  <2>3. QED
    BY <1>1, <2>1, <2>2 DEF Stale, Gone
<1>5. Stored(row, old, ws, <<t, k>>)
  BY <1>3, <1>4 DEF Stored
<1>6. QED
  BY <1>1, <1>5

\* What WriteOK says of a write of a given table.
LEMMA InsertOf ==
    ASSUME NEW w, WriteOK(w), w.how = "insert", NEW k
    PROVE  /\ w.at = <<"observables", k>> => ObservableAdded(w.set)
           /\ w.at = <<"enrichments", k>> => EnrichmentAdded(k, w.set)
           /\ w.at = <<"kev", k>> => w.set \in KEVEntry
           /\ w.at = <<"sync_state", k>> => w.set \in SyncState
           /\ w.at = <<"integration_connections", k>> => ConnectionAdded(k, w.set)
<1>1. InsertOK(w)
  BY DEF WriteOK
<1>2. PICK at, set : at = w.at /\ set = w.set
  OBVIOUS
<1>3. \/ at[1] = "observables" /\ ObservableAdded(set)
      \/ at[1] = "enrichments" /\ EnrichmentAdded(at[2], set)
      \/ at[1] = "kev" /\ set \in KEVEntry
      \/ at[1] = "sync_state" /\ set \in SyncState
      \/ at[1] = "integration_connections" /\ ConnectionAdded(at[2], set)
  <2>1. \/ \E o \in Observables : at = <<"observables", o>> /\ ObservableAdded(set)
        \/ \E j \in Ids \X Sources : at = <<"enrichments", j>> /\ EnrichmentAdded(j, set)
        \/ \E c \in Cves : at = <<"kev", c>> /\ set \in KEVEntry
        \/ at = <<"sync_state", "cisa_kev">> /\ set \in SyncState
        \/ \E c \in Connectors :
              at = <<"integration_connections", c>> /\ ConnectionAdded(c, set)
    BY <1>1, <1>2 DEF InsertOK
  <2>2. CASE \E o \in Observables : at = <<"observables", o>> /\ ObservableAdded(set)
    BY <2>2
  <2>3. CASE \E j \in Ids \X Sources : at = <<"enrichments", j>> /\ EnrichmentAdded(j, set)
    <3>1. PICK j \in Ids \X Sources : at = <<"enrichments", j>> /\ EnrichmentAdded(j, set)
      BY <2>3
    <3>2. at[1] = "enrichments" /\ at[2] = j
      BY <3>1
    <3>3. QED
      BY <3>1, <3>2
  <2>4. CASE \E c \in Cves : at = <<"kev", c>> /\ set \in KEVEntry
    BY <2>4
  <2>5. CASE at = <<"sync_state", "cisa_kev">> /\ set \in SyncState
    BY <2>5
  <2>6. CASE \E c \in Connectors :
                at = <<"integration_connections", c>> /\ ConnectionAdded(c, set)
    <3>1. PICK c \in Connectors :
             at = <<"integration_connections", c>> /\ ConnectionAdded(c, set)
      BY <2>6
    <3>2. at[1] = "integration_connections" /\ at[2] = c
      BY <3>1
    <3>3. QED
      BY <3>1, <3>2
  <2>7. QED
    BY <2>1, <2>2, <2>3, <2>4, <2>5, <2>6
<1>4. \A t : at = <<t, k>> => at[1] = t /\ at[2] = k
  OBVIOUS
<1>5. QED
  BY <1>2, <1>3, <1>4

LEMMA UpdateOf ==
    ASSUME NEW w, WriteOK(w), w.how = "update", NEW k
    PROVE  /\ w.at = <<"observables", k>> => ObservableColumns(k, w.set)
           /\ w.at # <<"enrichments", k>>
           /\ w.at = <<"kev", k>> => KevColumns(w.set)
           /\ w.at = <<"sync_state", k>> => SyncColumns(w.set)
           /\ w.at = <<"integration_connections", k>> => ConnectionColumns(w.set)
<1>1. UpdateOK(w)
  BY DEF WriteOK
<1>2. PICK at, set : at = w.at /\ set = w.set
  OBVIOUS
<1>3. \/ at[1] = "observables" /\ ObservableColumns(at[2], set)
      \/ at[1] = "kev" /\ KevColumns(set)
      \/ at[1] = "sync_state" /\ SyncColumns(set)
      \/ at[1] = "integration_connections" /\ ConnectionColumns(set)
  <2>1. \/ \E o \in Observables : at = <<"observables", o>> /\ ObservableColumns(o, set)
        \/ \E c \in Cves : at = <<"kev", c>> /\ KevColumns(set)
        \/ at = <<"sync_state", "cisa_kev">> /\ SyncColumns(set)
        \/ \E c \in Connectors :
              at = <<"integration_connections", c>> /\ ConnectionColumns(set)
    BY <1>1, <1>2 DEF UpdateOK
  <2>2. CASE \E o \in Observables : at = <<"observables", o>> /\ ObservableColumns(o, set)
    <3>1. PICK o \in Observables : at = <<"observables", o>> /\ ObservableColumns(o, set)
      BY <2>2
    <3>2. at[1] = "observables" /\ at[2] = o
      BY <3>1
    <3>3. QED
      BY <3>1, <3>2
  <2>3. CASE \E c \in Cves : at = <<"kev", c>> /\ KevColumns(set)
    BY <2>3
  <2>4. CASE at = <<"sync_state", "cisa_kev">> /\ SyncColumns(set)
    BY <2>4
  <2>5. CASE \E c \in Connectors :
                at = <<"integration_connections", c>> /\ ConnectionColumns(set)
    BY <2>5
  <2>6. QED
    BY <2>1, <2>2, <2>3, <2>4, <2>5
<1>4. \A t : at = <<t, k>> => at[1] = t /\ at[2] = k
  OBVIOUS
<1>5. QED
  BY <1>2, <1>3, <1>4

\* Without foreign keys the tables after a flush hold the rows it leaves.
LEMMA PlainFlush ==
    ASSUME NEW ws, NEW t \in DOMAIN db, NEW k \in DOMAIN db[t],
           Row(t, k, ws) # NoRow => IsRow(Row(t, k, ws))
    PROVE  Flushed(ws, {})[t][k] = Row(t, k, ws)
<1>1. \A rows, ondelete : Lost(rows, t, k, {}, ondelete) = {}
  BY DEF Lost
<1>2. PICK row : row = Row(t, k, ws)
  OBVIOUS
<1>3. Kept(ws, {})[t][k] = row
  <2>1. Cascaded(Kept(ws, {})[t][k], row, Lost(RowsOf(ws), t, k, {}, "cascade"))
    BY <1>2, KeptRow
  <2>2. QED
    BY <1>1, <2>1 DEF Cascaded
<1>4. Flushed(ws, {})[t][k] = IF row = NoRow THEN NoRow ELSE Nulled(row, {})
  <2>1. Left(Flushed(ws, {})[t][k], Kept(ws, {})[t][k],
             Lost(Kept(ws, {}), t, k, {}, "set null"))
    BY FlushedRow
  <2>2. Lost(Kept(ws, {}), t, k, {}, "set null") = {}
    BY <1>1
  <2>3. QED
    BY <1>3, <2>1, <2>2 DEF Left
<1>5. IsRow(row) => Nulled(row, {}) = row
  BY DEF Nulled, IsRow
<1>6. QED
  BY <1>2, <1>4, <1>5

LEMMA FlushFrom ==
    ASSUME NEW ws, Allowed(ws), NEW t \in DOMAIN db, NEW k \in DOMAIN db[t],
           db[t][k] # NoRow => IsRow(db[t][k]),
           \A w \in ws : w.at = <<t, k>> /\ w.how = "insert" => IsRow(w.set)
    PROVE  Stored(Flushed(ws, {})[t][k], db[t][k], ws, <<t, k>>)
<1>1. PICK old, row : old = db[t][k] /\ row = Row(t, k, ws)
  OBVIOUS
<1>2. Stored(row, old, ws, <<t, k>>)
  BY <1>1, RowFrom
<1>3. row # NoRow => IsRow(row)
  <2>1. \A set : IsRow(Merged(old, set))
    BY DEF IsRow, Merged
  <2>2. old # NoRow => IsRow(old)
    BY <1>1
  <2>3. QED
    BY <1>2, <2>1, <2>2 DEF Stored
<1>4. Flushed(ws, {})[t][k] = row
  BY <1>1, <1>3, PlainFlush
<1>5. QED
  BY <1>1, <1>2, <1>4

LEMMA ObservableFlushed ==
    ASSUME IInv, NEW ws, Allowed(ws), NEW o \in Observables
    PROVE  LET old == db["observables"][o]
               row == Flushed(ws, {})["observables"][o] IN
           \/ row = old
           \/ old = NoRow /\ ObservableAdded(row)
           \/ \E w \in ws : /\ w.at = <<"observables", o>> /\ w.how = "update"
                            /\ old # NoRow /\ old \in Observable
                            /\ ObservableColumns(o, w.set)
                            /\ row = Merged(old, w.set)
<1>1. /\ "observables" \in DOMAIN db /\ o \in DOMAIN db["observables"]
      /\ db["observables"][o] \in Observable \cup {NoRow}
  BY Tabled DEF TableNames
<1>2. \A row \in Observable : IsRow(row)
  BY DEF Observable, IsRow
<1>3. \A w \in ws : w.at = <<"observables", o>> /\ w.how = "insert" =>
         ObservableAdded(w.set) /\ IsRow(w.set)
  BY <1>2, InsertOf DEF Allowed, ObservableAdded
<1>4. \A w \in ws : w.at = <<"observables", o>> /\ w.how = "update" =>
         ObservableColumns(o, w.set)
  BY UpdateOf DEF Allowed
<1>5. PICK old, row : /\ old = db["observables"][o]
                      /\ row = Flushed(ws, {})["observables"][o]
  OBVIOUS
<1>6. Stored(row, old, ws, <<"observables", o>>)
  BY <1>1, <1>2, <1>3, <1>5, FlushFrom
<1>7. old # NoRow => old \in Observable
  BY <1>1, <1>5
<1>8. \/ row = old
      \/ old = NoRow /\ ObservableAdded(row)
      \/ \E w \in ws : /\ w.at = <<"observables", o>> /\ w.how = "update"
                       /\ old # NoRow /\ old \in Observable
                       /\ ObservableColumns(o, w.set)
                       /\ row = Merged(old, w.set)
  BY <1>3, <1>4, <1>6, <1>7 DEF Stored
<1>9. QED
  BY <1>5, <1>8

LEMMA ConnectionFlushed ==
    ASSUME IInv, NEW ws, Allowed(ws), NEW c \in Connectors
    PROVE  LET old == db["integration_connections"][c]
               row == Flushed(ws, {})["integration_connections"][c] IN
           \/ row = old
           \/ old = NoRow /\ ConnectionAdded(c, row)
           \/ \E w \in ws : /\ w.at = <<"integration_connections", c>>
                            /\ w.how = "update"
                            /\ old # NoRow /\ old \in Connection
                            /\ ConnectionColumns(w.set)
                            /\ row = Merged(old, w.set)
<1>1. /\ "integration_connections" \in DOMAIN db
      /\ c \in DOMAIN db["integration_connections"]
      /\ db["integration_connections"][c] \in Connection \cup {NoRow}
  BY Tabled DEF TableNames
<1>2. \A row \in Connection : IsRow(row)
  BY DEF Connection, IsRow
<1>3. \A w \in ws : w.at = <<"integration_connections", c>> /\ w.how = "insert" =>
         ConnectionAdded(c, w.set) /\ IsRow(w.set)
  BY <1>2, InsertOf DEF Allowed, ConnectionAdded
<1>4. \A w \in ws : w.at = <<"integration_connections", c>> /\ w.how = "update" =>
         ConnectionColumns(w.set)
  BY UpdateOf DEF Allowed
<1>5. PICK old, row : /\ old = db["integration_connections"][c]
                      /\ row = Flushed(ws, {})["integration_connections"][c]
  OBVIOUS
<1>6. Stored(row, old, ws, <<"integration_connections", c>>)
  BY <1>1, <1>2, <1>3, <1>5, FlushFrom
<1>7. old # NoRow => old \in Connection
  BY <1>1, <1>5
<1>8. \/ row = old
      \/ old = NoRow /\ ConnectionAdded(c, row)
      \/ \E w \in ws : /\ w.at = <<"integration_connections", c>> /\ w.how = "update"
                       /\ old # NoRow /\ old \in Connection
                       /\ ConnectionColumns(w.set)
                       /\ row = Merged(old, w.set)
  BY <1>3, <1>4, <1>6, <1>7 DEF Stored
<1>9. QED
  BY <1>5, <1>8

LEMMA EnrichmentFlushed ==
    ASSUME IInv, NEW ws, Allowed(ws), NEW k \in Ids \X Sources
    PROVE  LET row == Flushed(ws, {})["enrichments"][k] IN
           \/ row = db["enrichments"][k]
           \/ EnrichmentAdded(k, row)
<1>1. "enrichments" \in DOMAIN db /\ k \in DOMAIN db["enrichments"]
  BY Tabled DEF TableNames
<1>2. \A row \in Enrichment : IsRow(row)
  BY DEF Enrichment, IsRow
<1>3. db["enrichments"][k] # NoRow => db["enrichments"][k] \in Enrichment
  BY DEF IInv, TypeOK, enrichments
<1>4. db["enrichments"][k] # NoRow => IsRow(db["enrichments"][k])
  BY <1>2, <1>3
<1>5. \A w \in ws : w.at = <<"enrichments", k>> /\ w.how = "insert" =>
         EnrichmentAdded(k, w.set) /\ IsRow(w.set)
  BY <1>2, InsertOf DEF Allowed, EnrichmentAdded
<1>6. \A w \in ws : w.how = "update" => w.at # <<"enrichments", k>>
  BY UpdateOf DEF Allowed
<1>7. PICK old, row : /\ old = db["enrichments"][k]
                      /\ row = Flushed(ws, {})["enrichments"][k]
  OBVIOUS
<1>8. Stored(row, old, ws, <<"enrichments", k>>)
  BY <1>1, <1>5, <1>7, <1>4, FlushFrom
<1>9. QED
  BY <1>5, <1>6, <1>7, <1>8 DEF Stored

LEMMA KevFlushed ==
    ASSUME IInv, NEW ws, Allowed(ws), NEW c \in Cves
    PROVE  Flushed(ws, {})["kev"][c] \in KEVEntry \cup {NoRow}
<1>1. /\ "kev" \in DOMAIN db /\ c \in DOMAIN db["kev"]
      /\ db["kev"][c] \in KEVEntry \cup {NoRow}
  BY Tabled DEF TableNames
<1>2. \A row \in KEVEntry : IsRow(row)
  BY DEF KEVEntry, IsRow
<1>3. \A w \in ws : w.at = <<"kev", c>> /\ w.how = "insert" =>
         w.set \in KEVEntry /\ IsRow(w.set)
  BY <1>2, InsertOf DEF Allowed
<1>4. PICK old, row : old = db["kev"][c] /\ row = Flushed(ws, {})["kev"][c]
  OBVIOUS
<1>5. ASSUME NEW w \in ws, w.at = <<"kev", c>>, w.how = "update", old # NoRow
      PROVE  Merged(old, w.set) \in KEVEntry
  <2>1. KevColumns(w.set)
    BY <1>5, UpdateOf DEF Allowed
  <2>2. PICK set : set = w.set
    OBVIOUS
  <2>3. old \in KEVEntry /\ KevColumns(set)
    BY <1>1, <1>4, <1>5, <2>1, <2>2
  <2>4. Merged(old, set) \in KEVEntry
    BY <2>3 DEF Merged, KEVEntry, KevColumns
  <2>5. QED
    BY <2>2, <2>4
<1>6. Stored(row, old, ws, <<"kev", c>>)
  BY <1>1, <1>2, <1>3, <1>4, FlushFrom
<1>7. QED
  BY <1>1, <1>3, <1>4, <1>5, <1>6 DEF Stored

LEMMA SyncFlushed ==
    ASSUME IInv, NEW ws, Allowed(ws)
    PROVE  Flushed(ws, {})["sync_state"]["cisa_kev"] \in SyncState \cup {NoRow}
<1> DEFINE k == "cisa_kev"
<1>1. /\ "sync_state" \in DOMAIN db /\ k \in DOMAIN db["sync_state"]
      /\ db["sync_state"][k] \in SyncState \cup {NoRow}
  BY Tabled DEF TableNames
<1>2. \A row \in SyncState : IsRow(row)
  BY DEF SyncState, IsRow
<1>3. \A w \in ws : w.at = <<"sync_state", k>> /\ w.how = "insert" =>
         w.set \in SyncState /\ IsRow(w.set)
  BY <1>2, InsertOf DEF Allowed
<1>4. PICK old, row : old = db["sync_state"][k] /\ row = Flushed(ws, {})["sync_state"][k]
  OBVIOUS
<1>5. ASSUME NEW w \in ws, w.at = <<"sync_state", k>>, w.how = "update", old # NoRow
      PROVE  Merged(old, w.set) \in SyncState
  <2>1. SyncColumns(w.set)
    BY <1>5, UpdateOf DEF Allowed
  <2>2. PICK set : set = w.set
    OBVIOUS
  <2>3. old \in SyncState /\ SyncColumns(set)
    BY <1>1, <1>4, <1>5, <2>1, <2>2
  <2>4. Merged(old, set) \in SyncState
    BY <2>3 DEF Merged, SyncState, SyncColumns
  <2>5. QED
    BY <2>2, <2>4
<1>6. Stored(row, old, ws, <<"sync_state", k>>)
  BY <1>1, <1>2, <1>3, <1>4, FlushFrom
<1>7. QED
  BY <1>1, <1>3, <1>4, <1>5, <1>6 DEF Stored

-----------------------------------------------------------------------------
(***************************************************************************)
(* The requests.                                                           *)
(***************************************************************************)
\* The mark of an enrichment stays.
EnrichedStays ==
    \A o \in Observables :
        observables[o] # NoRow /\ observables[o].enriched = TRUE =>
            observables'[o] # NoRow /\ observables'[o].enriched = TRUE

LEMMA WriteStays ==
    ASSUME NEW w, WriteOK(w), EnrichedStays
    PROVE  WriteOK(w)'
<1>1. CASE w.how = "insert"
  BY <1>1 DEF WriteOK, InsertOK
<1>2. CASE w.how = "update"
  <2>1. UpdateOK(w)
    BY <1>2 DEF WriteOK
  <2>2. CASE \E o \in Observables : w.at = <<"observables", o>> /\ ObservableColumns(o, w.set)
    <3>1. PICK o \in Observables : w.at = <<"observables", o>> /\ ObservableColumns(o, w.set)
      BY <2>2
    <3>2. PICK set : set = w.set
      OBVIOUS
    <3>3. ObservableColumns(o, set)'
      BY <3>1, <3>2 DEF ObservableColumns, EnrichedStays
    <3>4. QED
      BY <1>2, <3>1, <3>2, <3>3 DEF WriteOK, UpdateOK
  <2>3. CASE ~\E o \in Observables : w.at = <<"observables", o>> /\ ObservableColumns(o, w.set)
    BY <1>2, <2>1, <2>3 DEF WriteOK, UpdateOK
  <2>4. QED
    BY <2>2, <2>3
<1>3. QED
  BY <1>1, <1>2 DEF WriteOK

\* A request that waits while another one acts: what it is about to write
\* stays allowed, and timely unless it is overtaken.
LEMMA SlotWaits ==
    ASSUME NEW x, SlotOK(x), x.phase # "idle", EnrichedStays, NEW y,
           DOMAIN y = DOMAIN x, y.phase = x.phase, y.op = x.op, y.on = x.on,
           y.writes = x.writes, y.then = x.then, y.overtaken \in BOOLEAN,
           ~y.overtaken => ~x.overtaken /\ db' = db
    PROVE  SlotOK(y)'
<1>1. /\ DOMAIN x = {"phase", "op", "on", "n", "writes", "then", "overtaken"}
      /\ x.phase \in {"flush", "record"}
      /\ x.then \in {"answer", "record"}
      /\ "record" \in {x.phase, x.then} => x.on.items \in Nat
  BY DEF SlotOK
<1>2. ASSUME NEW w \in y.writes
      PROVE  WriteOK(w)' /\ AskedFor(w, y.op, y.on)' /\ (~y.overtaken => Timely(w, y.on))'
  <2>1. WriteOK(w) /\ AskedFor(w, y.op, y.on) /\ (~x.overtaken => Timely(w, y.on))
    BY <1>2 DEF SlotOK
  <2>2. WriteOK(w)'
    BY <2>1, WriteStays
  <2>3. AskedFor(w, y.op, y.on)'
    BY <2>1 DEF AskedFor
  <2>4. ASSUME ~y.overtaken
        PROVE  Timely(w, y.on)'
    <3>1. Timely(w, y.on) /\ db' = db
      BY <2>1, <2>4
    <3>2. observables' = observables /\ connections' = connections
      BY <3>1 DEF observables, connections
    <3>3. QED
      BY <3>1, <3>2 DEF Timely, Respelled
  <2>5. QED
    BY <2>2, <2>3, <2>4
<1>3. QED
  BY <1>1, <1>2 DEF SlotOK

LEMMA Waiting ==
    ASSUME NEW x, SlotOK(x), UNCHANGED db
    PROVE  SlotOK(x)'
<1>1. CASE x.phase = "idle"
  BY <1>1 DEF SlotOK
<1>2. CASE x.phase # "idle"
  <2>1. EnrichedStays
    BY DEF EnrichedStays, observables
  <2>2. x.overtaken \in BOOLEAN
    BY <1>2 DEF SlotOK
  <2>3. QED
    BY <1>2, <2>1, <2>2, SlotWaits
<1>3. QED
  BY <1>1, <1>2

LEMMA TablesStay ==
    ASSUME IInv, UNCHANGED db, served' \in 0..MaxRequests
    PROVE  /\ TypeOK' /\ DOMAIN db' = TableNames
           /\ (DOMAIN enrichments)' = Ids \X Sources
           /\ EnrichedFirst' /\ OneMarkerEach'
<1>1. /\ observables' = observables /\ enrichments' = enrichments /\ kev' = kev
      /\ sync_state' = sync_state /\ connections' = connections
  BY DEF observables, enrichments, kev, sync_state, connections
<1>2. TypeOK'
  BY <1>1 DEF IInv, TypeOK, IntegrationsTypeOK
<1>3. QED
  BY <1>1, <1>2 DEF IInv, EnrichedFirst, OneMarkerEach

\* One slot changes and the tables do not.
LEMMA SlotStep ==
    ASSUME IInv, NEW r \in Slots, NEW y, SlotOK(y), slot' = [slot EXCEPT ![r] = y],
           UNCHANGED db, served' \in 0..MaxRequests
    PROVE  IInv'
<1>1. DOMAIN slot' = Slots
  BY DEF IInv
<1>2. SlotOK(y)'
  BY Waiting
<1>3. \A q \in Slots : SlotOK(slot[q])'
  <2> TAKE q \in Slots
  <2>1. CASE q = r
    BY <1>2, <2>1 DEF IInv
  <2>2. CASE q # r
    <3>1. PICK x : x = slot[q] /\ SlotOK(x)
      BY DEF IInv
    <3>2. SlotOK(x)'
      BY <3>1, Waiting
    <3>3. slot'[q] = x
      BY <2>2, <3>1 DEF IInv
    <3>4. QED
      BY <3>2, <3>3
  <2>3. QED
    BY <2>1, <2>2
<1>4. QED
  BY <1>1, <1>3, TablesStay DEF IInv

LEMMA BeginOK ==
    ASSUME IInv, NEW r \in Slots, NEW op, NEW on, NEW writes, NEW then,
           Begin(r, op, on, writes, then), UNCHANGED db,
           then \in {"answer", "record"}, then = "record" => on.items \in Nat,
           \A w \in writes : WriteOK(w) /\ AskedFor(w, op, on) /\ Timely(w, on)
    PROVE  IInv'
<1>1. PICK y : y = [phase |-> "flush", op |-> op, on |-> on, n |-> Number,
                    writes |-> writes, then |-> then, overtaken |-> FALSE]
  OBVIOUS
<1>2. slot' = [slot EXCEPT ![r] = y]
  BY <1>1 DEF Begin, BeginAt
<1>3. /\ DOMAIN y = {"phase", "op", "on", "n", "writes", "then", "overtaken"}
      /\ y.phase = "flush" /\ y.op = op /\ y.on = on /\ y.writes = writes
      /\ y.then = then /\ y.overtaken = FALSE
  BY <1>1
<1>4. SlotOK(y)
  BY <1>3 DEF SlotOK
<1>5. served' \in 0..MaxRequests
  BY MaxRequestsNat DEF Begin, BeginAt, Free, Number, IInv, TypeOK
<1>6. QED
  BY <1>2, <1>4, <1>5, SlotStep

\* The number of a request that begins.
LEMMA NumberOK ==
    ASSUME IInv, NEW r \in Slots, Free(r)
    PROVE  Number \in Ids
  BY MaxRequestsNat DEF Free, Number, IInv, TypeOK, Ids

LEMMA CreateOK ==
    ASSUME IInv, NEW r \in Slots, NEW o \in Observables, create_observable(r, o)
    PROVE  IInv'
<1>1. PICK row : row = [id |-> Number, enriched |-> FALSE, score |-> 0,
                        verdict |-> "unknown", factors |-> NoRow]
  OBVIOUS
<1>2. PICK w : w = Insert("observables", o, row)
  OBVIOUS
<1>3. Begin(r, "create", o, {w}, "answer") /\ UNCHANGED db
  BY <1>1, <1>2 DEF create_observable
<1>4. Number \in Ids
  BY <1>3, NumberOK DEF Begin, BeginAt
<1>5. ObservableAdded(row)
  <2>1. /\ row.id \in Ids /\ row.enriched = FALSE /\ row.score = 0
        /\ row.verdict = "unknown" /\ row.factors = NoRow
    BY <1>1, <1>4
  <2>2. row \in Observable
    BY <1>1, <1>4 DEF Observable
  <2>3. QED
    BY <2>1, <2>2 DEF ObservableAdded
<1>6. w.at = <<"observables", o>> /\ w.how = "insert" /\ w.set = row
  BY <1>2, Added
<1>7. WriteOK(w) /\ AskedFor(w, "create", o) /\ Timely(w, o)
  BY <1>5, <1>6 DEF WriteOK, InsertOK, AskedFor, Timely
<1>8. QED
  BY <1>3, <1>7, BeginOK

LEMMA AnswersOK ==
    ASSUME NEW o \in Observables, NEW asked \in SUBSET Sources,
           NEW answers \in Answers(o, asked)
    PROVE  /\ DOMAIN answers = asked
           /\ \A s \in asked : answers[s] \in Answer
<1>1. /\ DOMAIN answers = asked
      /\ \A s \in asked : answers[s] \in MayAnswer(o, s)
  BY DEF Answers
<1>2. ASSUME NEW s \in Sources, NEW a \in MayAnswer(o, s)
      PROVE  a \in Answer
  <2>1. CASE s = "cisa_kev"
    <3>1. KevAnswer(o) \in {"absent", "ransomware", "listed"}
      BY DEF KevAnswer
    <3>2. MayAnswer(o, s) = {KevAnswer(o)}
      BY <2>1 DEF MayAnswer
    <3>3. QED
      BY <1>2, <3>1, <3>2 DEF Answer
  <2>2. CASE s = "epss"
    BY <1>2, <2>2 DEF MayAnswer, Answer
  <2>3. CASE s = "urlhaus"
    <3>1. UrlhausListed(Kind[o]) \subseteq {"online", "offline", "payload", "host"}
      BY DEF UrlhausListed
    <3>2. MayAnswer(o, s) = {"skipped", "unlisted"} \cup UrlhausListed(Kind[o])
      BY <2>3 DEF MayAnswer
    <3>3. QED
      BY <1>2, <3>1, <3>2 DEF Answer
  <2>4. QED
    BY <2>1, <2>2, <2>3 DEF Sources
<1>3. QED
  BY <1>1, <1>2

\* The write of an enrichment to the observable.
LEMMA AssessedWrite ==
    ASSUME IInv, NEW o \in Observables, observables[o] # NoRow,
           NEW answers, NEW failed, NEW on, on.answered = DOMAIN answers,
           NEW w, w = Update("observables", o, observables[o],
                             Marked(Assessed(observables[o], answers, failed)))
    PROVE  WriteOK(w) /\ AskedFor(w, "enrich", on) /\ Timely(w, on)
<1>1. PICK old : old = observables[o]
  OBVIOUS
<1>2. PICK new : new = Marked(Assessed(old, answers, failed))
  OBVIOUS
<1>3. /\ old \in Observable /\ old # NoRow
      /\ old.enriched = FALSE => old.factors = NoRow
  BY <1>1, Tabled DEF observables, IInv, EnrichedFirst
<1>4. /\ DOMAIN new = DOMAIN old /\ new.id = old.id /\ new.enriched = TRUE
      /\ IsRow(new)
      /\ new.score \in 0..100
      /\ new.verdict \in {"unknown", "no_known_threat", "low", "suspicious",
                          "malicious"}
      /\ new.factors # old.factors => new.factors \in SUBSET Factor
      /\ Explained(old) => Explained(new)
      /\ new.factors # old.factors /\ old.factors # NoRow => DOMAIN answers # {}
  <2>1. Assesses(new, old, answers)
    BY <1>2, <1>3, AssessedRow
  <2>2. QED
    BY <2>1 DEF Assesses
<1>5. w = Update("observables", o, old, new)
  BY <1>1, <1>2
<1>6. PICK set : set = w.set
  OBVIOUS
<1>7. /\ w.at = <<"observables", o>> /\ w.how = "update"
      /\ DOMAIN set = {c \in DOMAIN old : new[c] # old[c]}
      /\ \A c \in DOMAIN set : set[c] = new[c]
  BY <1>5, <1>6, Updated
<1>8. /\ DOMAIN old = {"id", "enriched", "score", "verdict", "factors"}
      /\ old.enriched \in BOOLEAN
  BY <1>3 DEF Observable
<1>9. ObservableColumns(o, set)
  <2>1. "id" \notin DOMAIN set
    BY <1>4, <1>7
  <2>2. "enriched" \notin DOMAIN set => old.enriched = TRUE
    BY <1>4, <1>7, <1>8
  <2>3. DOMAIN set \subseteq {"enriched", "score", "verdict", "factors"}
    BY <1>7, <1>8, <2>1
  <2>4. "factors" \in DOMAIN set => set["factors"] \in SUBSET Factor
    BY <1>4, <1>7
  <2>5. /\ "enriched" \in DOMAIN set => set["enriched"] = TRUE
        /\ "score" \in DOMAIN set => set["score"] \in 0..100
        /\ "verdict" \in DOMAIN set =>
              set["verdict"] \in {"unknown", "no_known_threat", "low", "suspicious",
                                  "malicious"}
    BY <1>4, <1>7
  <2>6. QED
    BY <1>1, <1>3, <2>2, <2>3, <2>4, <2>5 DEF ObservableColumns
<1>10. WriteOK(w)
  BY <1>6, <1>7, <1>9 DEF WriteOK, UpdateOK
<1>11. AskedFor(w, "enrich", on)
  BY <1>7 DEF AskedFor
<1>12. Merged(old, set) = [c \in DOMAIN old |-> new[c]]
  BY <1>7 DEF Merged
<1>13. Explained(old) => Explained(Merged(old, set))
  <2>1. PICK row : row = Merged(old, set)
    OBVIOUS
  <2>2. /\ row.score = new.score /\ row.verdict = new.verdict
        /\ row.factors = new.factors
    BY <1>8, <1>12, <2>1
  <2>3. new # NoRow
    <3>1. new.verdict \in {"unknown", "no_known_threat", "low", "suspicious",
                           "malicious"}
      BY <1>4
    <3>2. new.id \in Ids /\ new.enriched \in BOOLEAN
      BY <1>3, <1>4 DEF Observable
    <3>3. new.factors \in {NoRow} \cup (SUBSET Factor)
      BY <1>3, <1>4 DEF Observable
    <3>4. row \in Observable
      BY <1>4, <1>8, <1>12, <2>1, <3>1, <3>2, <3>3 DEF Observable
    <3>5. new = row
      BY <1>4, <1>12, <2>1 DEF IsRow
    <3>6. QED
      BY <3>4, <3>5, NullAssumption
  <2>4. QED
    BY <1>4, <2>1, <2>2, <2>3 DEF Explained
<1>14. Known(o, observables) /\ "factors" \in DOMAIN set => on.answered # {}
  BY <1>1, <1>4, <1>7 DEF Known
<1>15. Timely(w, on)
  <2>1. \A p : w.at = <<"observables", p>> => p = o
    BY <1>7
  <2>2. \A c : w.at # <<"integration_connections", c>>
    BY <1>7
  <2>3. QED
    BY <1>1, <1>6, <1>13, <1>14, <2>1, <2>2 DEF Timely
<1>16. QED
  BY <1>10, <1>11, <1>15

LEMMA EnrichOK ==
    ASSUME IInv, NEW r \in Slots, NEW o \in Observables, enrich_observable(r, o)
    PROVE  IInv'
<1>1. PICK failed \in SUBSET (Asked(o) \ {"cisa_kev"}) :
      \E answers \in Answers(o, Asked(o) \ failed) :
         Begin(r, "enrich", [observable |-> o, answered |-> DOMAIN answers],
            {Insert("enrichments", <<Number, s>>,
                    [id |-> Number, observable |-> o, data |-> answers[s]])
               : s \in DOMAIN answers} \cup
            {Update("observables", o, observables[o],
                    Marked(Assessed(observables[o], answers, failed)))}, "answer")
  BY DEF enrich_observable, Marked
<1>2. PICK answers \in Answers(o, Asked(o) \ failed) :
         Begin(r, "enrich", [observable |-> o, answered |-> DOMAIN answers],
            {Insert("enrichments", <<Number, s>>,
                    [id |-> Number, observable |-> o, data |-> answers[s]])
               : s \in DOMAIN answers} \cup
            {Update("observables", o, observables[o],
                    Marked(Assessed(observables[o], answers, failed)))}, "answer")
  BY <1>1
<1>3. PICK on : on = [observable |-> o, answered |-> DOMAIN answers]
  OBVIOUS
<1>4. PICK v : v = Update("observables", o, observables[o],
                     Marked(Assessed(observables[o], answers, failed)))
  OBVIOUS
<1>5. PICK inserts : inserts =
            {Insert("enrichments", <<Number, s>>,
                    [id |-> Number, observable |-> o, data |-> answers[s]])
               : s \in DOMAIN answers}
  OBVIOUS
<1>6. Begin(r, "enrich", on, inserts \cup {v}, "answer")
  BY <1>2, <1>3, <1>4, <1>5
<1>7. UNCHANGED db /\ observables[o] # NoRow
  BY DEF enrich_observable
<1>8. on.answered = DOMAIN answers
  BY <1>3
<1>9. WriteOK(v) /\ AskedFor(v, "enrich", on) /\ Timely(v, on)
  BY <1>4, <1>7, <1>8, AssessedWrite
<1>10. Number \in Ids
  BY <1>6, NumberOK DEF Begin, BeginAt
<1>11. ASSUME NEW w \in inserts
       PROVE  WriteOK(w) /\ AskedFor(w, "enrich", on) /\ Timely(w, on)
  <2>1. PICK s \in DOMAIN answers :
           w = Insert("enrichments", <<Number, s>>,
                      [id |-> Number, observable |-> o, data |-> answers[s]])
    BY <1>5, <1>11
  <2>2. PICK a : a = answers[s]
    OBVIOUS
  <2>3. s \in Asked(o) /\ s \in Sources /\ a \in Answer
    <3>1. Asked(o) \ failed \in SUBSET Sources
      BY DEF Asked
    <3>2. QED
      BY <2>2, <3>1, AnswersOK
  <2>4. PICK k, row : k = <<Number, s>>
                      /\ row = [id |-> Number, observable |-> o, data |-> a]
    OBVIOUS
  <2>5. w = Insert("enrichments", k, row)
    BY <2>1, <2>2, <2>4
  <2>6. w.at = <<"enrichments", k>> /\ w.how = "insert" /\ w.set = row
    BY <2>5, Added
  <2>7. k \in Ids \X Sources /\ k[2] = s
    BY <1>10, <2>3, <2>4
  <2>8. row \in Enrichment /\ row.observable = o
    BY <1>10, <2>3, <2>4 DEF Enrichment
  <2>9. EnrichmentAdded(k, row)
    BY <2>3, <2>7, <2>8 DEF EnrichmentAdded
  <2>10. QED
    BY <2>6, <2>7, <2>9 DEF WriteOK, InsertOK, AskedFor, Timely
<1>12. \A w \in inserts \cup {v} : WriteOK(w) /\ AskedFor(w, "enrich", on) /\ Timely(w, on)
  BY <1>9, <1>11
<1>13. QED
  BY <1>6, <1>7, <1>12, BeginOK

\* One write of a sync of the KEV catalog.
KevWrite(c, known_ransomware) ==
    LET entry == [id |-> 0, known_ransomware |-> known_ransomware] IN
    IF kev[c] = NoRow THEN Insert("kev", c, entry)
    ELSE Update("kev", c, kev[c], entry)

LEMMA KevWriteOK ==
    ASSUME IInv, NEW c \in Cves, NEW b \in BOOLEAN, NEW on
    PROVE  LET w == KevWrite(c, b) IN
           WriteOK(w) /\ AskedFor(w, "sync", on) /\ Timely(w, on)
<1>1. PICK entry : entry = [id |-> 0, known_ransomware |-> b]
  OBVIOUS
<1>2. /\ entry \in KEVEntry /\ entry.id = 0 /\ entry.known_ransomware = b
      /\ DOMAIN entry = {"id", "known_ransomware"}
  BY <1>1 DEF KEVEntry
<1>3. PICK old, w : old = kev[c] /\ w = KevWrite(c, b)
  OBVIOUS
<1>4. CASE old = NoRow
  <2>1. w = Insert("kev", c, entry)
    BY <1>1, <1>3, <1>4 DEF KevWrite
  <2>2. w.at = <<"kev", c>> /\ w.how = "insert" /\ w.set = entry
    BY <2>1, Added
  <2>3. QED
    BY <1>2, <1>3, <2>2 DEF WriteOK, InsertOK, AskedFor, Timely
<1>5. CASE old # NoRow
  <2>1. w = Update("kev", c, old, entry)
    BY <1>1, <1>3, <1>5 DEF KevWrite
  <2>2. /\ w.at = <<"kev", c>> /\ w.how = "update"
        /\ DOMAIN w.set = {x \in DOMAIN old : entry[x] # old[x]}
        /\ \A x \in DOMAIN w.set : w.set[x] = entry[x]
    BY <2>1, Updated
  <2>3. old \in KEVEntry
    BY <1>3, <1>5, Tabled DEF kev
  <2>4. PICK set : set = w.set
    OBVIOUS
  <2>5. DOMAIN old = {"id", "known_ransomware"} /\ old.id = 0
    BY <2>3 DEF KEVEntry
  <2>6. KevColumns(set)
    BY <1>2, <2>2, <2>4, <2>5 DEF KevColumns
  <2>7. WriteOK(w)
    BY <2>2, <2>4, <2>6 DEF WriteOK, UpdateOK
  <2>8. \A p : w.at # <<"observables", p>> /\ w.at # <<"integration_connections", p>>
    BY <2>2
  <2>9. QED
    BY <1>3, <2>7, <2>8 DEF AskedFor, Timely
<1>6. QED
  BY <1>4, <1>5

LEMMA SyncOK ==
    ASSUME IInv, NEW r \in Slots, NEW feed \in Feeds, sync_kev(r, feed)
    PROVE  IInv'
<1>1. /\ DOMAIN feed \subseteq Cves /\ IsFiniteSet(DOMAIN feed)
      /\ \A c \in DOMAIN feed : feed[c] \in BOOLEAN
  BY ConstantsAssumption
<1>2. PICK on : on = [items |-> Cardinality(DOMAIN feed)]
  OBVIOUS
<1>3. on.items \in Nat
  BY <1>1, <1>2, FS_CardinalityType
<1>4. PICK writes : writes = {KevWrite(c, feed[c]) : c \in DOMAIN feed}
  OBVIOUS
<1>5. Begin(r, "sync", on, writes, "record") /\ UNCHANGED db
  BY <1>2, <1>4 DEF sync_kev, KevWrite
<1>6. ASSUME NEW w \in writes
      PROVE  WriteOK(w) /\ AskedFor(w, "sync", on) /\ Timely(w, on)
  <2>1. PICK c \in DOMAIN feed : w = KevWrite(c, feed[c])
    BY <1>4, <1>6
  <2>2. PICK b \in BOOLEAN : b = feed[c]
    BY <1>1
  <2>3. c \in Cves /\ w = KevWrite(c, b)
    BY <1>1, <2>1, <2>2
  <2>4. QED
    BY <2>3, KevWriteOK
<1>7. QED
  BY <1>3, <1>5, <1>6, BeginOK

LEMMA RecordOK ==
    ASSUME IInv, NEW r \in Slots, record_sync(r)
    PROVE  IInv'
<1>1. PICK x : x = slot[r] /\ x.phase = "record" /\ SlotOK(x)
  BY DEF record_sync, IInv
<1>2. /\ DOMAIN x = {"phase", "op", "on", "n", "writes", "then", "overtaken"}
      /\ x.on.items \in Nat /\ x.overtaken \in BOOLEAN
  BY <1>1 DEF SlotOK
<1>3. PICK old : old = sync_state["cisa_kev"]
  OBVIOUS
<1>4. PICK state : state = [id |-> 0, items |-> x.on.items]
  OBVIOUS
<1>5. /\ state \in SyncState /\ state.id = 0 /\ state.items = x.on.items
      /\ DOMAIN state = {"id", "items"}
  BY <1>2, <1>4 DEF SyncState
<1>6. PICK w : w = IF old = NoRow THEN Insert("sync_state", "cisa_kev", state)
                   ELSE Update("sync_state", "cisa_kev", old, state)
  OBVIOUS
<1>7. PICK y : y = [x EXCEPT !.phase = "flush", !.then = "answer", !.writes = {w}]
  OBVIOUS
<1>8. slot' = [slot EXCEPT ![r] = y] /\ UNCHANGED <<db, served>>
  <2>1. slot' = [slot EXCEPT ![r].phase = "flush", ![r].then = "answer",
                             ![r].writes = {w}]
    BY <1>1, <1>3, <1>4, <1>6 DEF record_sync
  <2>2. QED
    BY <1>1, <1>7, <2>1 DEF record_sync, IInv
<1>9. /\ DOMAIN y = DOMAIN x /\ y.phase = "flush" /\ y.then = "answer"
      /\ y.writes = {w} /\ y.op = x.op /\ y.on = x.on /\ y.overtaken = x.overtaken
  BY <1>2, <1>7
<1>10. /\ WriteOK(w)
       /\ w.at = <<"sync_state", "cisa_kev">>
  <2>1. CASE old = NoRow
    <3>1. w = Insert("sync_state", "cisa_kev", state)
      BY <1>6, <2>1
    <3>2. w.at = <<"sync_state", "cisa_kev">> /\ w.how = "insert" /\ w.set = state
      BY <3>1, Added
    <3>3. QED
      BY <1>5, <3>2 DEF WriteOK, InsertOK
  <2>2. CASE old # NoRow
    <3>1. w = Update("sync_state", "cisa_kev", old, state)
      BY <1>6, <2>2
    <3>2. /\ w.at = <<"sync_state", "cisa_kev">> /\ w.how = "update"
          /\ DOMAIN w.set = {c \in DOMAIN old : state[c] # old[c]}
          /\ \A c \in DOMAIN w.set : w.set[c] = state[c]
      BY <3>1, Updated
    <3>3. old \in SyncState
      BY <1>3, <2>2, Tabled DEF sync_state
    <3>4. PICK set : set = w.set
      OBVIOUS
    <3>5. DOMAIN old = {"id", "items"} /\ old.id = 0
      BY <3>3 DEF SyncState
    <3>6. SyncColumns(set)
      BY <1>2, <1>5, <3>2, <3>4, <3>5 DEF SyncColumns
    <3>7. QED
      BY <3>2, <3>4, <3>6 DEF WriteOK, UpdateOK
  <2>3. QED
    BY <2>1, <2>2
<1>11. AskedFor(w, y.op, y.on) /\ Timely(w, y.on)
  <2>1. \A p : w.at # <<"observables", p>> /\ w.at # <<"integration_connections", p>>
    BY <1>10
  <2>2. QED
    BY <2>1 DEF AskedFor, Timely
<1>12. SlotOK(y)
  BY <1>2, <1>9, <1>10, <1>11 DEF SlotOK
<1>13. QED
  BY <1>8, <1>12, SlotStep DEF IInv, TypeOK

LEMMA ConfigureOK ==
    ASSUME IInv, NEW r \in Slots, NEW c \in Connectors, NEW secret \in Secrets,
           configure_integration(r, c, secret)
    PROVE  IInv'
<1>1. PICK old : old = connections[c]
  OBVIOUS
<1>2. PICK on : on = [connector |-> c, secret |-> secret]
  OBVIOUS
<1>3. on.secret = secret
  BY <1>2
<1>4. CASE old = NoRow
  <2>1. PICK new : new = [id |-> Number, enabled |-> TRUE,
                          secrets_metadata |-> Sent(secret)]
    OBVIOUS
  <2>2. PICK w : w = Insert("integration_connections", c, new)
    OBVIOUS
  <2>3. Begin(r, "configure", on, {w}, "answer") /\ UNCHANGED db
    BY <1>1, <1>2, <1>4, <2>1, <2>2 DEF configure_integration
  <2>4. Number \in Ids
    BY <2>3, NumberOK DEF Begin, BeginAt
  <2>5. w.at = <<"integration_connections", c>> /\ w.how = "insert" /\ w.set = new
    BY <2>2, Added
  <2>6. new \in Connection /\ new.secrets_metadata = Sent(secret)
    BY <2>1, <2>4, SentOK DEF Connection
  <2>7. c \in NeedsSecret => secret # NoRow /\ secret.present
    BY <1>1, <1>4 DEF configure_integration, Complete
  <2>8. ConnectionAdded(c, new)
    BY <2>6, <2>7, SentOK DEF ConnectionAdded, ReadyRow
  <2>9. WriteOK(w)
    BY <2>5, <2>8 DEF WriteOK, InsertOK
  <2>10. AskedFor(w, "configure", on) /\ Timely(w, on)
    BY <2>5 DEF AskedFor, Timely
  <2>11. QED
    BY <2>3, <2>9, <2>10, BeginOK
<1>5. CASE old # NoRow
  <2>1. old \in Connection
    BY <1>1, <1>5, Tabled DEF connections
  <2>2. PICK markers, merged : /\ markers = old.secrets_metadata
                               /\ merged = MergedMarkers(markers, secret)
    OBVIOUS
  <2>3. PICK new : new = [old EXCEPT !.enabled = TRUE, !.secrets_metadata = merged]
    OBVIOUS
  <2>4. PICK w : w = Update("integration_connections", c, old, new)
    OBVIOUS
  <2>5. Begin(r, "configure", on, {w}, "answer") /\ UNCHANGED db
    <3>1. new = [old EXCEPT !.enabled = TRUE,
                            !.secrets_metadata = MergedMarkers(@, secret)]
      BY <2>1, <2>2, <2>3 DEF Connection
    <3>2. QED
      BY <1>1, <1>2, <1>5, <2>4, <3>1 DEF configure_integration
  <2>6. /\ DOMAIN old = {"id", "enabled", "secrets_metadata"} /\ markers \in Markers
        /\ old.enabled \in BOOLEAN
    BY <2>1, <2>2 DEF Connection
  <2>7. /\ DOMAIN new = DOMAIN old /\ new.id = old.id /\ new.enabled = TRUE
        /\ new.secrets_metadata = merged
    BY <2>3, <2>6
  <2>8. PICK set : set = w.set
    OBVIOUS
  <2>9. /\ w.at = <<"integration_connections", c>> /\ w.how = "update"
        /\ DOMAIN set = {x \in DOMAIN old : new[x] # old[x]}
        /\ \A x \in DOMAIN set : set[x] = new[x]
    BY <2>4, <2>8, Updated
  <2>10. /\ merged \in Markers
         /\ secret = NoRow => merged = markers
         /\ \/ markers = <<>> \/ ~Last(markers).present
            \/ merged # <<>> /\ Last(merged).present
            \/ /\ secret # NoRow /\ ~secret.present
               /\ \A i \in DOMAIN markers : markers[i].spelling # secret.spelling
    BY <2>2, <2>6, MergedOK
  <2>11. ConnectionColumns(set)
    BY <2>6, <2>7, <2>9, <2>10 DEF ConnectionColumns
  <2>12. WriteOK(w)
    BY <2>8, <2>9, <2>11 DEF WriteOK, UpdateOK
  <2>13. \A p : /\ w.at # <<"observables", p>>
                /\ w.at = <<"integration_connections", p>> => p = c
    BY <2>9
  <2>14. secret = NoRow => "secrets_metadata" \notin DOMAIN set
    BY <2>2, <2>7, <2>9, <2>10
  <2>15. AskedFor(w, "configure", on)
    BY <1>3, <2>8, <2>13, <2>14 DEF AskedFor
  <2>16. Merged(old, set).secrets_metadata = merged
    BY <2>2, <2>6, <2>7, <2>9 DEF Merged
  <2>17. \/ ~ReadyRow(c, old)
         \/ ReadyRow(c, Merged(old, set))
         \/ Respelled(c, secret)
    BY <1>1, <2>2, <2>10, <2>16 DEF ReadyRow, Respelled
  <2>18. Timely(w, on)
    BY <1>1, <1>3, <2>8, <2>13, <2>17 DEF Timely
  <2>19. QED
    BY <2>5, <2>12, <2>15, <2>18, BeginOK
<1>6. QED
  BY <1>4, <1>5

-----------------------------------------------------------------------------
(***************************************************************************)
(* The commits.                                                            *)
(***************************************************************************)
\* An observable written over an observable.
Observes(row, old) ==
    /\ row \in Observable /\ row # NoRow
    /\ old.enriched = TRUE => row.enriched = TRUE
    /\ row.enriched = FALSE => row.factors = NoRow

LEMMA ObservableMerged ==
    ASSUME NEW o \in Observables, NEW old \in Observable, old = observables[o],
           NEW set, ObservableColumns(o, set),
           old.enriched = FALSE => old.factors = NoRow
    PROVE  Observes(Merged(old, set), old)
<1>1. PICK row : row = Merged(old, set)
  OBVIOUS
<1>2. /\ DOMAIN old = {"id", "enriched", "score", "verdict", "factors"}
      /\ old.id \in Ids /\ old.enriched \in BOOLEAN /\ old.score \in 0..100
      /\ old.verdict \in {"unknown", "no_known_threat", "low", "suspicious",
                          "malicious"}
      /\ old.factors \in {NoRow} \cup (SUBSET Factor)
  BY DEF Observable
<1>3. /\ row = [c \in {"id", "enriched", "score", "verdict", "factors"} |->
                  IF c \in DOMAIN set THEN set[c] ELSE old[c]]
  BY <1>1, <1>2 DEF Merged
<1>4. /\ row.id = old.id
      /\ row.enriched = IF "enriched" \in DOMAIN set THEN TRUE ELSE old.enriched
      /\ row.score \in 0..100
      /\ row.verdict \in {"unknown", "no_known_threat", "low", "suspicious",
                          "malicious"}
      /\ row.factors \in {NoRow} \cup (SUBSET Factor)
  BY <1>2, <1>3 DEF ObservableColumns
<1>5. row \in Observable
  BY <1>2, <1>3, <1>4 DEF Observable
<1>6. row.enriched = FALSE => row.factors = NoRow
  <2>1. SUFFICES ASSUME row.enriched = FALSE
                 PROVE  row.factors = NoRow
    OBVIOUS
  <2>2. "enriched" \notin DOMAIN set /\ old.enriched = FALSE
    BY <1>4, <2>1
  <2>3. "factors" \notin DOMAIN set
    BY <2>2 DEF ObservableColumns
  <2>4. row.factors = old.factors
    BY <1>3, <2>3
  <2>5. QED
    BY <2>2, <2>4
<1>7. row # NoRow
  BY <1>5, NullAssumption
<1>8. QED
  BY <1>1, <1>2, <1>4, <1>5, <1>6, <1>7 DEF Observes

LEMMA ConnectionMerged ==
    ASSUME NEW old \in Connection, NEW set, ConnectionColumns(set)
    PROVE  Merged(old, set) \in Connection
  BY DEF Merged, Connection, ConnectionColumns

LEMMA ConnectionRow ==
    ASSUME NEW row \in Connection
    PROVE  row \in IntegrationConnection /\ row # NoRow
<1>1. row.secrets_metadata \in SeqOf(Marker, Cardinality(Spellings))
  BY MarkersBounded DEF Connection
<1>2. row \in IntegrationConnection
  BY <1>1 DEF Connection, IntegrationConnection
<1>3. QED
  BY <1>2, NullConnection

\* The transaction of r goes through: what it may write, and what it leaves in
\* its slot and in the slots of the others.
LEMMA CommitAllowed ==
    ASSUME IInv, NEW r \in Slots, Commit(r, {})
    PROVE  /\ Allowed(slot[r].writes)
           /\ db' = Flushed(slot[r].writes, {})
           /\ UNCHANGED served
<1>1. SlotOK(slot[r]) /\ slot[r].phase = "flush" /\ ~Raises(slot[r].writes, {})
  BY DEF IInv, Commit
<1>2. QED
  BY <1>1 DEF SlotOK, Allowed, Commit

LEMMA CommitTables ==
    ASSUME IInv, NEW ws, Allowed(ws), db' = Flushed(ws, {}), UNCHANGED served
    PROVE  /\ TypeOK' /\ DOMAIN db' = TableNames
           /\ (DOMAIN enrichments)' = Ids \X Sources
           /\ EnrichedFirst' /\ OneMarkerEach' /\ EnrichedStays
<1>1. /\ DOMAIN db' = DOMAIN db /\ DOMAIN db = TableNames
      /\ \A t \in DOMAIN db : db'[t] = [k \in DOMAIN db[t] |-> db'[t][k]]
  BY FlushedTables, Tabled
<1>2. /\ DOMAIN observables = Observables /\ DOMAIN enrichments = Ids \X Sources
      /\ DOMAIN kev = Cves /\ DOMAIN sync_state = {"cisa_kev"}
      /\ DOMAIN connections = Connectors
  BY Tabled DEF observables, enrichments, kev, sync_state, connections
<1>3. /\ observables' = [o \in Observables |-> observables'[o]]
      /\ enrichments' = [k \in Ids \X Sources |-> enrichments'[k]]
      /\ kev' = [c \in Cves |-> kev'[c]]
      /\ sync_state' = [s \in {"cisa_kev"} |-> sync_state'[s]]
      /\ connections' = [c \in Connectors |-> connections'[c]]
  BY <1>1, <1>2 DEF TableNames, observables, enrichments, kev, sync_state, connections
<1>4. ASSUME NEW o \in Observables
      PROVE  /\ observables'[o] \in Observable \cup {NoRow}
             /\ observables[o] # NoRow /\ observables[o].enriched = TRUE =>
                   observables'[o] # NoRow /\ observables'[o].enriched = TRUE
             /\ observables'[o] # NoRow /\ observables'[o].enriched = FALSE =>
                   observables'[o].factors = NoRow
  <2>1. PICK old, row : old = observables[o] /\ row = observables'[o]
    OBVIOUS
  <2>2. /\ old \in Observable \cup {NoRow}
        /\ old # NoRow /\ old.enriched = FALSE => old.factors = NoRow
    BY <2>1, Tabled DEF observables, IInv, EnrichedFirst
  <2>3. \/ row = old
        \/ old = NoRow /\ ObservableAdded(row)
        \/ \E w \in ws : /\ w.at = <<"observables", o>> /\ w.how = "update"
                         /\ old # NoRow /\ old \in Observable
                         /\ ObservableColumns(o, w.set)
                         /\ row = Merged(old, w.set)
    BY <2>1, ObservableFlushed DEF observables
  <2>4. CASE row = old
    BY <2>1, <2>2, <2>4
  <2>5. CASE old = NoRow /\ ObservableAdded(row)
    BY <2>1, <2>5 DEF ObservableAdded
  <2>6. CASE \E w \in ws : /\ w.at = <<"observables", o>> /\ w.how = "update"
                           /\ old # NoRow /\ old \in Observable
                           /\ ObservableColumns(o, w.set)
                           /\ row = Merged(old, w.set)
    <3>1. PICK set : /\ old # NoRow /\ old \in Observable
                     /\ ObservableColumns(o, set) /\ row = Merged(old, set)
      BY <2>6
    <3>2. Observes(row, old)
      BY <2>1, <2>2, <3>1, ObservableMerged
    <3>3. QED
      BY <2>1, <3>2 DEF Observes
  <2>7. QED
    BY <2>3, <2>4, <2>5, <2>6
<1>5. ASSUME NEW c \in Connectors
      PROVE  connections'[c] \in Connection \cup {NoRow}
  <2>1. PICK old, row : old = connections[c] /\ row = connections'[c]
    OBVIOUS
  <2>2. old \in Connection \cup {NoRow}
    BY <2>1, Tabled DEF connections
  <2>3. \/ row = old
        \/ old = NoRow /\ ConnectionAdded(c, row)
        \/ \E w \in ws : /\ w.at = <<"integration_connections", c>>
                         /\ w.how = "update"
                         /\ old # NoRow /\ old \in Connection
                         /\ ConnectionColumns(w.set)
                         /\ row = Merged(old, w.set)
    BY <2>1, ConnectionFlushed DEF connections
  <2>4. CASE \E w \in ws : /\ w.at = <<"integration_connections", c>>
                           /\ w.how = "update"
                           /\ old # NoRow /\ old \in Connection
                           /\ ConnectionColumns(w.set)
                           /\ row = Merged(old, w.set)
    BY <2>1, <2>4, ConnectionMerged
  <2>5. QED
    BY <2>1, <2>2, <2>3, <2>4 DEF ConnectionAdded
<1>6. ASSUME NEW k \in Ids \X Sources, enrichments'[k] # NoRow
      PROVE  /\ enrichments'[k] \in Enrichment
             /\ k[2] \in Asked(enrichments'[k].observable)
  <2>1. PICK row : row = enrichments'[k]
    OBVIOUS
  <2>2. row = enrichments[k] \/ EnrichmentAdded(k, row)
    BY <2>1, EnrichmentFlushed DEF enrichments
  <2>3. CASE row = enrichments[k]
    BY <1>6, <2>1, <2>3 DEF IInv, TypeOK
  <2>4. CASE EnrichmentAdded(k, row)
    BY <2>1, <2>4 DEF EnrichmentAdded
  <2>5. QED
    BY <2>2, <2>3, <2>4
<1>7. \A c \in Cves : kev'[c] \in KEVEntry \cup {NoRow}
  BY KevFlushed DEF kev
<1>8. sync_state'["cisa_kev"] \in SyncState \cup {NoRow}
  BY SyncFlushed DEF sync_state
<1>9. TypeOK'
  <2>1. observables' \in [Observables -> Observable \cup {NoRow}]
    BY <1>3, <1>4
  <2>2. kev' \in [Cves -> KEVEntry \cup {NoRow}]
    BY <1>3, <1>7
  <2>3. sync_state' \in [{"cisa_kev"} -> SyncState \cup {NoRow}]
    BY <1>3, <1>8
  <2>4. IntegrationsTypeOK'
    <3>1. \A c \in Connectors : connections'[c] \in IntegrationConnection \cup {NoRow}
      BY <1>5, ConnectionRow
    <3>2. QED
      BY <1>3, <3>1 DEF IntegrationsTypeOK
  <2>5. served' \in 0..MaxRequests
    BY DEF IInv, TypeOK
  <2>6. QED
    BY <1>6, <2>1, <2>2, <2>3, <2>4, <2>5 DEF TypeOK
<1>10. EnrichedFirst' /\ EnrichedStays
  BY <1>4 DEF EnrichedFirst, EnrichedStays
<1>11. OneMarkerEach'
  BY <1>5 DEF OneMarkerEach, Connection
<1>12. (DOMAIN enrichments)' = Ids \X Sources
  BY <1>3
<1>13. QED
  BY <1>1, <1>9, <1>10, <1>11, <1>12

LEMMA CommitOK ==
    ASSUME IInv, NEW r \in Slots, Commit(r, {})
    PROVE  IInv'
<1>1. PICK ws : ws = slot[r].writes
  OBVIOUS
<1>2. Allowed(ws) /\ db' = Flushed(ws, {}) /\ UNCHANGED served
  BY <1>1, CommitAllowed
<1>3. /\ TypeOK' /\ DOMAIN db' = TableNames
      /\ (DOMAIN enrichments)' = Ids \X Sources
      /\ EnrichedFirst' /\ OneMarkerEach' /\ EnrichedStays
  BY <1>2, CommitTables
<1>4. PICK x : x = slot[r] /\ SlotOK(x) /\ x.phase = "flush"
  BY DEF IInv, Commit
<1>5. DOMAIN slot' = Slots
  BY DEF Commit
<1>6. ASSUME NEW q \in Slots
      PROVE  SlotOK(slot[q])'
  <2>1. CASE q = r /\ x.then = "answer"
    <3>1. slot'[q] = Idle
      BY <1>4, <2>1 DEF Commit, After
    <3>2. QED
      BY <3>1 DEF Idle, SlotOK
  <2>2. CASE q = r /\ x.then # "answer"
    <3>1. PICK y : y = [x EXCEPT !.phase = x.then, !.writes = {}, !.overtaken = FALSE]
      OBVIOUS
    <3>2. slot'[q] = y
      BY <1>4, <2>2, <3>1 DEF Commit, After
    <3>3. /\ DOMAIN x = {"phase", "op", "on", "n", "writes", "then", "overtaken"}
          /\ x.then = "record" /\ x.on.items \in Nat
      BY <1>4, <2>2 DEF SlotOK
    <3>4. /\ DOMAIN y = DOMAIN x /\ y.phase = "record" /\ y.then = "record"
          /\ y.on = x.on /\ y.writes = {} /\ y.overtaken = FALSE
      BY <3>1, <3>3
    <3>5. SlotOK(y)'
      BY <3>3, <3>4 DEF SlotOK
    <3>6. QED
      BY <3>2, <3>5
  <2>3. CASE q # r /\ slot[q].phase = "idle"
    <3>1. slot'[q] = Idle
      BY <2>3 DEF Commit, Busy
    <3>2. QED
      BY <3>1 DEF Idle, SlotOK
  <2>4. CASE q # r /\ slot[q].phase # "idle"
    <3>1. PICK z : z = slot[q] /\ SlotOK(z) /\ z.phase # "idle"
      BY <2>4 DEF IInv
    <3>2. PICK changed : changed = (db' # db)
      OBVIOUS
    <3>3. PICK y : y = [z EXCEPT !.overtaken = @ \/ changed]
      OBVIOUS
    <3>4. slot'[q] = y
      BY <2>4, <3>1, <3>2, <3>3 DEF Commit, Busy
    <3>5. /\ DOMAIN z = {"phase", "op", "on", "n", "writes", "then", "overtaken"}
          /\ z.overtaken \in BOOLEAN
      BY <3>1 DEF SlotOK
    <3>6. /\ DOMAIN y = DOMAIN z /\ y.phase = z.phase /\ y.op = z.op /\ y.on = z.on
          /\ y.writes = z.writes /\ y.then = z.then
          /\ y.overtaken = (z.overtaken \/ changed)
      BY <3>3, <3>5
    <3>7. y.overtaken \in BOOLEAN /\ (~y.overtaken => ~z.overtaken /\ db' = db)
      BY <3>2, <3>5, <3>6
    <3>8. SlotOK(y)'
      BY <1>3, <3>1, <3>6, <3>7, SlotWaits
    <3>9. QED
      BY <3>4, <3>8
  <2>5. QED
    BY <2>1, <2>2, <2>3, <2>4
<1>7. QED
  BY <1>3, <1>5, <1>6 DEF IInv

\* A flush that is refused and the death of the process only free slots.
LEMMA FreedOK ==
    ASSUME IInv, UNCHANGED <<db, served>>, DOMAIN slot' = Slots,
           \A q \in Slots : slot'[q] \in {slot[q], Idle}
    PROVE  IInv'
<1>1. UNCHANGED db /\ served' \in 0..MaxRequests
  BY DEF IInv, TypeOK
<1>2. \A q \in Slots : SlotOK(slot[q])'
  <2> TAKE q \in Slots
  <2>1. CASE slot'[q] = Idle
    BY <2>1 DEF SlotOK, Idle
  <2>2. CASE slot'[q] = slot[q]
    <3>1. PICK x : x = slot[q] /\ SlotOK(x)
      BY DEF IInv
    <3>2. SlotOK(x)'
      BY <1>1, <3>1, Waiting
    <3>3. QED
      BY <2>2, <3>1, <3>2
  <2>3. QED
    BY <2>1, <2>2
<1>3. QED
  BY <1>1, <1>2, TablesStay DEF IInv

LEMMA InitOK ==
    ASSUME Init
    PROVE  IInv
<1>1. db = Tables /\ slot = [r \in Slots |-> Idle] /\ served = 0
  BY DEF Init
<1>2. /\ observables = [o \in Observables |-> NoRow]
      /\ enrichments = [k \in Ids \X Sources |-> NoRow]
      /\ kev = [c \in Cves |-> NoRow]
      /\ sync_state = [s \in {"cisa_kev"} |-> NoRow]
      /\ connections = [c \in Connectors |-> NoRow]
      /\ DOMAIN db = TableNames
  BY <1>1 DEF Tables, NoConnections, observables, enrichments, kev, sync_state,
     connections, TableNames
<1>3. TypeOK
  BY <1>1, <1>2, MaxRequestsNat DEF TypeOK, IntegrationsTypeOK
<1>4. \A q \in Slots : SlotOK(slot[q])
  BY <1>1 DEF SlotOK, Idle
<1>5. EnrichedFirst /\ OneMarkerEach
  BY <1>2 DEF EnrichedFirst, OneMarkerEach
<1>6. QED
  BY <1>1, <1>2, <1>3, <1>4, <1>5 DEF IInv

LEMMA NextOK ==
    ASSUME IInv, [Next]_vars
    PROVE  IInv'
<1>1. ASSUME NEW r \in Slots, NEW o \in Observables,
             create_observable(r, o) \/ enrich_observable(r, o)
      PROVE  IInv'
  BY <1>1, CreateOK, EnrichOK
<1>2. ASSUME NEW r \in Slots, NEW c \in Connectors, NEW secret \in Secrets,
             configure_integration(r, c, secret)
      PROVE  IInv'
  BY <1>2, ConfigureOK
<1>3. ASSUME NEW r \in Slots, NEW feed \in Feeds, sync_kev(r, feed)
      PROVE  IInv'
  BY <1>3, SyncOK
<1>4. ASSUME NEW r \in Slots, record_sync(r)
      PROVE  IInv'
  BY <1>4, RecordOK
<1>5. ASSUME NEW r \in Slots, Commit(r, {})
      PROVE  IInv'
  BY <1>5, CommitOK
<1>6. ASSUME NEW r \in Slots, CommitRaises(r, {})
      PROVE  IInv'
  <2>1. /\ UNCHANGED <<db, served>> /\ DOMAIN slot' = Slots
        /\ \A q \in Slots : slot'[q] \in {slot[q], Idle}
    BY <1>6 DEF CommitRaises, IInv
  <2>2. QED
    BY <2>1, FreedOK
<1>7. CASE Crash
  <2>1. /\ UNCHANGED <<db, served>> /\ DOMAIN slot' = Slots
        /\ \A q \in Slots : slot'[q] \in {slot[q], Idle}
    BY <1>7 DEF Crash
  <2>2. QED
    BY <2>1, FreedOK
<1>8. CASE UNCHANGED vars
  <2>1. /\ UNCHANGED <<db, served>> /\ DOMAIN slot' = Slots
        /\ \A q \in Slots : slot'[q] \in {slot[q], Idle}
    BY <1>8 DEF vars, IInv
  <2>2. QED
    BY <2>1, FreedOK
<1>9. QED
  BY <1>1, <1>2, <1>3, <1>4, <1>5, <1>6, <1>7, <1>8 DEF Next

-----------------------------------------------------------------------------
(***************************************************************************)
(* The theorems.                                                           *)
(***************************************************************************)
\* Whatever a request is about to write was allowed, and is timely until
\* another commit overtakes it.
THEOREM Sound == Spec => []IInv
<1>1. Init => IInv
  BY InitOK
<1>2. IInv /\ [Next]_vars => IInv'
  BY NextOK
<1>3. QED
  BY <1>1, <1>2, PTL DEF Spec

\* Every table holds rows of its type, for any requests at once: in particular
\* a score is within 0..100 and its verdict is one the code knows, and every
\* answer on file is of a source that was asked.
THEOREM TypeCorrect == Spec => []TypeOK
<1>1. IInv => TypeOK
  BY DEF IInv
<1>2. QED
  BY <1>1, Sound, PTL

\* The tables change in commits only.
LEMMA ByCommit ==
    ASSUME [Next]_vars, db' # db
    PROVE  \E r \in Slots : Commit(r, {})
  BY DEF Next, vars, create_observable, enrich_observable, configure_integration,
     sync_kev, record_sync, CommitRaises, Crash

LEMMA CommitFlushes ==
    ASSUME IInv, NEW r \in Slots, Commit(r, {}), db' # db
    PROVE  Flushes(r)
<1>1. PICK x : x = slot[r] /\ SlotOK(x) /\ x.phase = "flush"
  BY DEF IInv, Commit
<1>2. DOMAIN x = {"phase", "op", "on", "n", "writes", "then", "overtaken"}
      /\ x.then \in {"answer", "record"}
  BY <1>1 DEF SlotOK
<1>3. slot'[r] = IF x.then = "answer" THEN Idle
                 ELSE [x EXCEPT !.phase = x.then, !.writes = {}, !.overtaken = FALSE]
  BY <1>1 DEF Commit, After
<1>4. slot'[r].phase # "flush"
  BY <1>2, <1>3 DEF Idle
<1>5. QED
  BY <1>1, <1>4 DEF Flushes

\* What a commit of r makes of an observable that was there.
LEMMA CommitObservable ==
    ASSUME IInv, NEW r \in Slots, Commit(r, {}), NEW o \in Observables,
           observables[o] # NoRow, observables'[o] # observables[o]
    PROVE  \E w \in slot[r].writes :
              /\ w.at = <<"observables", o>> /\ w.how = "update"
              /\ observables'[o] = Merged(observables[o], w.set)
              /\ slot[r].op = "enrich"
              /\ ~slot[r].overtaken => Timely(w, slot[r].on)
<1>1. PICK x : x = slot[r] /\ SlotOK(x) /\ x.phase = "flush"
  BY DEF IInv, Commit
<1>2. PICK ws : ws = x.writes
  OBVIOUS
<1>3. Allowed(ws) /\ db' = Flushed(ws, {})
  BY <1>1, <1>2, CommitAllowed
<1>4. PICK old, row : old = observables[o] /\ row = observables'[o]
  OBVIOUS
<1>5. \/ row = old
      \/ old = NoRow /\ ObservableAdded(row)
      \/ \E w \in ws : /\ w.at = <<"observables", o>> /\ w.how = "update"
                       /\ old # NoRow /\ old \in Observable
                       /\ ObservableColumns(o, w.set)
                       /\ row = Merged(old, w.set)
  BY <1>3, <1>4, ObservableFlushed DEF observables
<1>6. PICK w \in ws : /\ w.at = <<"observables", o>> /\ w.how = "update"
                      /\ row = Merged(old, w.set)
  BY <1>4, <1>5
<1>7. AskedFor(w, x.op, x.on) /\ (~x.overtaken => Timely(w, x.on))
  BY <1>1, <1>2, <1>6 DEF SlotOK
<1>8. x.op = "enrich"
  BY <1>6, <1>7 DEF AskedFor
<1>9. QED
  BY <1>1, <1>2, <1>4, <1>6, <1>7, <1>8

LEMMA ScoreStep ==
    ASSUME IInv, [Next]_vars, NEW o \in Observables,
           Explained(observables[o]), ~Explained(observables'[o])
    PROVE  \E r \in Slots : Flushes(r) /\ slot[r].overtaken
<1>1. db' # db
  BY DEF observables
<1>2. PICK r \in Slots : Commit(r, {})
  BY <1>1, ByCommit
<1>3. Flushes(r)
  BY <1>1, <1>2, CommitFlushes
<1>4. CASE observables[o] = NoRow
  <2>1. PICK ws : ws = slot[r].writes /\ Allowed(ws) /\ db' = Flushed(ws, {})
    BY <1>2, CommitAllowed
  <2>2. PICK old, row : old = observables[o] /\ row = observables'[o]
    OBVIOUS
  <2>3. \/ row = old
        \/ old = NoRow /\ ObservableAdded(row)
        \/ \E w \in ws : /\ w.at = <<"observables", o>> /\ w.how = "update"
                         /\ old # NoRow /\ old \in Observable
                         /\ ObservableColumns(o, w.set)
                         /\ row = Merged(old, w.set)
    BY <2>1, <2>2, ObservableFlushed DEF observables
  <2>4. ObservableAdded(row)
    BY <1>4, <2>2, <2>3
  <2>5. Explained(row)
    BY <2>4, PointsRange DEF ObservableAdded, Explained
  <2>6. QED
    BY <2>2, <2>5
<1>5. CASE observables[o] # NoRow
  <2>1. observables'[o] # observables[o]
    OBVIOUS
  <2>2. PICK w \in slot[r].writes :
              /\ w.at = <<"observables", o>> /\ w.how = "update"
              /\ observables'[o] = Merged(observables[o], w.set)
              /\ ~slot[r].overtaken => Timely(w, slot[r].on)
    BY <1>2, <1>5, <2>1, CommitObservable
  <2>3. slot[r].overtaken
    <3>1. SUFFICES ASSUME Timely(w, slot[r].on)
                   PROVE  FALSE
      BY <2>2
    <3>2. Explained(Merged(observables[o], w.set))
      BY <2>2, <3>1 DEF Timely
    <3>3. QED
      BY <2>2, <3>2
  <2>4. QED
    BY <1>3, <2>3
<1>6. QED
  BY <1>4, <1>5

\* The score of an observable stays the sum of the factors stored with it, and
\* the verdict that score's, through every enrichment; only an enrichment that
\* another commit has overtaken can tear the three columns apart
\* (compute_score, enrich_observable).
THEOREM ScoreExplained == Spec => ScoreExplainedUnlessRaced
<1>1. IInv /\ [Next]_vars =>
        [\A o \in Observables :
          Explained(observables[o]) /\ ~Explained(observables'[o]) =>
              \E r \in Slots : Flushes(r) /\ slot[r].overtaken]_vars
  BY ScoreStep
<1>2. QED
  BY <1>1, Sound, PTL DEF Spec, ScoreExplainedUnlessRaced

LEMMA SilenceStep ==
    ASSUME IInv, [Next]_vars, NEW o \in Observables,
           Known(o, observables), observables'[o] # observables[o]
    PROVE  \/ observables'[o].factors = observables[o].factors
           \/ \E r \in Slots :
                 /\ Flushes(r)
                 /\ slot[r].op = "enrich"
                 /\ slot[r].on.answered # {} \/ slot[r].overtaken
<1>1. db' # db
  BY DEF observables
<1>2. PICK r \in Slots : Commit(r, {})
  BY <1>1, ByCommit
<1>3. Flushes(r)
  BY <1>1, <1>2, CommitFlushes
<1>4. observables[o] # NoRow
  BY DEF Known
<1>5. PICK w \in slot[r].writes :
            /\ w.at = <<"observables", o>> /\ w.how = "update"
            /\ observables'[o] = Merged(observables[o], w.set)
            /\ slot[r].op = "enrich"
            /\ ~slot[r].overtaken => Timely(w, slot[r].on)
  BY <1>2, <1>4, CommitObservable
<1>6. CASE "factors" \in DOMAIN w.set
  <2>1. slot[r].overtaken \/ slot[r].on.answered # {}
    BY <1>5, <1>6 DEF Timely
  <2>2. QED
    BY <1>3, <1>5, <2>1
<1>7. CASE "factors" \notin DOMAIN w.set
  <2>1. observables[o] \in Observable
    BY <1>4, Tabled DEF observables
  <2>2. PICK old, set : old = observables[o] /\ set = w.set
    OBVIOUS
  <2>3. Merged(old, set).factors = old.factors
    BY <1>7, <2>1, <2>2 DEF Merged, Observable
  <2>4. QED
    BY <1>5, <2>2, <2>3
<1>8. QED
  BY <1>6, <1>7

\* Factors that were found are given up only for what some source answered,
\* never because all of them failed, unless the enrichment was overtaken
\* (enrich_observable keeps the score when no connector answers).
THEOREM SilenceKept == Spec => SilenceKeepsSignal
<1>1. IInv /\ [Next]_vars =>
        [\A o \in Observables :
          Known(o, observables) /\ observables'[o] # observables[o] =>
              \/ observables'[o].factors = observables[o].factors
              \/ \E r \in Slots :
                    /\ Flushes(r)
                    /\ slot[r].op = "enrich"
                    /\ slot[r].on.answered # {} \/ slot[r].overtaken]_vars
  BY SilenceStep
<1>2. QED
  BY <1>1, Sound, PTL DEF Spec, SilenceKeepsSignal

\* What a commit of r makes of the connection of c: none of it, a new one, or
\* one with the columns that a save of r wrote.
LEMMA CommitConnection ==
    ASSUME IInv, NEW r \in Slots, Commit(r, {}), NEW c \in Connectors
    PROVE  LET old == connections[c]
               row == connections'[c] IN
           \/ row = old
           \/ old = NoRow /\ ConnectionAdded(c, row)
           \/ \E w \in slot[r].writes :
                 /\ w.at = <<"integration_connections", c>>
                 /\ old \in Connection /\ ConnectionColumns(w.set)
                 /\ row = Merged(old, w.set)
                 /\ slot[r].op = "configure"
                 /\ slot[r].on.secret = NoRow => "secrets_metadata" \notin DOMAIN w.set
                 /\ \/ slot[r].overtaken
                    \/ ~ReadyRow(c, old)
                    \/ ReadyRow(c, row)
                    \/ Respelled(c, slot[r].on.secret)
<1>1. PICK x : x = slot[r] /\ SlotOK(x) /\ x.phase = "flush"
  BY DEF IInv, Commit
<1>2. PICK ws : ws = x.writes
  OBVIOUS
<1>3. Allowed(ws) /\ db' = Flushed(ws, {})
  BY <1>1, <1>2, CommitAllowed
<1>4. PICK old, row : old = connections[c] /\ row = connections'[c]
  OBVIOUS
<1>5. \/ row = old
      \/ old = NoRow /\ ConnectionAdded(c, row)
      \/ \E w \in ws : /\ w.at = <<"integration_connections", c>>
                       /\ w.how = "update"
                       /\ old # NoRow /\ old \in Connection
                       /\ ConnectionColumns(w.set)
                       /\ row = Merged(old, w.set)
  BY <1>3, <1>4, ConnectionFlushed DEF connections
<1>6. CASE row = old \/ (old = NoRow /\ ConnectionAdded(c, row))
  BY <1>4, <1>6
<1>7. CASE \E w \in ws : /\ w.at = <<"integration_connections", c>>
                         /\ w.how = "update"
                         /\ old # NoRow /\ old \in Connection
                         /\ ConnectionColumns(w.set)
                         /\ row = Merged(old, w.set)
  <2>1. PICK w \in ws : /\ w.at = <<"integration_connections", c>>
                        /\ w.how = "update"
                        /\ old \in Connection
                        /\ ConnectionColumns(w.set)
                        /\ row = Merged(old, w.set)
    BY <1>7
  <2>2. AskedFor(w, x.op, x.on) /\ (~x.overtaken => Timely(w, x.on))
    BY <1>1, <1>2, <2>1 DEF SlotOK
  <2>3. /\ x.op = "configure"
        /\ x.on.secret = NoRow => "secrets_metadata" \notin DOMAIN w.set
    BY <2>1, <2>2 DEF AskedFor
  <2>4. \/ x.overtaken
        \/ ~ReadyRow(c, old)
        \/ ReadyRow(c, row)
        \/ Respelled(c, x.on.secret)
    BY <1>4, <2>1, <2>2 DEF Timely
  <2>5. QED
    BY <1>1, <1>2, <1>4, <2>1, <2>3, <2>4
<1>8. QED
  BY <1>5, <1>6, <1>7

LEMMA ReadyIsReady ==
    ASSUME NEW c, NEW rows, NEW row, row = rows[c], row # NoRow
    PROVE  IsReady(c, rows) <=> ReadyRow(c, row)
  BY DEF IsReady, ReadyRow

LEMMA ReadyStep ==
    ASSUME IInv, [Next]_vars, NEW c \in Connectors, db' # db
    PROVE  /\ connections[c] = NoRow /\ connections'[c] # NoRow =>
                 IsReady(c, db'.integration_connections)
           /\ IsReady(c, connections) /\ ~IsReady(c, db'.integration_connections) =>
                 \E r \in Slots :
                    /\ Flushes(r) /\ slot[r].op = "configure"
                    /\ slot[r].on.secret # NoRow
                    /\ \/ slot[r].overtaken
                       \/ /\ ~slot[r].on.secret.present
                          /\ \A i \in DOMAIN connections[c].secrets_metadata :
                                connections[c].secrets_metadata[i].spelling
                                   # slot[r].on.secret.spelling
<1>1. PICK r \in Slots : Commit(r, {})
  BY ByCommit
<1>2. Flushes(r)
  BY <1>1, CommitFlushes
<1>3. PICK old, row : old = connections[c] /\ row = connections'[c]
  OBVIOUS
<1>4. /\ row = (db'.integration_connections)[c]
      /\ IsReady(c, connections) => old # NoRow
  BY <1>3 DEF connections, IsReady
<1>5. \/ row = old
      \/ old = NoRow /\ ConnectionAdded(c, row)
      \/ \E w \in slot[r].writes :
            /\ old \in Connection /\ ConnectionColumns(w.set)
            /\ row = Merged(old, w.set)
            /\ slot[r].op = "configure"
            /\ slot[r].on.secret = NoRow => "secrets_metadata" \notin DOMAIN w.set
            /\ \/ slot[r].overtaken
               \/ ~ReadyRow(c, old)
               \/ ReadyRow(c, row)
               \/ Respelled(c, slot[r].on.secret)
  BY <1>1, <1>3, CommitConnection
<1>6. CASE row = old
  <2>1. IsReady(c, connections) <=> IsReady(c, db'.integration_connections)
    BY <1>3, <1>4, <1>6 DEF IsReady
  <2>2. QED
    BY <1>3, <1>6, <2>1
<1>7. CASE old = NoRow /\ ConnectionAdded(c, row)
  <2>1. row # NoRow /\ ReadyRow(c, row)
    BY <1>7, ConnectionRow DEF ConnectionAdded
  <2>2. IsReady(c, db'.integration_connections)
    BY <1>4, <2>1, ReadyIsReady
  <2>3. QED
    BY <2>2
<1>8. ASSUME NEW w \in slot[r].writes,
             old \in Connection, ConnectionColumns(w.set),
             row = Merged(old, w.set),
             slot[r].op = "configure",
             slot[r].on.secret = NoRow => "secrets_metadata" \notin DOMAIN w.set,
             \/ slot[r].overtaken
             \/ ~ReadyRow(c, old)
             \/ ReadyRow(c, row)
             \/ Respelled(c, slot[r].on.secret)
      PROVE  /\ connections[c] # NoRow
             /\ IsReady(c, connections) /\ ~IsReady(c, db'.integration_connections) =>
                   /\ slot[r].on.secret # NoRow
                   /\ slot[r].overtaken \/ Respelled(c, slot[r].on.secret)
  <2>1. old # NoRow /\ row # NoRow
    BY <1>8, ConnectionMerged, ConnectionRow
  <2>2. /\ IsReady(c, connections) <=> ReadyRow(c, old)
        /\ IsReady(c, db'.integration_connections) <=> ReadyRow(c, row)
    BY <1>3, <1>4, <2>1, ReadyIsReady
  <2>3. "secrets_metadata" \notin DOMAIN w.set =>
           (ReadyRow(c, old) => ReadyRow(c, row))
    <3>1. PICK set : set = w.set
      OBVIOUS
    <3>2. "secrets_metadata" \notin DOMAIN set =>
             Merged(old, set).secrets_metadata = old.secrets_metadata
      BY <1>8 DEF Merged, Connection
    <3>3. QED
      BY <1>8, <3>1, <3>2 DEF ReadyRow
  <2>4. QED
    BY <1>3, <1>8, <2>1, <2>2, <2>3
<1>9. CASE \E w \in slot[r].writes :
            /\ old \in Connection /\ ConnectionColumns(w.set)
            /\ row = Merged(old, w.set)
            /\ slot[r].op = "configure"
            /\ slot[r].on.secret = NoRow => "secrets_metadata" \notin DOMAIN w.set
            /\ \/ slot[r].overtaken
               \/ ~ReadyRow(c, old)
               \/ ReadyRow(c, row)
               \/ Respelled(c, slot[r].on.secret)
  <2>1. /\ connections[c] # NoRow
        /\ slot[r].op = "configure"
        /\ IsReady(c, connections) /\ ~IsReady(c, db'.integration_connections) =>
              /\ slot[r].on.secret # NoRow
              /\ slot[r].overtaken \/ Respelled(c, slot[r].on.secret)
    BY <1>8, <1>9
  <2>2. QED
    BY <1>2, <2>1 DEF Respelled
<1>10. QED
  BY <1>5, <1>6, <1>7, <1>9

\* A connection is ready when it is first saved, and no save makes it "not
\* configured" again but one that leaves the secret blank under a spelling the
\* row does not have, and one that sent the secret and was overtaken: it writes
\* all the markers it read (configure_integration, _missing_required, _is_ready).
THEOREM ReadyKept == Spec => ReadyLostOnlyByRespelling
<1>1. IInv /\ [Next]_vars =>
        [\A c \in Connectors :
          /\ connections[c] = NoRow /\ connections'[c] # NoRow =>
                IsReady(c, db'.integration_connections)
          /\ IsReady(c, connections) /\ ~IsReady(c, db'.integration_connections) =>
                \E r \in Slots :
                    /\ Flushes(r) /\ slot[r].op = "configure"
                    /\ slot[r].on.secret # NoRow
                    /\ \/ slot[r].overtaken
                       \/ /\ ~slot[r].on.secret.present
                          /\ \A i \in DOMAIN connections[c].secrets_metadata :
                                connections[c].secrets_metadata[i].spelling
                                   # slot[r].on.secret.spelling]_db
  BY ReadyStep
<1>2. QED
  BY <1>1, Sound, PTL DEF Spec, ReadyLostOnlyByRespelling
=============================================================================
