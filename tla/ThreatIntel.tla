---------------------------- MODULE ThreatIntel ----------------------------
(***************************************************************************)
(* Observables and what the threat intelligence sources say of them        *)
(* (app/routers/observables.py, app/routers/intel.py, app/scoring.py,      *)
(* app/connectors/).  An enrichment asks every source that supports the    *)
(* type of the observable, stores what each answered and replaces the      *)
(* score; a source that fails is skipped.  The CISA KEV catalog is local,  *)
(* and a sync writes it in one transaction and its own record in another.  *)
(*                                                                         *)
(* Beside them the premium connectors are configured (Integrations).       *)
(*                                                                         *)
(* One tenant.  The texts of factors and answers are left out, and so is   *)
(* the ATT&CK catalog, which no enrichment reads.                          *)
(***************************************************************************)
EXTENDS Integrations

CONSTANTS
    Observables,  \* values an analyst may submit
    Kind,         \* [Observables -> ObservableType]
    Feeds         \* what the KEV feed may hold: functions from some of the
                  \* CVEs to known_ransomware

ObservableType == {"ip", "domain", "url", "hash", "email", "cve"}

vars == <<db, slot, served>>

observables == db.observables   \* UNIQUE (tenant, type, value)
enrichments == db.enrichments   \* by the request and the source
kev         == db.kev           \* kev_entries, by CVE
sync_state  == db.sync_state    \* by source

Cves    == {o \in Observables : Kind[o] = "cve"}
Sources == {"cisa_kev", "epss", "urlhaus"}

ASSUME ConstantsAssumption ==
    /\ Kind \in [Observables -> ObservableType]
    /\ \A feed \in Feeds :
          /\ DOMAIN feed \subseteq Cves /\ IsFiniteSet(DOMAIN feed)
          /\ \A c \in DOMAIN feed : feed[c] \in BOOLEAN

-----------------------------------------------------------------------------
(***************************************************************************)
(* The connectors.  An answer stands for the document a source returns:    *)
(* "absent" is None, "skipped" the document of an URLhaus without a key.   *)
(***************************************************************************)
supports(source, kind) ==
    IF source = "urlhaus" THEN kind \in {"url", "domain", "ip", "hash"}
    ELSE kind = "cve"

\* CONNECTORS that are asked about o.
Asked(o) == {s \in Sources : supports(s, Kind[o])}

KevAnswer(o) ==
    CASE kev[o] = NoRow -> "absent"
      [] kev[o].known_ransomware -> "ransomware"
      [] OTHER -> "listed"

\* The host of an IP and of a domain answer alike; EPSS gives one of two
\* probabilities, 90% and one that rounds to no points.
UrlhausListed(kind) ==
    CASE kind = "url"  -> {"online", "offline"}
      [] kind = "hash" -> {"payload"}
      [] OTHER         -> {"host"}

MayAnswer(o, source) ==
    CASE source = "cisa_kev" -> {KevAnswer(o)}
      [] source = "epss"     -> {"absent", "unlikely", "likely"}
      [] source = "urlhaus"  -> {"skipped", "unlisted"} \cup UrlhausListed(Kind[o])

\* All that is answered.
Answer == {"absent", "listed", "ransomware", "unlikely", "likely", "skipped",
           "unlisted", "online", "offline", "payload", "host"}

\* Everything the sources in asked may answer about o.
Answers(o, asked) ==
    {a \in [asked -> UNION {MayAnswer(o, s) : s \in asked}] :
        \A s \in asked : a[s] \in MayAnswer(o, s)}

-----------------------------------------------------------------------------
(***************************************************************************)
(* compute_score (app/scoring.py).                                         *)
(***************************************************************************)
ScoreFactors(answer) ==
    CASE answer = "listed"     -> {<<"kev_listed", 50>>}
      [] answer = "ransomware" -> {<<"kev_listed", 50>>, <<"kev_ransomware", 10>>}
      [] answer = "likely"     -> {<<"epss", 27>>}
      [] answer = "offline"    -> {<<"urlhaus_url", 45>>}
      [] answer = "online"     -> {<<"urlhaus_url", 45>>, <<"urlhaus_online", 10>>}
      [] answer = "host"       -> {<<"urlhaus_host", 35>>}
      [] answer = "payload"    -> {<<"urlhaus_payload", 45>>}
      [] OTHER                 -> {}

\* Every factor there is; what one of them adds to the score.
Factor == UNION {ScoreFactors(a) : a \in
    {"ransomware", "likely", "online", "host", "payload"}}
Worth(factor, factors) == IF factor \in factors THEN factor[2] ELSE 0

Points(factors) ==
    LET sum == Worth(<<"kev_listed", 50>>, factors)
               + Worth(<<"kev_ransomware", 10>>, factors)
               + Worth(<<"epss", 27>>, factors)
               + Worth(<<"urlhaus_url", 45>>, factors)
               + Worth(<<"urlhaus_online", 10>>, factors)
               + Worth(<<"urlhaus_host", 35>>, factors)
               + Worth(<<"urlhaus_payload", 45>>, factors)
    IN IF sum > 100 THEN 100 ELSE sum

\* Mutant: the vocabulary of brand findings.
BrandVerdicts(score) ==
    CASE score >= 70 -> "malicious"
      [] score >= 40 -> "suspicious"
      [] score >= 1  -> "low"
      [] OTHER       -> "info"

VERDICTS(score) ==
    CASE score >= 70 -> "malicious"
      [] score >= 40 -> "suspicious"
      [] score >= 1  -> "low"
      [] OTHER       -> "no_known_threat"

\* Mutant: the new factors are added to the old ones.
AddsFactors(row, answers) ==
    LET fresh == UNION {ScoreFactors(answers[s]) : s \in DOMAIN answers}
        old   == IF row.factors = NoRow THEN {} ELSE row.factors
    IN [row EXCEPT !.score = Points(fresh), !.verdict = VERDICTS(Points(fresh)),
                   !.factors = fresh \cup old]

\* The row with what compute_score makes of the answers.
Scored(row, answers) ==
    LET factors == UNION {ScoreFactors(answers[s]) : s \in DOMAIN answers}
    IN [row EXCEPT !.score = Points(factors), !.verdict = VERDICTS(Points(factors)),
                   !.factors = factors]

-----------------------------------------------------------------------------
(***************************************************************************)
(* The handlers.                                                           *)
(***************************************************************************)
\* score_factors is NULL until the first enrichment.
Observable ==
    [id: Ids, enriched: BOOLEAN, score: 0..100,
     verdict: {"unknown", "no_known_threat", "low", "suspicious", "malicious"},
     factors: {NoRow} \cup (SUBSET Factor)]
Enrichment == [id: Ids, observable: Observables, data: Answer]
KEVEntry   == [id: {0}, known_ransomware: BOOLEAN]
SyncState  == [id: {0}, items: Nat]

\* NULL is none of the rows, and no set of factors.
ASSUME NullAssumption ==
    /\ NoRow \notin Observable
    /\ \A factors \in SUBSET Factor : factors # NoRow

TypeOK ==
    /\ observables \in [Observables -> Observable \cup {NoRow}]
    /\ \A k \in Ids \X Sources : enrichments[k] # NoRow =>
          /\ enrichments[k] \in Enrichment
          /\ k[2] \in Asked(enrichments[k].observable)
    /\ kev \in [Cves -> KEVEntry \cup {NoRow}]
    /\ IntegrationsTypeOK
    /\ sync_state \in [{"cisa_kev"} -> SyncState \cup {NoRow}]
    /\ served \in 0..MaxRequests

\* POST /observables: one that exists is answered as it is.
create_observable(r, o) ==
    /\ observables[o] = NoRow
    /\ Begin(r, "create", o,
             {Insert("observables", o,
                     [id |-> Number, enriched |-> FALSE, score |-> 0,
                      verdict |-> "unknown", factors |-> NoRow])}, "answer")
    /\ UNCHANGED db

\* Mutant: silence is reported as unknown, whatever was known.
AlwaysUnknown(row, answers, failed) ==
    IF DOMAIN answers # {} THEN Scored(row, answers)
    ELSE [row EXCEPT !.score = 0, !.verdict = "unknown", !.factors = {}]

\* The row after an enrichment in which the sources in failed raised: without
\* any answer the first one resets the score, a later one keeps it.
Assessed(row, answers, failed) ==
    CASE DOMAIN answers # {} -> Scored(row, answers)
      [] DOMAIN answers = {} /\ failed # {} /\ ~row.enriched ->
           [row EXCEPT !.score = 0, !.verdict = "unknown", !.factors = {}]
      [] OTHER -> row

\* POST /observables/{id}/enrich.  The local catalog does not fail.
enrich_observable(r, o) ==
    /\ observables[o] # NoRow
    /\ \E failed \in SUBSET (Asked(o) \ {"cisa_kev"}) :
       \E answers \in Answers(o, Asked(o) \ failed) :
          Begin(r, "enrich", [observable |-> o, answered |-> DOMAIN answers],
            {Insert("enrichments", <<Number, s>>,
                    [id |-> Number, observable |-> o, data |-> answers[s]])
               : s \in DOMAIN answers} \cup
            {Update("observables", o, observables[o],
                    [Assessed(observables[o], answers, failed)
                        EXCEPT !.enriched = TRUE])}, "answer")
    /\ UNCHANGED db

\* POST /sync/kev: an entry the feed no longer has stays in the catalog.  A
\* failed download or a refused flush answers 502 and writes nothing.
sync_kev(r, feed) ==
    /\ Begin(r, "sync", [items |-> Cardinality(DOMAIN feed)],
         {LET entry == [id |-> 0, known_ransomware |-> feed[c]] IN
          IF kev[c] = NoRow THEN Insert("kev", c, entry)
          ELSE Update("kev", c, kev[c], entry) : c \in DOMAIN feed}, "record")
    /\ UNCHANGED db

record_sync(r) ==
    /\ slot[r].phase = "record"
    /\ LET old   == sync_state["cisa_kev"]
           state == [id |-> 0, items |-> slot[r].on.items]
       IN slot' = [slot EXCEPT ![r].phase = "flush", ![r].then = "answer",
            ![r].writes = {IF old = NoRow
                           THEN Insert("sync_state", "cisa_kev", state)
                           ELSE Update("sync_state", "cisa_kev", old, state)}]
    /\ UNCHANGED <<db, served>>

-----------------------------------------------------------------------------
Tables ==
    [observables |-> [o \in Observables |-> NoRow],
     enrichments |-> [k \in Ids \X Sources |-> NoRow],
     kev         |-> [c \in Cves |-> NoRow],
     sync_state  |-> [s \in {"cisa_kev"} |-> NoRow],
     integration_connections |-> NoConnections]

Init == db = Tables /\ slot = [r \in Slots |-> Idle] /\ served = 0

Next ==
    \/ \E r \in Slots, o \in Observables :
           create_observable(r, o) \/ enrich_observable(r, o)
    \/ \E r \in Slots, c \in Connectors, secret \in Secrets :
           configure_integration(r, c, secret)
    \/ \E r \in Slots, feed \in Feeds : sync_kev(r, feed)
    \/ \E r \in Slots : record_sync(r) \/ Commit(r, {}) \/ CommitRaises(r, {})
    \/ Crash

Spec == Init /\ [][Next]_vars

-----------------------------------------------------------------------------
(***************************************************************************)
(* Properties.                                                             *)
(***************************************************************************)
Known(o, rows) == rows[o] # NoRow /\ rows[o].factors \notin {NoRow, {}}

Explained(row) ==
    IF row = NoRow THEN TRUE
    ELSE LET factors == IF row.factors = NoRow THEN {} ELSE row.factors IN
         /\ row.score = Points(factors)
         /\ row.verdict = VERDICTS(row.score)
              \/ (row.verdict = "unknown" /\ row.score = 0)

\* "Todo ponto tem um porque" (scoring.py): the score of an observable is the
\* sum of the factors stored with it and the verdict is that score's, however
\* enrichments fail and repeat.  Only enrichments that overlap can tear the
\* three columns apart: each writes the ones it changed.
ScoreExplainedUnlessRaced ==
    [][\A o \in Observables :
          Explained(observables[o]) /\ ~Explained(observables'[o]) =>
              \E r \in Slots : Flushes(r) /\ slot[r].overtaken]_vars

\* Silence is no answer: factors that were found are only given up for what a
\* source answered, never because every source failed, unless the first
\* enrichment of the observable is overtaken by another.
SilenceKeepsSignal ==
    [][\A o \in Observables :
          Known(o, observables) /\ observables'[o] # observables[o] =>
              \/ observables'[o].factors = observables[o].factors
              \/ \E r \in Slots :
                    /\ Flushes(r)
                    /\ slot[r].op = "enrich"
                    /\ slot[r].on.answered # {} \/ slot[r].overtaken]_vars

\* "No known threat" is the result of a check: some source was asked and
\* answered (observables.py: an absent check must stay UNKNOWN).
AbsentCheckStaysUnknown ==
    \A o \in Observables :
        observables[o] # NoRow /\ observables[o].verdict = "no_known_threat" =>
            \E k \in Ids \X Sources :
                /\ enrichments[k] # NoRow
                /\ enrichments[k].observable = o
                /\ enrichments[k].data # "skipped"
=============================================================================
