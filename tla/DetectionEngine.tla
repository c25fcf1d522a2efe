--------------------------- MODULE DetectionEngine ----------------------------
(***************************************************************************)
(* The detection engine of the server (server/app/detection/engine.py) and *)
(* what operators feed it, for one organisation: Sigma rules and indicator *)
(* feeds (routers/intel.py, services/threat_intel.py), and the blocklist   *)
(* (routers/admin.py, services/response.py).  Handlers run in threads of   *)
(* their own; an import reads the rows it will write, and writes them when *)
(* it commits.  What a Sigma rule makes of an event is SigmaCondition's    *)
(* matter: here any enabled rules may fire.                                *)
(*                                                                         *)
(* A host is the sequence of its labels.  A value is what it is about and  *)
(* the way it is written: canonical, in some other way with the same       *)
(* meaning (capitals, a final dot), as a URL, as a URL whose host ends in  *)
(* a dot, or so that no host can be found in it (a stray bracket).         *)
(*                                                                         *)
(* Definitions marked "Fault:" are not part of the model: each is a        *)
(* plausible mistake in the definition that follows it.                    *)
(***************************************************************************)
EXTENDS Naturals, FiniteSets, Sequences, SequencesExt

CONSTANTS
    Threads,   \* bound: imports at a time
    MaxEdits,  \* bound: rules, feeds and blocklist entries written or removed
    Labels,    \* what names are made of
    Names,     \* hosts, sequences of labels, and hashes, of one label
    RuleRows,  \* Sigma and YARA rules
    Feeds,     \* imports: sequences of indicators
    Listings,  \* blocklist entries as they are sent, [kind, value]
    Events     \* telemetry: [seen, rest, hits], its indicators, those of the rest of its
               \* batch, and the selections and seed rules it matches

VARIABLES
    rules,     \* table intel_rules
    iocs,      \* table iocs: each indicator's row
    blocked,   \* table blocklist
    at,        \* each import: what it has read
    raised,    \* the detections of the last event, with it
    (* bounds and history *)
    edits,
    promised   \* indicators whose import succeeded, as they were sent

tables == <<rules, iocs, blocked>>
engineVars == <<tables, at, raised, edits, promised>>

Forms == {"plain", "odd", "url", "urldot", "bad"}
Value == [of : Names, as : Forms]
Types == {"domain", "url", "ip", "hash", "certificate"}

\* Those a feed may name, and those extract_indicators() finds in an event.
Indicator == [type : Types \ {"certificate"}, value : Value]

\* An entry of a feed is of any type; a label is never empty, and only a domain or a
\* url is written as a URL.
ASSUME DetectionAssumption ==
    /\ MaxEdits \in Nat
    /\ "" \notin Labels
    /\ Names \subseteq Seq(Labels) \ {<<>>}
    /\ Feeds \subseteq Seq([type : STRING, value : Value])
    /\ Listings \subseteq [kind : STRING, value : Value]
    /\ \A e \in Events : e.seen \in Seq(Indicator) /\ e.rest \in Seq(Indicator)
    /\ \A i \in UNION {Range(l) : l \in Feeds \cup {e.seen : e \in Events}} :
         i.type \in {"ip", "hash"} => i.value.as \in {"plain", "odd"}

-------------------------------------------------------------------------------
(* Hosts, and the names they fall under.                                   *)

\* extract_host()
Host(v) == IF v.as = "urldot" THEN Append(v.of, "") ELSE v.of

\* parent_domains(): the host and what it falls under, the longest first.
ParentDomains(v) == LET h == Host(v) IN [i \in 1..Len(h) |-> SubSeq(h, i, Len(h))]

Plain(name) == [of |-> name, as |-> "plain"]

\* A domain becomes its host, and of an address only the blanks around it go: the other
\* ways to write it stay as they are.
Normalize(type, v) ==
    CASE type = "domain" -> Plain(Host(v))
      [] type \notin {"domain", "ip"} /\ v.as = "odd" -> Plain(v.of)
      [] OTHER -> v

Key(i) == [i EXCEPT !.value = Normalize(i.type, i.value)]

\* The rows an import can write.
Keys == {Key(i) : i \in UNION {Range(f) : f \in Feeds}}

EngineInit ==
    /\ rules = {} /\ iocs = [k \in Keys |-> "none"] /\ blocked = {}
    /\ at = [t \in Threads |-> <<>>]
    /\ raised = <<>>
    /\ edits = 0 /\ promised = {}

\* A change of the tables: the detections raised so far are no longer looked at.
Edited ==
    /\ edits < MaxEdits /\ edits' = edits + 1
    /\ raised' = <<>>

-------------------------------------------------------------------------------
(* The rules and the feeds.                                                *)

CreateRule(r) ==
    /\ Edited
    /\ rules' = rules \cup {r}
    /\ UNCHANGED <<iocs, blocked, at, promised>>

DeleteRule(r) ==
    /\ r \in rules
    /\ Edited
    /\ rules' = rules \ {r}
    /\ UNCHANGED <<iocs, blocked, at, promised>>

\* The entries import_iocs() takes: one of no known type, or a domain in which no host is
\* found, is skipped.
Valid(feed) ==
    {n \in DOMAIN feed : feed[n].type \in Types /\ ~ (feed[n].type = "domain" /\ feed[n].value.as = "bad")}

Present == {k \in Keys : iocs[k] # "none"}

\* import_iocs(), create_ioc() and the block_ip and block_hash responses, the last
\* three of one entry: the rows that exist are read, one after another ...
ImportRead(t, feed) ==
    /\ at[t] = <<>>
    /\ Edited
    /\ at' = [at EXCEPT ![t] = <<[feed |-> feed,
                                  known |-> Present \cap {Key(feed[n]) : n \in Valid(feed)}]>>]
    /\ UNCHANGED <<tables, promised>>

\* New rows the table refuses: one twice in a feed, or one another request has added.
Clash(feed, known) ==
    \E n \in Valid(feed) : LET k == Key(feed[n]) IN
        k \notin known /\ (k \in Present \/ \E m \in Valid(feed) : m < n /\ Key(feed[m]) = k)

\* Fault: an indicator that has expired stays expired.
RowsOnlyAdded(ks) == [k \in Keys |-> IF k \in ks /\ iocs[k] = "none" THEN "live" ELSE iocs[k]]

RowsWith(ks) == [k \in Keys |-> IF k \in ks THEN "live" ELSE iocs[k]]

\* ... and written together, or not at all.  A row deleted in between is an error if
\* the import changes it, and not noticed if it does not.
ImportCommit(t) ==
    /\ at[t] # <<>>
    /\ LET feed == at[t][1].feed
           known == at[t][1].known
           gone == known \ Present
           written == {i \in {feed[n] : n \in Valid(feed)} : Key(i) \notin gone}
       IN  \/ Clash(feed, known) /\ UNCHANGED <<iocs, promised>>
           \/ gone # {} /\ UNCHANGED <<iocs, promised>>
           \/ /\ ~ Clash(feed, known)
              /\ iocs' = RowsWith({Key(i) : i \in written})
              /\ promised' = promised \cup written
    /\ at' = [at EXCEPT ![t] = <<>>]
    /\ raised' = <<>>
    /\ UNCHANGED <<rules, blocked, edits>>

Withdrawn(k) == {i \in promised : Key(i) = k}

DeleteIOC(k) ==
    /\ iocs[k] # "none"
    /\ Edited
    /\ iocs' = [iocs EXCEPT ![k] = "none"]
    /\ promised' = promised \ Withdrawn(k)
    /\ UNCHANGED <<rules, blocked, at>>

\* The time an indicator was given runs out.
Expire(k) ==
    /\ iocs[k] = "live"
    /\ iocs' = [iocs EXCEPT ![k] = "expired"]
    /\ promised' = promised \ Withdrawn(k)
    /\ raised' = <<>>
    /\ UNCHANGED <<rules, blocked, at, edits>>

-------------------------------------------------------------------------------
(* The blocklist.                                                          *)

List(entry) ==
    /\ \A b \in blocked : b.value # entry.value
    /\ Edited
    /\ blocked' = blocked \cup {entry}
    /\ UNCHANGED <<rules, iocs, at, promised>>

\* add_blocklist(): a domain becomes its host, or the request fails; a value already
\* listed is refused, whatever the kind of its entry.
AddBlocklist(sent) ==
    /\ ~ (sent.kind = "domain" /\ sent.value.as = "bad")
    /\ List([sent EXCEPT !.value = IF sent.kind = "domain" THEN Plain(Host(@)) ELSE @])

\* The block_domain response: the value is kept as it is sent.
BlockDomain(sent) == sent.kind = "domain" /\ List(sent)

DeleteBlocklist(entry) ==
    /\ entry \in blocked
    /\ Edited
    /\ blocked' = blocked \ {entry}
    /\ UNCHANGED <<rules, iocs, at, promised>>

-------------------------------------------------------------------------------
(* Evaluation of an event.                                                 *)

\* lookup(): is there a row for the indicator that has not expired?  An error counts as no.
Known(i) ==
    \E k \in Keys : iocs[k] = "live"
        /\ IF i.type \in {"domain", "url"}
           THEN i.value.as # "bad" /\ k.type = "domain" /\ \E n \in DOMAIN ParentDomains(i.value) : k.value = Plain(ParentDomains(i.value)[n])
           ELSE k = Key(i)

EvaluateIOCs(seen) == {n \in DOMAIN seen : Known(seen[n])}

BlockedValues == {b.value : b \in {c \in blocked : c.kind = "domain"}}
BlockedHosts == {Host(v) : v \in BlockedValues}

HostValues(seen) == {i.value : i \in {j \in Range(seen) : j.type \in {"domain", "url"}}}

\* host_matches_any() raises an error, which nothing catches, where it finds no host in a
\* blocked domain, or in a domain or url it is asked about.
Stops(e) ==
    LET asked == HostValues(e.seen \o e.rest)
    IN  asked # {} /\ BlockedValues # {} /\ \E v \in asked \cup BlockedValues : v.as = "bad"

\* host_matches_any(): the first name the host of an indicator falls under that is
\* blocked, if there is one.
Blocking(i) ==
    {n \in DOMAIN ParentDomains(i.value) :
        i.type \in {"domain", "url"} /\ ParentDomains(i.value)[n] \in BlockedHosts}

First(ns) == CHOOSE n \in ns : \A m \in ns : n <= m

Matched(i) == ParentDomains(i.value)[First(Blocking(i))]

\* Fault: a blocked domain is reported for every indicator that falls under it.
EveryMatch(seen) == {n \in DOMAIN seen : Blocking(seen[n]) # {}}

\* Those of the indicators seen that name a blocked domain none before them has named.
NewMatches(seen) ==
    {n \in DOMAIN seen : /\ Blocking(seen[n]) # {}
                         /\ \A m \in 1..(n - 1) : Blocking(seen[m]) # {} => Matched(seen[m]) # Matched(seen[n])}

\* _evaluate_blocklist_domains(): the blocked domains contacted, by the indicator that
\* names each.
BlocklistDomains(seen) == [n \in NewMatches(seen) |-> Matched(seen[n])]

Critical == {"reverse_shell", "credential_dumping", "lsass_access", "ransomware_behavior",
             "yara_match", "tamper_detected"}

\* The rules built in, and those of them that ask for isolation.
SeedRules ==
    Critical \cup {"suspicious_listener", "powershell_abuse", "encoded_command", "lolbin_execution",
        "dll_injection", "process_hollowing", "reflective_loading", "wmi_persistence",
        "task_persistence", "registry_persistence", "service_creation", "privilege_escalation",
        "lateral_movement", "fileless_execution", "suricata_alert"}
Isolating == {"reverse_shell", "credential_dumping", "lsass_access", "privilege_escalation",
              "lateral_movement", "ransomware_behavior"}

\* Each looks at the event alone.
Seeded(hits) == hits \cap SeedRules

\* dispatch_responses(), where automatic isolation is on: what asks for isolation
\* gets it only if it is critical.
Isolates(fired) == fired \cap Isolating \cap Critical # {}

\* evaluate_event(), of which the Sigma rules fire; an error that stops it undoes what it
\* has raised for the batch.
EvaluateEvent(e, fire) ==
    /\ raised = <<>>
    /\ raised' = <<IF Stops(e)
                   THEN [event |-> e, seed |-> {}, isolate |-> FALSE, iocs |-> {},
                         domains |-> <<>>, sigma |-> {}]
                   ELSE [event |-> e, seed |-> Seeded(e.hits), isolate |-> Isolates(Seeded(e.hits)),
                         iocs |-> EvaluateIOCs(e.seen), domains |-> BlocklistDomains(e.seen),
                         sigma |-> fire]>>
    /\ UNCHANGED <<tables, at, edits, promised>>

-------------------------------------------------------------------------------

Handlers ==
    \/ \E r \in RuleRows : CreateRule(r) \/ DeleteRule(r)
    \/ \E t \in Threads : ImportCommit(t) \/ \E f \in Feeds : ImportRead(t, f)
    \/ \E k \in Keys : DeleteIOC(k) \/ Expire(k)
    \/ \E s \in Listings : AddBlocklist(s) \/ BlockDomain(s)
    \/ \E b \in blocked : DeleteBlocklist(b)

EngineNext == Handlers \/ \E e \in Events, fire \in SUBSET rules : EvaluateEvent(e, fire)

EngineSpec == EngineInit /\ [][EngineNext]_engineVars

-------------------------------------------------------------------------------
(* Properties.                                                             *)

\* A host is under a domain if it is the domain or ends in it, label by label.
Under(v, d) == IsSuffix(d, v.of)

IsHost(i) == i.type \in {"domain", "url"} /\ i.value.as \notin {"urldot", "bad"}

\* What an operator of a feed expects the indicator p to catch: the hosts under a domain,
\* a hash however it is written, and an address written as in the feed.
Catches(p, i) ==
    \/ p.type = "domain" /\ p.value.as # "urldot" /\ IsHost(i) /\ Under(i.value, p.value.of)
    \/ p.type = "hash" /\ i.type = "hash" /\ p.value.of = i.value.of
    \/ p.type = "ip" /\ i.type = "ip" /\ p.value = i.value

\* An event raises an indicator's detection exactly if an import that succeeded, and
\* that nothing has deleted or let expire since, named it or a domain it is under.  The
\* exceptions: URLs whose host ends in a dot, values without a host, and events that
\* stop the engine; addresses count as the same only in the same letters, and indicators
\* of types url and certificate are never asked for (normalize, lookup,
\* extract_indicators).
ImportedIndicatorsSurface ==
    raised # <<>> /\ ~ Stops(raised[1].event) =>
        \A n \in DOMAIN raised[1].event.seen :
            LET i == raised[1].event.seen[n]
            IN  IsHost(i) \/ i.type \in {"ip", "hash"} =>
                    (n \in raised[1].iocs <=> \E p \in promised : Catches(p, i))

\* An event names, once each, the most specific of the blocked domains its hosts are
\* under, whether the blocklist has them as hosts or as URLs, unless the blocklist or the
\* event's batch has a domain in which no host is found: then nothing is raised at all.
BlockedHostsSurface ==
    raised # <<>> /\ ~ Stops(raised[1].event) =>
        LET hosts == {i \in Range(raised[1].event.seen) : IsHost(i)}
            listed == {b.value.of : b \in {c \in blocked : c.kind = "domain" /\ c.value.as # "urldot"}}
            Over(i) == {d \in listed : Under(i.value, d)}
            named == raised[1].domains
        IN  /\ \A i \in hosts : Over(i) # {} =>
                    \E d \in Over(i) : d \in Range(named) /\ \A c \in Over(i) : Len(c) <= Len(d)
            /\ hosts = Range(raised[1].event.seen) =>
                    \A d \in Range(named) : \E i \in hosts : d \in Over(i)
            /\ IsInjective(named)

-------------------------------------------------------------------------------
(* The inductive invariant from which both are proved.                     *)

\* What feeds name, and what the blocklist can hold: a host kept with its final dot has
\* an empty last label.
Sent == UNION {Range(f) : f \in Feeds}
Held == [of : Seq(Labels \cup {""}) \ {<<>>}, as : Forms]
Listed == [kind : STRING, value : Held]

Import == [feed : Feeds, known : SUBSET Keys]

EngineTypeOK ==
    /\ rules \subseteq RuleRows
    /\ iocs \in [Keys -> {"none", "live", "expired"}]
    /\ blocked \subseteq Listed
    /\ at \in [Threads -> {<<>>} \cup {<<r>> : r \in Import}]
    /\ edits \in 0..MaxEdits
    /\ promised \subseteq Sent

\* A row is live exactly as long as something promised is written so.
LiveIsPromised == \A k \in Keys : iocs[k] = "live" <=> Withdrawn(k) # {}

\* What was raised is what the tables, as they stand, say of the event.
RaisedIsCurrent ==
    raised # <<>> =>
        LET e == raised[1].event
        IN  /\ e \in Events
            /\ ~ Stops(e) =>
                 /\ raised[1].iocs = EvaluateIOCs(e.seen)
                 /\ raised[1].domains = BlocklistDomains(e.seen)

EngineInv == EngineTypeOK /\ LiveIsPromised /\ RaisedIsCurrent

===============================================================================
