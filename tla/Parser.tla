------------------------------- MODULE Parser -------------------------------
(***************************************************************************)
(* ingest/wazuh_parser.py and ingest/category.py: the alert a document of  *)
(* the SIEM stands for.  A document is bare or an indexer hit around one;  *)
(* a value it does not carry, or carries as something of no use, is        *)
(* Missing.  A log is the sequence of the widths of its characters in      *)
(* bytes, a decoder's name the set of table keys it contains, a time the   *)
(* clock it shows and the offset it names.                                 *)
(***************************************************************************)
EXTENDS SequencesExt, Integers

CONSTANTS
    Missing,
    PublicAddresses, PrivateAddresses,
    HostOffset,     \* the time zone of the process, for a time that names none
    RAW_LOG_MAX_BYTES,
    Bucket          \* the 300 s of compute_event_bucket_hash

Or(value, default) == IF value = Missing THEN default ELSE value

PRIORITY == <<"ransomware", "malware", "c2_beacon", "data_exfiltration",
              "privilege_escalation", "ssh_brute_force", "web_attack",
              "suspicious_login", "recon", "policy_violation", "unknown">>

\* The tables, by category.  A technique is <<base>> or <<base, sub>>.
TechniquesOf ==
    [ssh_brute_force |-> {<<"T1110">>, <<"T1110", "001">>}, suspicious_login |-> {<<"T1078">>},
     malware |-> {<<"T1204">>, <<"T1105">>}, ransomware |-> {<<"T1486">>},
     web_attack |-> {<<"T1190">>, <<"T1189">>, <<"T1505", "003">>}, recon |-> {<<"T1046">>},
     privilege_escalation |-> {<<"T1548">>}, c2_beacon |-> {<<"T1071">>, <<"T1071", "004">>},
     data_exfiltration |-> {<<"T1041">>}]

GroupsOf ==
    [ssh_brute_force |-> {"authentication_failed", "authentication_failures", "invalid_login"},
     suspicious_login |-> {"authentication_success"},
     privilege_escalation |-> {"privilege_escalation", "sudo", "rootcheck"},
     recon |-> {"web_scan", "recon", "nmap"},
     web_attack |-> {"sql_injection", "sqlinjection", "web_attack"},
     malware |-> {"virus", "malware", "clamd"}, data_exfiltration |-> {"exfiltration"}]

DecodersOf ==
    [ssh_brute_force |-> {"sshd"}, c2_beacon |-> {"suricata"}, malware |-> {"clamd"},
     web_attack |-> {"apache", "nginx", "iis", "modsecurity", "web-accesslog"}]

PortsOf == [ssh_brute_force |-> {22}, web_attack |-> {80, 443}]

\* The categories of the keys a table knows, in the order of the keys.
Signals(table, keys) ==
    LET known == SelectSeq(keys, LAMBDA k : \E c \in DOMAIN table : k \in table[c])
    IN  [i \in DOMAIN known |-> CHOOSE c \in DOMAIN table : known[i] \in table[c]]

Parents(techniques) ==
    LET subs == SelectSeq(techniques, LAMBDA t : Len(t) = 2)
    IN  [i \in DOMAIN subs |-> <<subs[i][1]>>]

Rank(c) == CHOOSE i \in DOMAIN PRIORITY : PRIORITY[i] = c

(* The bug that takes the categories in the order the SIEM sent them.      *)
FirstSeenFirst(signals) ==
    LET first == {i \in DOMAIN signals : \A j \in 1 .. i - 1 : signals[j] # signals[i]}
    IN  [n \in 1 .. Cardinality(first) |->
            signals[CHOOSE i \in first : Cardinality({j \in first : j <= i}) = n]]

\* _sort_by_priority
SortByPriority(signals) == SetToSortSeq(Range(signals), LAMBDA c, d : Rank(c) < Rank(d))

\* The five tiers, each one consulted when those before it have nothing.
Tiers(techniques, groups, decoder, dst_port) ==
    <<[by |-> "mitre", signals |-> Signals(TechniquesOf, techniques)],
      [by |-> "mitre_parent", signals |-> Signals(TechniquesOf, Parents(techniques))],
      [by |-> "rule_groups", signals |-> Signals(GroupsOf, groups)],
      [by |-> "decoder", signals |-> Signals(DecodersOf, SetToSeq(Or(decoder, {})))],
      [by |-> "dst_port", signals |-> Signals(PortsOf, <<dst_port>>)]>>

Resolve(techniques, groups, decoder, dst_port) ==
    LET tiers == SelectSeq(Tiers(techniques, groups, decoder, dst_port),
                           LAMBDA t : t.signals # <<>>)
    IN  IF tiers = <<>> THEN [category |-> "unknown", categories |-> <<>>, resolved_by |-> "none"]
        ELSE LET categories == SortByPriority(tiers[1].signals)
             IN  [category |-> categories[1], categories |-> categories,
                  resolved_by |-> tiers[1].by]
---------------------------------------------------------------------------
SeverityFromLevel(level) == CASE level >= 12 -> "critical" [] level >= 8 -> "high"
                              [] level >= 5 -> "medium" [] OTHER -> "low"

\* A time parsed, and carried over to UTC.
Instant(time) == time.shows - (IF time.offset = Missing THEN HostOffset ELSE time.offset)

\* _resolve_alert_time: the indexer's field, else the alert's own timestamp.
AlertTime(doc) ==
    IF doc.envelope = "indexer_hit" /\ doc.field # Missing THEN doc.field ELSE doc.alert.timestamp

IsPrivate(ip) == CASE ip \in PrivateAddresses -> "true"
                   [] ip \in PublicAddresses -> "false"
                   [] OTHER -> "null"

Bytes(widths) == FoldSeq(LAMBDA w, n : w + n, 0, widths)
Prefix(log, n) == SubSeq(log, 1, n)

(* The bug that cuts at the character the limit falls in.                  *)
TruncateMidway(log) ==
    IF Bytes(log) <= RAW_LOG_MAX_BYTES THEN [raw_log |-> log, truncated |-> FALSE]
    ELSE [raw_log |-> Prefix(log, CHOOSE n \in DOMAIN log :
                                    /\ Bytes(Prefix(log, n)) >= RAW_LOG_MAX_BYTES
                                    /\ Bytes(Prefix(log, n - 1)) < RAW_LOG_MAX_BYTES),
          truncated |-> TRUE]

\* _truncate_raw_log: from the limit back, a byte at a time, to the end of a character.
Truncate(log) ==
    LET ends == {Bytes(Prefix(log, n)) : n \in 0 .. Len(log)}
        back[b \in 0 .. RAW_LOG_MAX_BYTES] == IF b \in ends THEN b ELSE back[b - 1]
    IN  IF Bytes(log) <= RAW_LOG_MAX_BYTES THEN [raw_log |-> log, truncated |-> FALSE]
        ELSE [raw_log |-> Prefix(log, CHOOSE n \in 0 .. Len(log) :
                                        Bytes(Prefix(log, n)) = back[RAW_LOG_MAX_BYTES]),
              truncated |-> TRUE]

Rejected(reason) == [rejection |-> reason]

\* The alert of a document that has an identity.
AlertOf(doc) ==
    LET a == doc.alert
        at == Instant(AlertTime(doc))
        manager_id == Or(a.manager, "default")
        agent_name == Or(a.agent, manager_id)
        srcip == Or(a.srcip, "")
        dstip == Or(a.dstip, "")
    IN  [alert_id |-> a.id, manager_id |-> manager_id, rule_id |-> a.rule_id,
         description |-> a.description, agent_name |-> agent_name,
         origin_host |-> Or(a.hostname, agent_name), alert_time |-> at,
         srcip |-> srcip, dstip |-> dstip, alert_user |-> Or(a.dstuser, a.srcuser),
         severity |-> SeverityFromLevel(a.level),
         resolution |-> Resolve(a.techniques, a.groups, Or(a.decoder, a.parent), a.dstport),
         srcip_is_private |-> IsPrivate(srcip), dstip_is_private |-> IsPrivate(dstip),
         log |-> Truncate(a.full_log),
         event |-> <<a.rule_id, srcip, dstip, agent_name, at \div Bucket>>]

ParseWazuhAlert(doc) ==
    CASE doc.alert.id = Missing -> Rejected("id")
      [] doc.alert.rule_id = Missing -> Rejected("rule.id")
      [] doc.alert.description = Missing -> Rejected("rule.description")
      [] AlertTime(doc) = Missing -> Rejected("timestamp")
      [] OTHER -> [rejection |-> Missing, alert |-> AlertOf(doc)]
---------------------------------------------------------------------------
(***************************************************************************)
(* What the definitions are held to.                                       *)
(***************************************************************************)
(* The same alert comes by the webhook and by the indexer: the envelope    *)
(* decides nothing but the instant, and only when it gives one.            *)
EnvelopeAside(doc) ==
    LET hit == ParseWazuhAlert([doc EXCEPT !.envelope = "indexer_hit"])
        bare == ParseWazuhAlert([doc EXCEPT !.envelope = "bare"])
        timeless(r) == [r.alert EXCEPT !.alert_time = 0, !.event = <<>>]
    IN  /\ doc.field = Missing => hit = bare
        /\ hit.rejection = Missing /\ bare.rejection = Missing => timeless(hit) = timeless(bare)
        /\ bare.rejection = Missing => hit.rejection = Missing

(* The category does not depend on the order of the arrays, is the gravest *)
(* one of its tier, and its tier the first to know a key.                  *)
CategoryStable(doc) ==
    LET of(d) == ParseWazuhAlert(d).alert.resolution
        r == of(doc)
        tiers == Tiers(doc.alert.techniques, doc.alert.groups,
                       Or(doc.alert.decoder, doc.alert.parent), doc.alert.dstport)
    IN  /\ of([doc EXCEPT !.alert.techniques = Reverse(@), !.alert.groups = Reverse(@)]) = r
        /\ \A i, j \in DOMAIN r.categories : i < j => Rank(r.categories[i]) < Rank(r.categories[j])
        /\ r.resolved_by # "none" <=> \E t \in DOMAIN tiers : tiers[t].signals # <<>>
        /\ \A t, u \in DOMAIN tiers :
              t < u /\ tiers[t].signals # <<>> => r.resolved_by # tiers[u].by

(* The stored log is the longest run of whole characters under the limit,  *)
(* and says it was cut just when it was.                                   *)
LogFits(doc) ==
    LET log == doc.alert.full_log
        stored == ParseWazuhAlert(doc).alert.log
    IN  /\ IsPrefix(stored.raw_log, log) /\ Bytes(stored.raw_log) <= RAW_LOG_MAX_BYTES
        /\ stored.truncated <=> stored.raw_log # log
        /\ stored.truncated =>
              Bytes(Prefix(log, Len(stored.raw_log) + 1)) > RAW_LOG_MAX_BYTES

(* No column of the cluster key is null, and an address is private or      *)
(* public only if it is one.                                               *)
KeyWhole(doc) ==
    LET a == ParseWazuhAlert(doc).alert
    IN  /\ Missing \notin {a.rule_id, a.srcip, a.dstip, a.agent_name, a.origin_host}
        /\ a.srcip_is_private = "null" <=> a.srcip \notin PublicAddresses \cup PrivateAddresses

ParsedAlike(doc) ==
    /\ EnvelopeAside(doc)
    /\ ParseWazuhAlert(doc).rejection = Missing =>
          CategoryStable(doc) /\ LogFits(doc) /\ KeyWhole(doc)
=============================================================================
