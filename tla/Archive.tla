------------------------------- MODULE Archive -------------------------------
(***************************************************************************)
(* eval/dedup_verify.py and scripts/measure_clusters.py: the clusters of   *)
(* an archive of alerts, folded offline over the times of the alerts       *)
(* instead of the database's clock.  A line of the archive holds a         *)
(* document, or is one of the two ways of not holding any; the identifiers *)
(* of the alerts are numbers, for their order.                             *)
(***************************************************************************)
EXTENDS Parser, TLC

CONSTANTS
    IdleGap, MaxAge, MAX_CLUSTER_SIZE,
    DayLength, DisplayOffset,  \* a day, and the zone of DISPLAY_TZ
    StormDay

Fate(line) == IF line.kind = "document" THEN ParseWazuhAlert(line.doc) ELSE Rejected(line.kind)

\* read_archive: a line that is no alert is counted under its reason, never raised.
ReadArchive(lines) ==
    LET fates == [i \in DOMAIN lines |-> Fate(lines[i])]
        parsed == SelectSeq(fates, LAMBDA f : f.rejection = Missing)
        rejected == SelectSeq(fates, LAMBDA f : f.rejection # Missing)
    IN  [lines |-> Len(lines), parsed |-> Len(parsed),
         alerts |-> [i \in DOMAIN parsed |-> parsed[i].alert],
         rejected_by_reason |-> ToBag([i \in DOMAIN rejected |-> rejected[i].rejection])]

KeyOf(alert) == <<alert.rule_id, alert.srcip, alert.dstip, alert.agent_name>>

Earlier(a, b) == \/ a.alert_time < b.alert_time
                 \/ a.alert_time = b.alert_time /\ a.alert_id < b.alert_id

\* The newest cluster of a key, as a set of at most one index.
Newest(clusters, key) ==
    {i \in DOMAIN clusters : /\ clusters[i].key = key
                             /\ \A j \in DOMAIN clusters : clusters[j].key = key => j <= i}

Opened(alert) == [key |-> KeyOf(alert), first_seen |-> alert.alert_time,
                  last_seen |-> alert.alert_time, members |-> <<alert.alert_id>>,
                  closed_by |-> "nothing"]

(* The bug that closes a cluster at the idle gap, not past it.             *)
ReasonAtGap(c, at) == CASE at - c.last_seen >= IdleGap -> "idle_gap"
                        [] at - c.first_seen > MaxAge -> "max_age"
                        [] Len(c.members) >= MAX_CLUSTER_SIZE -> "max_size"
                        [] OTHER -> "nothing"

\* Why an alert of this time does not join the cluster, if it does not.
Reason(c, at) == CASE at - c.last_seen > IdleGap -> "idle_gap"
                   [] at - c.first_seen > MaxAge -> "max_age"
                   [] Len(c.members) >= MAX_CLUSTER_SIZE -> "max_size"
                   [] OTHER -> "nothing"

FoldAlert(clusters, alert) ==
    LET newest == Newest(clusters, KeyOf(alert))
        at == alert.alert_time
        joins == \E i \in newest : Reason(clusters[i], at) = "nothing"
        now == [i \in DOMAIN clusters |->
                  IF i \notin newest THEN clusters[i]
                  ELSE IF joins THEN [clusters[i] EXCEPT !.last_seen = at,
                                         !.members = Append(@, alert.alert_id)]
                  ELSE [clusters[i] EXCEPT !.closed_by = Reason(clusters[i], at)]]
    IN  IF joins THEN now ELSE Append(now, Opened(alert))

FoldClusters(alerts) == FoldLeft(FoldAlert, <<>>, SortSeq(alerts, Earlier))

LocalDay(at) == (at + DisplayOffset) \div DayLength

ClustersPerDay(clusters) == ToBag([i \in DOMAIN clusters |-> LocalDay(clusters[i].first_seen)])

\* storm_day_report
StormDayReport(alerts, clusters) ==
    LET day == {i \in DOMAIN clusters : LocalDay(clusters[i].first_seen) = StormDay}
        closed(by) == Cardinality({i \in day : clusters[i].closed_by = by})
    IN  [alerts |-> Cardinality({i \in DOMAIN alerts : LocalDay(alerts[i].alert_time) = StormDay}),
         clusters |-> Cardinality(day),
         largest_cluster_size |-> Max({Len(clusters[i].members) : i \in day} \cup {0}),
         clusters_hit_max_size |-> closed("max_size"),
         clusters_hit_max_age |-> closed("max_age")]

\* compute_verdict, in percent: nothing is compared when nothing is expected.
Passed(clusters, expect, tolerance_pct) ==
    LET off == IF clusters > expect THEN clusters - expect ELSE expect - clusters
    IN  expect # 0 => 100 * off <= tolerance_pct * expect

BuildReport(lines, expect, tolerance_pct) ==
    LET stats == ReadArchive(lines)
        clusters == FoldClusters(stats.alerts)
    IN  [lines |-> stats.lines, parsed |-> stats.parsed,
         rejected_by_reason |-> stats.rejected_by_reason,
         clusters |-> Len(clusters), clusters_per_day |-> ClustersPerDay(clusters),
         storm_day |-> StormDayReport(stats.alerts, clusters),
         passed |-> Passed(Len(clusters), expect, tolerance_pct)]
---------------------------------------------------------------------------
\* measure_clusters: load, without the product's parser.
Load(lines) ==
    [i \in DOMAIN lines |->
        LET a == lines[i].doc.alert
        IN  [t |-> Instant(a.timestamp),
             key |-> <<a.rule_id, Or(a.srcip, ""), Or(a.dstip, ""),
                       Or(a.agent, Or(a.manager, ""))>>]]

\* fold: the alerts since an instant, in the order of the archive.
Measure(alerts, since) ==
    LET fold(clusters, a) ==
            LET newest == Newest(clusters, a.key)
                joined == {i \in newest : /\ a.t - clusters[i].last <= IdleGap
                                          /\ a.t - clusters[i].first <= MaxAge
                                          /\ clusters[i].n < MAX_CLUSTER_SIZE}
            IN  IF joined # {}
                  THEN [i \in DOMAIN clusters |->
                          IF i \in joined THEN [clusters[i] EXCEPT !.last = a.t, !.n = @ + 1]
                          ELSE clusters[i]]
                  ELSE Append(clusters, [key |-> a.key, first |-> a.t, last |-> a.t, n |-> 1])
    IN  FoldLeft(fold, <<>>, SelectSeq(alerts, LAMBDA a : a.t >= since))
---------------------------------------------------------------------------
(***************************************************************************)
(* What the definitions are held to.                                       *)
(***************************************************************************)
(* The clusters the pipeline would make of the alerts were its clock       *)
(* theirs: each alert looks for a head among all the rows of its key by    *)
(* the predicates of FIND_OPEN_CLUSTER_SQL, the latest seen first.         *)
Online(alerts) ==
    LET arrive(rows, a) ==
            LET open == {i \in DOMAIN rows : /\ rows[i].key = KeyOf(a)
                                             /\ rows[i].last >= a.alert_time - IdleGap
                                             /\ rows[i].first >= a.alert_time - MaxAge
                                             /\ Len(rows[i].members) < MAX_CLUSTER_SIZE}
                head == CHOOSE i \in open : \A j \in open : rows[j].last <= rows[i].last
            IN  IF open = {} THEN Append(rows, [key |-> KeyOf(a), first |-> a.alert_time,
                                                last |-> a.alert_time, members |-> <<a.alert_id>>])
                ELSE [rows EXCEPT ![head].last = a.alert_time,
                                  ![head].members = Append(@, a.alert_id)]
    IN  FoldLeft(arrive, <<>>, SortSeq(alerts, Earlier))

(* The offline fold finds the clusters the online predicates make, every   *)
(* alert in one, whatever the order of the lines; and over an archive in   *)
(* order of time the measurement counts the same clusters.                 *)
FoldsAgree(lines) ==
    \A alerts \in {ReadArchive(lines).alerts} :
    \A folded \in {FoldClusters(alerts)}, online \in {Online(alerts)} :
        LET measured == Measure(Load(lines), 0)
            documents == \A i \in DOMAIN lines : Fate(lines[i]).rejection = Missing
            inOrder == \A i, j \in DOMAIN alerts : i < j => alerts[i].alert_time <= alerts[j].alert_time
        IN  /\ [i \in DOMAIN folded |-> folded[i].members]
               = [i \in DOMAIN online |-> online[i].members]
            /\ FoldClusters(Reverse(alerts)) = folded
            /\ documents /\ inOrder =>
                  ToBag([i \in DOMAIN folded |->
                           <<folded[i].first_seen, folded[i].last_seen, Len(folded[i].members)>>])
                  = ToBag([i \in DOMAIN measured |->
                             <<measured[i].first, measured[i].last, measured[i].n>>])

(* The report accounts for every line and every cluster once, and a        *)
(* cluster of the storm day that hit a ceiling is of that day.             *)
ReportAddsUp(lines) ==
    \A r \in {BuildReport(lines, 1, 0)} :
        /\ r.lines = r.parsed + BagCardinality(r.rejected_by_reason)
        /\ r.clusters = BagCardinality(r.clusters_per_day)
        /\ r.storm_day.clusters = CopiesIn(StormDay, r.clusters_per_day)
        /\ r.storm_day.clusters_hit_max_size + r.storm_day.clusters_hit_max_age
              <= r.storm_day.clusters
        /\ r.storm_day.largest_cluster_size <= MAX_CLUSTER_SIZE
        /\ r.passed <=> r.clusters = 1
=============================================================================
