---------------------------- MODULE MCAutoClose ----------------------------
(* TLC instance: one host, one user and one address of interest, an asset  *)
(* file that is renamed, and alerts that reach each lookup's branches.  A  *)
(* behaviour is one of two kinds: loads that overlap, without alerts, or   *)
(* alerts while fewer loads run one at a time.                             *)
EXTENDS AutoClose, TLC

CONSTANTS inv, moved, ids, csv

VARIABLE alerting

MCFiles == {inv, moved, ids, csv}
MCPathLists == {<<inv, ids, csv>>, <<moved, ids, csv>>}

Host(criticality) == <<"asset", "h">> :> criticality
Relay(criticality) == <<"asset", "relay">> :> criticality
User(privileged) == <<"identity", "u">> :> privileged
Ioc(address, source, reputation, until) ==
    <<"ioc", address, source>> :> [reputation |-> reputation, until |-> until]

MCVersions == inv :> {Nothing, Host("low")}
           @@ moved :> {Host("high"), Relay("high") @@ Host("low")}
           @@ ids :> {Nothing, User("true")}
           @@ csv :> {Ioc("x", "s", "clean", 2) @@ Ioc("y", "t", "suspicious", 2),
                    Ioc("x", "s", "malicious", 3)}

Addresses(private) == {[ip |-> "x", private |-> private], [ip |-> "y", private |-> private]}

Alert(agent, origin, user, addresses, severity) ==
    [agent |-> agent, origin |-> origin, user |-> user, severity |-> severity,
     addresses |-> addresses]

MCAlerts == {Alert("h", Null, "u", Addresses("true"), "low"),
             Alert("relay", "h", Null, Addresses("null"), "low"),
             Alert("h", "h", Null, {}, "critical"),
             Alert("never", "h", Null, {}, "low")}

MCRules == <<Malformed,
             <<[field |-> "agent_name", allowed |-> {"h", "relay", "never"}],
               [field |-> "asset_criticality", allowed |-> {"low", "high", "unknown"}]>>>>

Kind(step) == step /\ UNCHANGED alerting

MCNext ==
    \/ \E f \in Files : \E version \in Versions[f] \cup {Broken} :
          Kind(Edit(f, version) /\ UNCHANGED <<clock, job>>)
    \/ \E l \in Loads : 
          \/ \E paths \in PathLists :
                /\ alerting => loads < MaxLoads - 1 /\ Others(l) = {}
                /\ Kind(LoadBegin(l, paths) /\ UNCHANGED <<clock, job>>)
          \/ Kind((LoadFile(l) \/ LoadCommit(l) \/ LoadFails(l)) /\ UNCHANGED <<clock, job>>)
    \/ alerting /\ Kind(PipelineNext \/ Tick)

MCInit == Init /\ alerting \in BOOLEAN

MCSpec == MCInit /\ [][MCNext]_<<vars, alerting>>

Symmetry == Permutations(Loads)
=============================================================================
