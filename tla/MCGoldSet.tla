----------------------------- MODULE MCGoldSet -----------------------------
(* TLC instance of the labelling: either the labels, the meeting and the    *)
(* freezes run, or the pages are looked at in two databases.                *)
EXTENDS GoldSet, Views, TLC

VARIABLE looking    \* the behaviour is about the pages

MCTruth == [c \in Windowed |-> "escalate"]

MCHeads == {"p", "q", "r", "s"}
MCRule == [h \in MCHeads |-> IF h = "r" THEN "5710" ELSE "5503"]
MCAgent == [h \in MCHeads |-> IF h = "r" THEN "web" ELSE "db"]
MCSrcip == [h \in MCHeads |-> "10.0.0.9"]
MCTime == [h \in MCHeads |-> CASE h = "p" -> 3 [] h = "q" -> 4 [] h = "r" -> 5 [] h = "s" -> 6]
MCRisk == [h \in MCHeads |-> IF h = "q" THEN 80 ELSE 30]
MCCount == [h \in MCHeads |-> IF h = "p" THEN 4 ELSE 2]
MCOrder == <<"q", "s", "r", "p">>

NoViews == /\ triaged = <<>> /\ mine = {} /\ world = <<>> /\ moves = 0

MCInit == /\ Init
          /\ \/ looking = FALSE /\ NoViews
             \/ looking = TRUE /\ excluded = {} /\ ViewsInit

Freezing(step) == ~ looking /\ step /\ UNCHANGED <<looking, viewsVars>>
Looking(step) == looking /\ step /\ UNCHANGED <<looking, vars>>

MCNext ==
    \/ \E l \in Labelers : \/ \E c \in Candidates, label \in Labels : Freezing(Submit(l, c, label))
                           \/ Freezing(UndoBegin(l)) \/ Freezing(UndoDelete(l))
    \/ Freezing(DisagreementsBegin) \/ Freezing(DisagreementsWrite)
    \/ \E c \in Candidates, label \in Labels : Freezing(Decide(c, label))
    \/ Freezing(FreezeBegin)
    \/ \E named, allow_partial \in BOOLEAN : Freezing(ReadLabels(named, allow_partial))
    \/ Freezing(WriteCsv) \/ Freezing(TornCsv) \/ Freezing(Seal) \/ Freezing(Record) \/ Freezing(Crash)
    \/ Looking(viewsNext)

MCSpec == MCInit /\ [][MCNext]_<<vars, viewsVars, looking>>

Symmetry == Permutations(Labelers) \cup Permutations(Worlds)
=============================================================================
