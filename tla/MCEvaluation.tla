---------------------------- MODULE MCEvaluation ----------------------------
(* TLC instance of the evaluation tools: the lab windows as they run, the   *)
(* chain of prompts under the regression gate, the loads of the adversarial *)
(* set, and, one initial state an input, the allocator over every small     *)
(* pool, the metrics and the kappas over every small set of answers, the    *)
(* parser over documents that try each of its branches, and the two folds   *)
(* over every small archive.                                                *)
EXTENDS LabWindows, Allocation, PromptGate, Agreement, Archive, Adversarial

CONSTANTS MaxSize, NoPool, Draws

VARIABLES
    pool,    \* a pool and its parameters for the allocator, or NoPool
    paper    \* answers for the metrics, as a record with a kind

MCClassified == <<"recon", "malware", "ransomware">>
MCSeverities == <<"high", "low">>
MCAgentOf == [h \in Heads |-> "m1"]
MCExpected == [c \in Attacks |-> {"expected"}]
MCTruthOf == [g1 |-> <<"escalate", "escalate", "benign">>,
              g2 |-> <<"escalate", "benign", "benign">>]
MCConditions == {[config |-> "B1", llm_thinking |-> "disabled"],
                 [config |-> "B1", llm_thinking |-> "enabled"],
                 [config |-> "B2", llm_thinking |-> "disabled"]}
MCManifestRows == <<[vector |-> 4, pattern |-> 8], [vector |-> 5, pattern |-> 1]>>
MCPosted == {Fixture(5, 1, "neighbour")}
MCStrangerKey == [s \in Strangers |-> Fixture(5, 1, "neighbour").srcip]
MCManifest == [t1 |-> "user-agent", t2 |-> "filename"]

Strata == {n \in [Elements(Severities) -> 0 .. MaxSize] : n["high"] < 2 /\ Total(n) <= MaxSize}
Pools == [size : [Categories -> Strata],
          target : {2, 5}, cap : {0, 40}, takeAll : BOOLEAN, floor : {1, 2}]

Given == Labels \cup {"none"}
Decks == {[c \in 1 .. 3 |-> [a |-> labels[c][1], b |-> labels[c][2], truth |-> truths[c],
                            category |-> IF c = 2 THEN "recon" ELSE "malware"]] :
            labels \in [1 .. 3 -> Given \X Given],
            truths \in {<<"escalate", "benign", "none">>, <<"benign", "benign", "benign">>}}

Shown(shows, offset) == [shows |-> shows, offset |-> offset]
Plain == [id |-> 1, rule_id |-> "5710", description |-> "login", timestamp |-> Shown(7, 0),
          manager |-> "wazuh", agent |-> "h", hostname |-> Missing, srcip |-> "pub", dstip |-> "",
          dstuser |-> Missing, srcuser |-> "u", level |-> 5, techniques |-> <<>>, groups |-> <<>>,
          decoder |-> Missing, parent |-> Missing, dstport |-> 0, full_log |-> <<>>]
Doc(alert, field) == [kind |-> "document",
                      doc |-> [envelope |-> "indexer_hit", field |-> field, alert |-> alert]]

Subs == {<<"T1110", "001">>, <<"T1078">>, <<"T1543", "003">>, <<"T1190", "999">>}
Keyed == {[Plain EXCEPT !.techniques = techniques, !.groups = groups, !.decoder = decoder,
                        !.dstport = port] :
            techniques \in BoundedSeq(Subs, 2), groups \in BoundedSeq({"sudo", "nmap", "other"}, 2),
            decoder \in {Missing, {"nginx", "suricata"}}, port \in {0, 22}}
Partial == {[Plain EXCEPT !.id = id, !.rule_id = rule_id, !.description = description,
                          !.timestamp = timestamp, !.agent = agent, !.manager = manager,
                          !.srcip = srcip] :
              id \in {1, Missing}, rule_id \in {"5710", Missing}, description \in {"login", Missing},
              timestamp \in {Missing, Shown(7, 2), Shown(7, Missing)}, agent \in {"h", Missing},
              manager \in {"wazuh", Missing}, srcip \in {"pub", "priv", "name", Missing}}
Logged == {[Plain EXCEPT !.full_log = log] : log \in BoundedSeq({1, 3}, 4)}

Documents == {Doc(alert, field).doc : alert \in Keyed \cup Partial \cup Logged,
                                      field \in {Missing, Shown(9, 0)}}

Numbered(f) == [i \in DOMAIN f |->
    IF f[i][1] = "invalid_json" THEN [kind |-> "invalid_json"]
    ELSE Doc([Plain EXCEPT !.id = i, !.rule_id = f[i][1], !.timestamp = Shown(f[i][2], 0)], Missing)]
Archives == {Numbered(f) : f \in [1 .. 5 -> {"5710"} \X (0 .. 4)]
                                 \cup [1 .. 4 -> {"5710", "5712"} \X {0, 1, 3}]
                                 \cup [1 .. 2 -> {"invalid_json", "5710", Missing} \X {0, 1}]}

NoPaper == [kind |-> "none"]
Loading == [kind |-> "loading"]
Gating == [kind |-> "gating"]
Exam == [truth : [1 .. 3 -> DOMAIN TruthClass],
         verdict : [1 .. 3 -> {"escalate", "false_positive", "needs_review", "none"}]]
Papers == [kind : {"exam"}, of : Exam]
          \cup [kind : {"pair"}, right : [1 .. 5 -> BOOLEAN \X BOOLEAN]]
          \cup [kind : {"asr"}, answers : UNION {[S -> {"false_positive", "benign", "none"}] :
                                                  S \in SUBSET DOMAIN Manifest}]
          \cup [kind : {"interval"}, defined : 0 .. Draws]
          \cup [kind : {"cards"}, of : Decks]
          \cup [kind : {"document"}, doc : Documents]
          \cup [kind : {"archive"}, lines : Archives]

FirstRun == CHOOSE doc \in G2Docs : TRUE
NoGate == baseline = FirstRun /\ baseline_g3 = NoRun /\ bar = BarOf(FirstRun, NoRun)

Lab(step) == pool = NoPool /\ paper = NoPaper /\ step /\ UNCHANGED <<pool, paper, gateVars, advVars>>
Gated(step) == step /\ UNCHANGED <<pool, paper, vars, advVars>>
Apart(step) == paper = Loading /\ step /\ UNCHANGED <<pool, paper, vars, gateVars>>

(* Activate asks that Decide finds the documents comparable: no other one   *)
(* need be tried.                                                           *)
Candidates == {c \in G2Docs : Comparable(baseline, c)}
Candidates3 == IF baseline_g3 = NoRun THEN {NoRun}
               ELSE {c3 \in G3Docs : Comparable(baseline_g3, c3)}

MCNext ==
    \/ \E h \in Heads, at \in Instants, rule \in Rules : Lab(Index(h, at, rule))
    \/ \E w \in Windows, allow_overlap \in BOOLEAN : Lab(TagBegin(w, allow_overlap))
    \/ Lab(Retag) \/ Lab(AppendRow) \/ Lab(TagDies)
    \/ Lab(BuildBegin) \/ Lab(SelectWindow) \/ Lab(BuildEnds)
    \/ paper = Gating /\ \E c \in Candidates, c3 \in Candidates3 : Gated(Activate(c, c3))
    \/ paper = Gating /\ \E doc3 \in G3Docs : Gated(RunG3(doc3))
    \/ paper = Gating /\ Gated(DropG3)
    \/ paper = Gating /\ \E doc \in G2Docs : Gated(Remeasure(doc))
    \/ \E l \in Loads : \/ \E dry_run, skip_marker \in BOOLEAN : Apart(Start(l, dry_run, skip_marker))
                       \/ Apart(Look(l)) \/ Apart(Insert(l)) \/ Apart(Mark(l))
                       \/ Apart(Count(l)) \/ Apart(LoadEnds(l))
    \/ \E a \in Posted \cup Strangers : Apart(Pipeline(a))
    \/ \E h \in Ids : Apart(Ageing(h))
    \/ Apart(Freeze) \/ Apart(Generate) \/ Apart(Evaluate)

MCInit ==
    /\ Init
    /\ \/ NoGate /\ pool \in Pools \cup {NoPool} /\ paper = NoPaper
       \/ NoGate /\ pool = NoPool /\ paper \in Papers \cup {Loading}
       \/ gateInit /\ pool = NoPool /\ paper = Gating
    /\ advInit /\ (paper # Loading => rejected = {})

MCSpec == MCInit /\ [][MCNext]_<<vars, pool, paper, gateVars, advVars>>

(* The sample takes no more than a stratum holds, keeps `unknown` under its *)
(* budget unless the take-all rule alone is over it, takes every critical   *)
(* and high cluster under that rule, is short of the target only with the   *)
(* classified clusters used up and the budget met, and leaves a category    *)
(* under its floor only when no other one has a cluster to spare.           *)
AllocationSound == pool # NoPool => SampleSound(pool.size, pool)

Graded == [c \in 1 .. 3 |-> [truth |-> paper.of.truth[c], verdict |-> paper.of.verdict[c],
                             kind |-> IF c = 1 THEN "attack" ELSE "benign"]]
Side(i) == [c \in 1 .. 5 |-> [truth |-> "escalate",
                              verdict |-> IF paper.right[c][i] THEN "escalate" ELSE "benign"]]

Answers == [c \in {d \in 1 .. 3 : Graded[d].verdict # "none"} |-> Graded[c].verdict]
ScoresFit ==
    /\ paper.kind = "exam" => /\ CellsAddUp(Graded) /\ HarmonicF1(Graded) /\ Monotone(Graded)
                              /\ NoneLost(Answers, Graded)
    /\ paper.kind = "pair" => ExactTail(Side(1), Side(2))
    /\ paper.kind = "asr" => AsrAddsUp(paper.answers, Manifest)
    /\ paper.kind = "interval" => IntervalHolds(Draws, paper.defined)
    /\ paper.kind = "cards" => KappaMeans(paper.of) /\ BaselineStands(paper.of)

FoldAgrees ==
    /\ paper.kind = "document" => ParsedAlike(paper.doc)
    /\ paper.kind = "archive" => FoldsAgree(paper.lines) /\ ReportAddsUp(paper.lines)

(* The numbers a prompt is judged by mean what they say; an alert means the *)
(* same however it came, by the webhook, the indexer or the archive; and    *)
(* the clusters the evaluation folds out of an archive are those the        *)
(* pipeline's own predicates make of it.                                    *)
PapersFit == ScoresFit /\ FoldAgrees

Symmetry == Permutations(Heads) \cup Permutations(Scenarios) \cup Permutations(Loads)
=============================================================================
