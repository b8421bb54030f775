------------------------------- MODULE Prompt -------------------------------
(***************************************************************************)
(* A message to the model, as functions of what goes into it: what         *)
(* llm/triage.py cuts to stay within the budget, how security/wrap.py      *)
(* fences text off and security/linter.py reads the whole back, and what   *)
(* the repair round may say about an invalid answer.  A text is a sequence *)
(* of tokens, a size is a number of units of the estimate.                 *)
(***************************************************************************)
EXTENDS Naturals, Sequences, FiniteSets

CONSTANTS
    LogLimit, LogCut,        \* PROMPT_LOG_MAX_BYTES, RAW_LOG_CUT_BYTES
    MostRows, RowsCut,       \* MAX_CORRELATION_ROWS, ROWS_CUT
    MostSamples, SamplesCut, \* MAX_CORRELATION_SAMPLES, SAMPLES_CUT
    RowSize, SampleSize      \* what one of them costs

ASSUME PromptAssumption ==
    /\ {LogLimit, LogCut, MostRows, RowsCut, MostSamples, SamplesCut, RowSize, SampleSize} \subseteq Nat
    /\ LogCut < LogLimit /\ RowsCut < MostRows /\ 0 < SamplesCut /\ SamplesCut < MostSamples

LeastOf(m, n) == IF m < n THEN m ELSE n

---------------------------------------------------------------------------
(* build_proposer_prompt.  An input is [fixed, log, rows, samples]: fixed   *)
(* is the size of what is never cut, the alert and the playbook.            *)

Loaded(inp) ==
    [log |-> LogLimit, rows |-> LeastOf(inp.rows, MostRows),
     samples |-> IF inp.rows = 0 THEN 0 ELSE LeastOf(inp.samples, MostSamples)]

Rendered(inp, limits) ==
    [log |-> LeastOf(inp.log, limits.log), rows |-> limits.rows,
     samples |-> IF limits.rows = 0 THEN 0 ELSE limits.samples]

Estimate(inp, sent) == inp.fixed + sent.log + RowSize * sent.rows + SampleSize * sent.samples

Cuts(inp) ==
    LET loaded == Loaded(inp)
        cut(name, key, value, changes) ==
            [name |-> name, key |-> key, value |-> value, changes |-> changes]
    IN  <<cut("raw_log_cut_to_8192", "log", LogCut, loaded.log > LogCut /\ inp.log > LogCut),
          cut("correlation_samples_cut_to_3", "samples", SamplesCut, loaded.samples > SamplesCut),
          cut("correlation_samples_dropped", "samples", 0, loaded.samples > 0),
          cut("correlation_rows_cut_to_10", "rows", RowsCut, loaded.rows > RowsCut)>>

Cut(now, c) == [limits |-> [now.limits EXCEPT ![c.key] = c.value],
                warnings |-> now.warnings \cup {c.name}]

Uncut(inp) == [limits |-> Loaded(inp), warnings |-> {}]

CutAll(inp, budget) ==
    LET apply(now, i) == IF Cuts(inp)[i].changes THEN Cut(now, Cuts(inp)[i]) ELSE now
    IN  IF Estimate(inp, Rendered(inp, Loaded(inp))) <= budget THEN Uncut(inp)
        ELSE apply(apply(apply(apply(Uncut(inp), 1), 2), 3), 4)

CutToBudget(inp, budget) ==
    LET over(now) == Estimate(inp, Rendered(inp, now.limits)) > budget
        apply(now, i) == IF over(now) /\ Cuts(inp)[i].changes THEN Cut(now, Cuts(inp)[i]) ELSE now
    IN  apply(apply(apply(apply(Uncut(inp), 1), 2), 3), 4)

BuildProposerPrompt(inp, budget) ==
    LET result == CutToBudget(inp, budget)
        sent == Rendered(inp, result.limits)
    IN  [sent |-> sent,
         warnings |-> result.warnings \cup IF Estimate(inp, sent) > budget
                                           THEN {"budget_exceeded_after_cuts"} ELSE {}]

---------------------------------------------------------------------------
(* security/wrap.py.  The tokens of a text: words, "lt" for a bracket,      *)
(* "open" and "close" for the names of the two tags, "nonce" for this       *)
(* message's nonce, "marker" for the words [truncated]; a look-alike of a   *)
(* bracket or of the nonce folds to it under NFKC.                          *)

Normalise(text) == [i \in DOMAIN text |-> CASE text[i] = "wide lt" -> "lt"
                                            [] text[i] = "wide nonce" -> "nonce"
                                            [] OTHER -> text[i]]
StripNonce(text) == [i \in DOMAIN text |-> IF text[i] = "nonce" THEN "nonce removed" ELSE text[i]]
Escape(text) == [i \in DOMAIN text |-> IF text[i] = "lt" THEN "escaped" ELSE text[i]]

Truncated(text, limit) == Len(text) > limit
Truncate(text, limit) ==
    IF Truncated(text, limit) THEN SubSeq(text, 1, limit) \o <<"marker">> ELSE text

OpenTag == <<"lt", "open", "nonce">>
CloseTag == <<"lt", "close", "nonce">>

PlainStripsFirst(text, limit) == Truncate(Normalise(StripNonce(text)), limit)

Plain(text, limit) == Truncate(StripNonce(Normalise(text)), limit)

UntrustedBlock(text, limit) == OpenTag \o Escape(Plain(text, limit)) \o CloseTag

(* PromptBuilder: facts and constants around the block, and nothing else. *)
Template == {"heading", "fact", "sentence"}
Message(text, limit) == <<"heading", "fact">> \o UntrustedBlock(text, limit) \o <<"sentence">>

(* security/linter.py: pair the tags that carry the nonce in the order of   *)
(* the message; what is left must be the template's.                        *)
At(message, i, tag) == SubSeq(message, i, i + 2) = tag

StripBlocks(message) ==
    LET f[i \in 0 .. Len(message)] ==
            IF i = 0 THEN [opened |-> 0, inside |-> {}, unbalanced |-> FALSE]
            ELSE LET s == f[i - 1]
                 IN  CASE i + 2 <= Len(message) /\ At(message, i, OpenTag) ->
                             IF s.opened = 0 THEN [s EXCEPT !.opened = i]
                             ELSE [s EXCEPT !.opened = i, !.unbalanced = TRUE]
                       [] i + 2 <= Len(message) /\ At(message, i, CloseTag) ->
                             IF s.opened = 0 THEN [s EXCEPT !.unbalanced = TRUE]
                             ELSE [s EXCEPT !.opened = 0, !.inside = @ \cup (s.opened .. i + 2)]
                       [] OTHER -> s
    IN  f[Len(message)]

Lint(message) ==
    LET blocks == StripBlocks(message)
    IN  (IF blocks.unbalanced \/ blocks.opened # 0 THEN {"unbalanced_block"} ELSE {})
        \cup (IF \A i \in DOMAIN message \ blocks.inside : message[i] \in Template
              THEN {} ELSE {"free_text"})

(* detector._heuristic_fake_truncation_marker counts in the block's text.   *)
Markers(text) == Cardinality({i \in DOMAIN text : text[i] = "marker"})
FakeTruncationMarker(text, limit) ==
    LET truncated == Truncated(text, limit)
    IN  (~ truncated /\ Markers(Plain(text, limit)) >= 1) \/ (truncated /\ Markers(Plain(text, limit)) > 1)

---------------------------------------------------------------------------
(* The repair round.  A schema path is a sequence of names, "." and "[]"    *)
(* (llm/triage._schema_paths of triage_v2, shortened); a validator's error  *)
(* is the path, a ":" and a message, and an unexpected key is the model's.  *)

ObjectPaths == {<<"structured_basis">>, <<"reasons", "[]">>}
SchemaPaths == ObjectPaths \cup {<<"reasons">>, <<"confidence">>, <<"structured_basis", ".", "severity">>,
                                 <<"reasons", "[]", ".", "source">>}
Unexpected == "unexpected key"
Faults == {"missing", "expected one of", "expected object", "expected array"}

Indexed(path) == [i \in DOMAIN path |-> IF path[i] = "[]" THEN "[0]" ELSE path[i]]

(* llm/schemas.validate of an answer with one fault, or with one key that   *)
(* is not in the schema.                                                    *)
ErrorAt(path, message) == path \o <<":", message>>
KeyIn(path, key) == Indexed(path) \o <<".">> \o key
FaultErrors == {ErrorAt(Indexed(p), fault) : p \in SchemaPaths, fault \in Faults}
KeyErrors(keys) == {ErrorAt(key, Unexpected) : key \in keys}
                   \cup {ErrorAt(KeyIn(p, key), Unexpected) : p \in ObjectPaths, key \in keys}

NoIndices(path) == [i \in DOMAIN path |-> IF path[i] = "[0]" THEN "[]" ELSE path[i]]

ParentKey(path) == IF "." \in {path[i] : i \in DOMAIN path}
                   THEN SubSeq(path, 1, (CHOOSE i \in DOMAIN path :
                            path[i] = "." /\ \A j \in i + 1 .. Len(path) : path[j] # ".") - 1)
                   ELSE <<>>

(* _object_prefix: drop the last part until an object is left, or nothing. *)
ObjectPrefix(path) ==
    LET n == Len(path)
        shorter[i \in 0 .. n] ==
            IF i = 0 THEN path
            ELSE IF shorter[i - 1] \in ObjectPaths THEN shorter[i - 1] ELSE ParentKey(shorter[i - 1])
    IN  shorter[n]

(* error.partition(": ") stops at the first separator. *)
Separator(error) == CHOOSE i \in DOMAIN error :
                        error[i] = ":" /\ \A j \in 1 .. i - 1 : error[j] # ":"

RepairLine(error) ==
    LET path == NoIndices(SubSeq(error, 1, Separator(error) - 1))
        message == SubSeq(error, Separator(error) + 1, Len(error))
        ours == IF message = <<Unexpected>> THEN ObjectPrefix(path) ELSE path
    IN  [path |-> IF ours = <<>> THEN <<"<root>">> ELSE ours, message |-> message]

(* The linter's vocabulary for a bullet, REPAIR_CONSTANTS. *)
RepairConstant(line) == /\ line.path \in SchemaPaths \cup {<<"<root>">>}
                        /\ line.message \in {<<m>> : m \in Faults \cup {Unexpected}}

---------------------------------------------------------------------------
(* Phase 5's cut order as a ladder: what is sent is the first rung within   *)
(* the budget, or the last one with a warning, and there is a warning for   *)
(* each rung that changed something on the way.                             *)
Ladder(inp) ==
    LET top == Rendered(inp, Loaded(inp))
        log == [top EXCEPT !.log = LeastOf(@, LogCut)]
        few == [log EXCEPT !.samples = LeastOf(@, SamplesCut)]
        none == [log EXCEPT !.samples = 0]
    IN  <<top, log, few, none, [none EXCEPT !.rows = LeastOf(@, RowsCut)]>>

PromptFits(inp, budget) ==
    LET built == BuildProposerPrompt(inp, budget)
        ladder == Ladder(inp)
        fits(i) == Estimate(inp, ladder[i]) <= budget
        first == IF \E i \in DOMAIN ladder : fits(i)
                 THEN CHOOSE i \in DOMAIN ladder : fits(i) /\ \A j \in 1 .. i - 1 : ~ fits(j)
                 ELSE Len(ladder)
        (* few to none changes nothing when there was no sample at all *)
        changed == Cardinality({i \in 2 .. first : ladder[i] # ladder[i - 1]})
    IN  /\ built.sent = ladder[first]
        /\ Cardinality(built.warnings) = changed + IF fits(first) THEN 0 ELSE 1

(* Whatever a text holds, the message has one block and the linter finds    *)
(* nothing to object to; the nonce is nowhere but in the two tags; and the  *)
(* detector reports a truncation marker exactly if the text that was kept   *)
(* brought one along.                                                       *)
MessageIsOurs(text, limit) ==
    LET message == Message(text, limit)
    IN  /\ Lint(message) = {}
        /\ Cardinality({i \in DOMAIN message : message[i] = "nonce"}) = 2
        /\ FakeTruncationMarker(text, limit) <=>
              \E i \in DOMAIN text : i <= limit /\ text[i] = "marker"

(* llm/triage.py, "every bullet is composed of REPAIR_CONSTANTS": true of   *)
(* every error but that of an unexpected key which itself holds the ": "    *)
(* the error is split at; the linter stops that one and the job fails.      *)
RepairIsOurs(error) ==
    Cardinality({i \in DOMAIN error : error[i] = ":"}) = 1 => RepairConstant(RepairLine(error))
=============================================================================
