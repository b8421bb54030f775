------------------------------ MODULE Messages ------------------------------
(***************************************************************************)
(* What a triage job says to the model, one message at a time: a prompt    *)
(* cut to its budget, a text behind its fence, a line of the repair round, *)
(* the rulebook of a category.                                             *)
(***************************************************************************)
EXTENDS Prompt, Rulebook

CONSTANTS
    Tokens,       \* what the texts of alerts and the keys of answers are made of
    Keys,         \* unexpected keys of an answer
    NoMessage,
    Messages      \* the messages built

(* What an alert, its correlation, its playbook and an answer may be: sizes *)
(* are numbers, a document of the knowledge base has a list of rules, and a *)
(* playbook that is there has a text.                                       *)
IsInput(inp) == inp.fixed \in Nat /\ inp.log \in Nat /\ inp.rows \in Nat /\ inp.samples \in Nat

IsBook(kb) ==
    /\ kb.playbook # Null => kb.playbook.text # Null
    /\ kb.table # Null => DOMAIN kb.table.rules = 1 .. Len(kb.table.rules)
                          /\ Len(kb.table.rules) \in Nat

(* The numbers of a rule's condition are numbers of the grid. *)
OnGrid(rule) ==
    \A key \in DOMAIN rule.condition :
        /\ key \in {"rule_level_lt", "rule_level_gte"} => rule.condition[key] \in GridLevels
        /\ key \in {"occurrence_lt", "occurrence_gte"} => rule.condition[key] \in GridCounts

IsMessage(m) ==
    CASE m.kind = "budget" -> IsInput(m) /\ m.budget \in Nat
      [] m.kind = "fence" -> m.text \in Seq(Tokens) /\ m.limit \in Nat
      [] m.kind = "repair" -> m.error \in FaultErrors \cup KeyErrors(Keys)
      [] m.kind = "book" -> IsBook(m.of)
      [] m.kind = "grid" -> \A rule \in m.of.rules : OnGrid(rule)
      [] OTHER -> FALSE

ASSUME MessagesAssumption == Keys \subseteq Seq(Tokens) /\ \A m \in Messages : IsMessage(m)

VARIABLE message    \* what is built, or NoMessage while the job runs

messageInit == message \in Messages \cup {NoMessage}
messageSpec == messageInit /\ [][UNCHANGED message]_message
---------------------------------------------------------------------------
(* A prompt is as whole as the budget lets it be, a text stays in its block *)
(* whatever it holds, a repair repeats nothing of the answer's own, and the *)
(* rulebook in a prompt is the one the gate decides by.                     *)
MessageSound ==
    message # NoMessage =>
        CASE message.kind = "budget" -> PromptFits(message, message.budget)
          [] message.kind = "fence" -> MessageIsOurs(message.text, message.limit)
          [] message.kind = "repair" -> RepairIsOurs(message.error)
          [] message.kind = "book" -> RulebookSound(message.of)
          [] message.kind = "grid" -> GridSuffices(message.of, 0 .. 16, {1, 9, 49, 50, 51, 1001})
=============================================================================
