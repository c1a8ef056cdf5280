----------------------------- MODULE TaskContract -----------------------------
(***************************************************************************)
(* What the pi-wendao contract (src/compiler/contract-lint.ts) promises of  *)
(* a workflow that passes it: a service task prepares a question and its    *)
(* choices, a user or manual task asks it, another service task follows up, *)
(* and a gateway may loop back.  The contract reads the BPMN file; at run   *)
(* time a service task's agent answers with a text the outputs are picked   *)
(* from (executor/agent-host.ts), qianji streams the human task's form,     *)
(* which is merged and resolved against the variables                       *)
(* (executor/human-task.ts), prompted for (cli/native/input.ts,             *)
(* cli/qianji-interaction-prompt.ts), and the reply is mapped to one output.*)
(*                                                                         *)
(* Covered: every such workflow, every answer of the agents, every choice   *)
(* of the user.  Not covered: the rules of the contract about texts (legacy *)
(* elements, prompts, identifiers, implementations), about gateway          *)
(* conditions and about the inputs of a task a feedback loop returns to,    *)
(* and several free-text fields.                                            *)
(***************************************************************************)
EXTENDS Naturals

CONSTANT Rounds   \* bound: iterations of the loop
RoundsAssumption == Rounds \in Nat

Types == {"input", "confirm", "choice", "choice_input"}
ChoiceTypes == {"choice", "choice_input"}
Produced == {"question", "choices"}

\* What of a workflow decides its questions: the outputs the service task before
\* the prompt declares; whether a task that runs after it declares the choices;
\* the human task's interaction type, whether question and choices come from
\* variables, its literal choices (useless if their items have no value), its
\* free text and the variable its answer goes to; and the loop.
Workflows ==
  [outputs : SUBSET Produced, later : SUBSET {"choices"}, manual : BOOLEAN,
   type : Types \cup {"none", "odd"}, questionRef : BOOLEAN, choicesRef : BOOLEAN,
   literal : {"none", "useless", "usable"}, free : BOOLEAN,
   answer : {"none", "reply"} \cup Produced, loops : BOOLEAN]

----------------------------------------------------------------------------
(* The contract. *)

HasInteraction(w) ==
  w.type # "none" \/ w.choicesRef \/ w.literal # "none" \/ w.answer # "none"

\* Any task of the process that declares the choices counts as their producer,
\* wherever it is, the user task itself included.  Manual tasks are not asked.
Producers(w) == w.outputs \cup w.later \cup {w.answer}
ProducerMissing(w) == ~w.manual /\ w.choicesRef /\ "choices" \notin Producers(w)
TypeUnsupported(w) == w.type \notin Types
ChoicesMissing(w) == w.type \in ChoiceTypes /\ ~w.choicesRef /\ w.literal = "none"
AnswerMissing(w) == w.answer = "none"
InteractionIssues_TypeAndChoices(w) == TypeUnsupported(w) \/ ChoicesMissing(w)
InteractionIssues(w) == TypeUnsupported(w) \/ ChoicesMissing(w) \/ AnswerMissing(w)

LintPasses(w) ==
  /\ ~ProducerMissing(w)
  /\ HasInteraction(w) => ~InteractionIssues(w)

----------------------------------------------------------------------------
VARIABLES
  workflow,
  step,      \* where its execution is
  round,     \* the iteration
  values,    \* the variables question and choices: unset, an agent's value that is
             \* of use or not, or the user's reply
  shown      \* the choices the user picks from

vars == <<workflow, step, round, values, shown>>

NoWorkflow == [type |-> "none"]
Init ==
  /\ workflow = NoWorkflow /\ step = "new" /\ round = 1
  /\ values = [v \in Produced |-> "unset"] /\ shown = "none"

Goto(s) == step' = s /\ UNCHANGED workflow

Author ==
  /\ step = "new"
  /\ \E w \in Workflows : LintPasses(w) /\ workflow' = w
  /\ step' = "service" /\ UNCHANGED <<round, values, shown>>

\* The agent's text is searched for an object in a fenced block, in the whole and
\* in its parts: what is found holds any of the declared outputs, and those it
\* lacks keep their earlier values.
Produce(outputs) ==
  \E picked \in SUBSET outputs :
    values' \in {v \in [Produced -> {"unset", "useless", "usable", "reply"}] :
                   \A k \in Produced :
                     IF k \in picked THEN v[k] \in {"useless", "usable"} ELSE v[k] = values[k]}

Service ==
  /\ step = "service"
  /\ Produce(workflow.outputs)
  /\ Goto("form") /\ UNCHANGED <<round, shown>>

\* The task that follows the prompt.
FollowUp ==
  /\ step = "follow up"
  /\ Produce(workflow.later)
  /\ Goto("gateway") /\ UNCHANGED <<round, shown>>

\* mergeQianjiHostWorkFormConfig and resolveHumanTaskConfig.
\* The user's reply is a text, which is a question but no list of choices.
Unresolved(w) == \/ w.questionRef /\ values["question"] \notin {"usable", "reply"}
                 \/ w.choicesRef /\ values["choices"] # "usable"
Choices(w) ==
  IF w.choicesRef THEN "variable"
  ELSE IF w.literal = "usable" THEN "literal"
  ELSE IF w.type = "confirm" THEN "approve or reject" ELSE "none"
AllowsFreeText(w) == w.type \in {"input", "choice_input"} \/ w.free

\* No answer output, an unsupported type, or values that do not resolve end the
\* task, and so does a choice without anything to choose from.
ResultOutputMissing(w) == w.answer = "none"
FormFails(w) ==
  \/ ResultOutputMissing(w) \/ w.type \notin Types \/ Unresolved(w)
  \/ Choices(w) = "none" /\ ~AllowsFreeText(w)

Form ==
  /\ step = "form"
  /\ IF FormFails(workflow)
     THEN Goto("failed") /\ UNCHANGED shown
     ELSE Goto("prompt") /\ shown' = Choices(workflow)
  /\ UNCHANGED <<round, values>>

\* Without choices the user writes into a plain editor, whose text counts only
\* for two of the types (resolveQianjiInteractionReply).
TextCounts(w) == w.type \in {"input", "choice_input"}
Answerable(w) == shown # "none" \/ TextCounts(w)

Reply ==
  /\ step = "prompt" /\ Answerable(workflow)
  /\ values' = [k \in Produced |-> IF k = workflow.answer THEN "reply" ELSE values[k]]
  /\ Goto("follow up")
  /\ UNCHANGED <<round, shown>>

\* Escape, an empty answer, or a text that does not count.
Cancel ==
  /\ step = "prompt"
  /\ Goto(IF Answerable(workflow) THEN "cancelled" ELSE "failed")
  /\ UNCHANGED <<round, values, shown>>

Gateway ==
  /\ step = "gateway"
  /\ \/ workflow.loops /\ round < Rounds /\ round' = round + 1 /\ Goto("service")
     \/ Goto("done") /\ UNCHANGED round
  /\ UNCHANGED <<values, shown>>

Next == Author \/ Service \/ Form \/ Reply \/ Cancel \/ FollowUp \/ Gateway
Spec == Init /\ [][Next]_vars

----------------------------------------------------------------------------
(* Properties. *)

\* What the contract leaves to run time: a question variable is not checked for a
\* producer, literal choices not for their values, and a human task without any
\* interaction not at all.
LeftToRunTime(w) ==
  \/ w.questionRef /\ values["question"] \in {"unset", "useless"}
  \/ w.literal = "useless" /\ w.type \in ChoiceTypes
  \/ ~HasInteraction(w)

\* Nor does it ask where the producer of the choices is, and of a manual task not
\* whether there is one: none but a task that runs later may declare them, or the
\* answer itself goes to their variable.
ProducerMisplaced(w) ==
  /\ w.choicesRef
  /\ \/ values["choices"] = "unset" /\ "choices" \notin w.outputs
     \/ values["choices"] = "reply" /\ w.answer = "choices"

\* And what no lint can know: an agent did not produce what its task declares, or
\* it produced something else.
ProducerAtFault(w) ==
  /\ w.choicesRef
  /\ \/ values["choices"] = "unset" /\ "choices" \in w.outputs
     \/ values["choices"] = "useless" /\ "choices" \in w.outputs \cup w.later

\* A human task of a workflow that passed the contract fails, or asks a question
\* that cannot be answered, only for those reasons, however often it loops.
LintedTaskCanBeAnswered ==
  step = "failed" =>
    LeftToRunTime(workflow) \/ ProducerMisplaced(workflow) \/ ProducerAtFault(workflow)
=============================================================================
