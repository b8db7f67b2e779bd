------------------------------ MODULE AgentRun ------------------------------
(***************************************************************************)
(* The execution of one agent task: the attempts of Task.Execute, the      *)
(* set-up and the clean-up of execAgent (exec.go), the MCP servers that it *)
(* launches (mcp.go), the turns of agent.Run (pkg/agent/agent.go), and     *)
(* what the terminal event of an attempt does to the cost columns of the   *)
(* tasks and runs rows (state/store.go, applyTaskTerminal).                *)
(*                                                                         *)
(* The model's answer is one step, with any stop reason, any tool calls    *)
(* and any cost up to TurnCost.  A message of the conversation is its role *)
(* and the ids of the tool calls that it makes or answers.  Costs are      *)
(* numbers; a model without a price costs nothing as far as the code can   *)
(* see.                                                                    *)
(***************************************************************************)
EXTENDS Naturals, Sequences, FiniteSets

CONSTANTS
    Retries,   \* task.Retry.Count, 0 without a retry block
    Servers,   \* number of mcp blocks
    MaxTurns,  \* max_turns, or its default
    MaxCalls,  \* bound: tool calls in one answer
    Budget,    \* budget_usd, 0 for none
    TurnCost   \* bound: the cost of one answer

ASSUME AgentAssumption ==
    /\ Retries \in Nat
    /\ Servers \in Nat
    /\ MaxTurns \in Nat \ {0}
    /\ MaxCalls \in Nat
    /\ Budget \in Nat
    /\ TurnCost \in Nat

VARIABLES
    priced,    \* the model is in the pricing table
    canceled,  \* the run's context was canceled
    expired,   \* the wallclock of the attempt ran out
    attempt,   \* as try.Do counts them, from 1
    pc,        \* how far the attempt is
    failed,    \* the error that the attempt returns
    up,        \* MCP servers whose processes run
    turn,      \* turns of the attempt that were answered
    conv,      \* the conversation
    calls,     \* tool names of the answer, by call
    results,   \* calls that have a tool_result
    cum,       \* cost of the answers of the attempt
    taskCost,  \* tasks.cost_usd
    runCost,   \* runs.cost_usd
    spent,     \* history: what the answers of all attempts cost
    lost,      \* history: what answers that broke off cost
    atCancel   \* history: spent when the context was canceled

context == <<canceled, expired>>
loop == <<turn, conv, calls, results, cum>>
costs == <<taskCost, runCost>>
history == <<spent, lost, atCancel>>
vars == <<priced, context, attempt, pc, failed, up, loop, costs, history>>

Prompt == <<[role |-> "user", calls |-> {}]>>

Init ==
    /\ priced \in BOOLEAN
    /\ canceled = FALSE
    /\ expired = FALSE
    /\ attempt = 1
    /\ pc = "setup"
    /\ failed = FALSE
    /\ up = {}
    /\ turn = 0
    /\ conv = Prompt
    /\ calls = << >>
    /\ results = {}
    /\ cum = 0
    /\ taskCost = 0
    /\ runCost = 0
    /\ spent = 0
    /\ lost = 0
    /\ atCancel = 0

\* ctx.Err() is not nil.
Dead == canceled \/ expired

\* computeCost: nothing for a model that the pricing table does not have.
computeCost(c) == IF priced THEN c ELSE 0

(***************************************************************************)
(* The context: an operator's cancel, or the wallclock, which starts after *)
(* the skills and the secrets were looked up.                              *)
(***************************************************************************)

Cancel ==
    /\ pc # "done"
    /\ ~canceled
    /\ canceled' = TRUE
    /\ atCancel' = spent
    /\ UNCHANGED <<priced, expired, attempt, pc, failed, up, loop, costs,
                   spent, lost>>

Expire ==
    /\ pc \notin {"setup", "skills", "secrets", "retry", "done"}
    /\ ~expired
    /\ expired' = TRUE
    /\ UNCHANGED <<priced, canceled, attempt, pc, failed, up, loop, costs,
                   history>>

(***************************************************************************)
(* The set-up.  Its errors return before any request, and log no terminal  *)
(* event.                                                                  *)
(***************************************************************************)

\* A step of the set-up goes through, or its error ends the attempt.
Setup(from, to) ==
    /\ pc = from
    /\ \/ pc' = to /\ UNCHANGED failed
       \/ pc' = "retry" /\ failed' = TRUE
    /\ UNCHANGED <<priced, context, attempt, up, loop, costs, history>>

\* The skills are read and parsed; two of the same name are an error.
LoadSkillsForTask == Setup("setup", "skills")

NewSkillTool == Setup("skills", "secrets")

\* A reference to a secret that is not there, or is stale.  The tools that
\* buildAgentTools makes with the result cannot fail.
resolveEnv == Setup("secrets", "launch")

\* launchOne of the next server: it connects.
LaunchServer(s) ==
    /\ pc = "launch"
    /\ s = Cardinality(up) + 1
    /\ ~Dead
    /\ up' = up \union {s}
    /\ pc' = "list"
    /\ UNCHANGED <<priced, context, attempt, failed, loop, costs, history>>

\* It lists and wraps the tools of that server.
ListTools ==
    /\ pc = "list"
    /\ ~Dead
    /\ pc' = "launch"
    /\ UNCHANGED <<priced, context, attempt, failed, up, loop, costs, history>>

\* It cannot, perhaps as the context is dead: launchOne closes that server, and
\* LaunchMCPServers the ones before it.
ListFails ==
    /\ pc = "list"
    /\ up' = {}
    /\ pc' = "retry"
    /\ failed' = TRUE
    /\ UNCHANGED <<priced, context, attempt, loop, costs, history>>

\* Seeded fault: the servers launched before stay.
LaunchFailsAlone(s) ==
    /\ pc = "launch"
    /\ s = Cardinality(up) + 1
    /\ pc' = "retry"
    /\ failed' = TRUE
    /\ UNCHANGED <<priced, context, attempt, up, loop, costs, history>>

\* It cannot connect, perhaps as the context is dead: LaunchMCPServers closes
\* the servers it has launched.
LaunchFails(s) ==
    /\ pc = "launch"
    /\ s = Cardinality(up) + 1
    /\ up' = {}
    /\ pc' = "retry"
    /\ failed' = TRUE
    /\ UNCHANGED <<priced, context, attempt, loop, costs, history>>

\* All servers are up: agent.Run.
Launched ==
    /\ pc = "launch"
    /\ up = 1..Servers
    /\ pc' = "turn"
    /\ UNCHANGED <<priced, context, attempt, failed, up, loop, costs, history>>

(***************************************************************************)
(* The turns.                                                              *)
(***************************************************************************)

\* The head of the loop, with turns left and a live context: a request.
Request ==
    /\ pc = "turn"
    /\ turn < MaxTurns
    /\ ~Dead
    /\ pc' = "waiting"
    /\ UNCHANGED <<priced, context, attempt, failed, up, loop, costs, history>>

\* The head of the loop without either.
LeaveLoop ==
    /\ pc = "turn"
    /\ turn = MaxTurns \/ Dead
    /\ failed' = (turn < MaxTurns)
    /\ pc' = "report"
    /\ UNCHANGED <<priced, context, attempt, up, loop, costs, history>>

\* The stream ends with an error after part of an answer, which counts for
\* nothing in the accounting.
StreamFails(c) ==
    /\ pc = "waiting"
    /\ spent' = spent + c
    /\ lost' = lost + c
    /\ failed' = TRUE
    /\ pc' = "report"
    /\ UNCHANGED <<priced, context, attempt, up, loop, costs, atCancel>>

\* The id of call i of the answer to a turn.
Id(t, i) == <<t, i>>

Assistant(t, called) == [role |-> "assistant",
                         calls |-> {Id(t, i) : i \in DOMAIN called}]

\* Seeded fault: the answer of the turn is held against the budget alone.
OverBudgetInTurn(c) == Budget > 0 /\ computeCost(c) > Budget

\* The budget is checked against the attempt so far, this answer included.
OverBudget(c) == Budget > 0 /\ computeCost(cum + c) > Budget

\* An answer with stop reason stop that makes the tool calls called.
Answer(stop, called, c) ==
    /\ pc = "waiting"
    /\ called # << >> => stop = "tool_use"
    /\ spent' = spent + c
    /\ cum' = cum + c
    /\ turn' = turn + 1
    /\ conv' = Append(conv, Assistant(turn, called))
    /\ UNCHANGED <<priced, context, attempt, up, costs, lost, atCancel>>

AnswerOverBudget(stop, called, c) ==
    /\ Answer(stop, called, c)
    /\ OverBudget(c)
    /\ failed' = TRUE
    /\ pc' = "report"
    /\ UNCHANGED <<calls, results>>

\* Seeded fault: a paused turn is not counted.
PauseUncounted(c) ==
    /\ pc = "waiting"
    /\ ~OverBudget(c)
    /\ c = 0
    /\ pc' = "turn"
    /\ UNCHANGED <<priced, context, attempt, failed, up, loop, costs, history>>

\* pause_turn: the next request goes on from the answer.
Pause(c) ==
    /\ Answer("pause_turn", << >>, c)
    /\ ~OverBudget(c)
    /\ pc' = "turn"
    /\ UNCHANGED <<failed, calls, results>>

\* Any other stop reason, or tool_use without a call, ends the loop.
LastAnswer(stop, c) ==
    /\ stop # "pause_turn"
    /\ Answer(stop, << >>, c)
    /\ ~OverBudget(c)
    /\ pc' = "report"
    /\ UNCHANGED <<failed, calls, results>>

ToolUse(called, c) ==
    /\ called # << >>
    /\ Answer("tool_use", called, c)
    /\ ~OverBudget(c)
    /\ pc' = "dispatch"
    /\ calls' = called
    /\ results' = {}
    /\ UNCHANGED failed

\* Seeded fault: a call of an unknown tool is passed over.
ResultsIfKnown(i) == IF calls[i] = "known" THEN results \union {i} ELSE results

\* A registered tool runs, whatever the context; an unknown one is an error.
\* Both are a tool_result.
ResultsWith(i) == results \union {i}

\* The next tool_use block of the answer.
CallTool(i) ==
    /\ pc = "dispatch"
    /\ i \in DOMAIN calls
    /\ calls[i] # "over"
    /\ \A j \in 1..(i - 1) : calls[j] = "over"
    /\ results' = ResultsWith(i)
    /\ calls' = [calls EXCEPT ![i] = "over"]
    /\ UNCHANGED <<priced, context, attempt, pc, failed, up, turn, conv, cum,
                   costs, history>>

\* After the last of them the results go into one message.
SendResults ==
    /\ pc = "dispatch"
    /\ \A i \in DOMAIN calls : calls[i] = "over"
    /\ conv' = Append(conv, [role |-> "user",
                             calls |-> {Id(turn - 1, i) : i \in results}])
    /\ calls' = << >>
    /\ results' = {}
    /\ pc' = "turn"
    /\ UNCHANGED <<priced, context, attempt, failed, up, turn, cum, costs,
                   history>>

(***************************************************************************)
(* The end of an attempt.                                                  *)
(***************************************************************************)

\* Seeded fault: the run's cost is the one of the task's last attempt.
applyTaskTerminalLast(c) ==
    /\ taskCost' = c
    /\ runCost' = c

\* applyTaskTerminal: the task's cost is replaced, the run's is added to.
applyTaskTerminal(c) ==
    /\ taskCost' = c
    /\ runCost' = runCost + c

\* agent.Run returns, and execAgent logs the terminal event.
Report ==
    /\ pc = "report"
    /\ applyTaskTerminal(computeCost(cum))
    /\ pc' = "close"
    /\ UNCHANGED <<priced, context, attempt, failed, up, loop, history>>

\* The deferred Close of the MCP handles.
Close ==
    /\ pc = "close"
    /\ up' = {}
    /\ pc' = "retry"
    /\ UNCHANGED <<priced, context, attempt, failed, loop, costs, history>>

\* try.Do calls again after an error while attempt <= Retry.Count, a canceled
\* context or not; each attempt has a wallclock and a conversation of its own.
Retry ==
    /\ pc = "retry"
    /\ failed
    /\ attempt <= Retries
    /\ attempt' = attempt + 1
    /\ pc' = "setup"
    /\ failed' = FALSE
    /\ expired' = FALSE
    /\ turn' = 0
    /\ conv' = Prompt
    /\ calls' = << >>
    /\ results' = {}
    /\ cum' = 0
    /\ UNCHANGED <<priced, canceled, up, costs, history>>

Done ==
    /\ pc = "retry"
    /\ ~failed \/ attempt > Retries
    /\ pc' = "done"
    /\ UNCHANGED <<priced, context, attempt, failed, up, loop, costs, history>>

Costs == 0..TurnCost

Calls == UNION {[1..k -> {"known", "unknown"}] : k \in 0..MaxCalls}

Stops == {"end_turn", "max_tokens", "tool_use", "pause_turn"}

Step ==
    \/ LoadSkillsForTask \/ NewSkillTool \/ resolveEnv
    \/ \E s \in 1..Servers : LaunchServer(s) \/ LaunchFails(s)
    \/ ListTools \/ ListFails \/ Launched
    \/ Request \/ LeaveLoop
    \/ \E c \in Costs : StreamFails(c) \/ Pause(c)
    \/ \E c \in Costs, stop \in Stops : LastAnswer(stop, c)
    \/ \E c \in Costs, called \in Calls :
          \/ ToolUse(called, c)
          \/ \E stop \in Stops : AnswerOverBudget(stop, called, c)
    \/ SendResults \/ \E i \in 1..MaxCalls : CallTool(i)
    \/ Report \/ Close \/ Retry \/ Done

Next == Step \/ Cancel \/ Expire

\* The goroutine of the task goes on; a request is answered or breaks off, at
\* the latest when the wallclock kills it.
Spec == Init /\ [][Next]_vars /\ WF_vars(Step)

-----------------------------------------------------------------------------

Running == {"launch", "list", "turn", "waiting", "dispatch", "report"}

\* A conversation the API takes: it starts with the prompt, the calls of an
\* answer are all answered, and nothing else is, by the next message, and the
\* last message is the user's unless a paused turn goes on.
Acceptable(c) ==
    /\ Head(c) = Prompt[1]
    /\ \A i \in 1..Len(c) :
          /\ c[i].role = "assistant" /\ c[i].calls # {}
                => i < Len(c) /\ c[i + 1] = [role |-> "user",
                                             calls |-> c[i].calls]
          /\ c[i].role = "user" /\ i > 1
                => c[i - 1].role = "assistant" /\ c[i - 1].calls # {}

\* Every request, after any turns, tool calls, unknown tools and pauses, holds
\* a conversation that the API takes (the loop of agent.Run).
RequestsAreAcceptable == pc = "waiting" => Acceptable(conv)

\* An attempt goes over its budget by one answer at most, and there are as
\* many attempts as retries and one more.  After a cancel at most the answer
\* under way is paid for, whatever attempts follow (budget check and ctx.Err()
\* of agent.Run, the retries of Task.Execute).
SpendIsBounded ==
    /\ attempt <= Retries + 1
    /\ priced /\ Budget > 0 => spent <= attempt * (Budget + TurnCost)
    /\ canceled => spent - atCancel <= TurnCost

\* No MCP server survives its attempt, whichever way the attempt ends: a
\* set-up that failed half-way, an error, a cancel, a success.
NoServerLeaks == pc \in {"retry", "setup", "skills", "secrets", "done"} => up = {}

\* The run's cost is what the complete answers of all its attempts cost, each
\* counted once; an answer that broke off is in no row (applyTaskTerminal).
CostsAddUp ==
    priced => runCost + lost + (IF pc \in Running THEN cum ELSE 0) = spent

\* The task ends, however often the model pauses or calls tools.
AgentEnds == <>(pc = "done")

=============================================================================
