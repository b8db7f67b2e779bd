--------------------------- MODULE AgentRunProofs ---------------------------
(***************************************************************************)
(* Proofs about AgentRun, for any number of retries, servers, turns and    *)
(* tool calls, any budget and any cost of an answer: the money and the     *)
(* servers, the conversation, and what makes the task end.                 *)
(***************************************************************************)
EXTENDS AgentRun, FiniteSetTheorems, TLAPS

\* Where an attempt has paid for nothing yet, and where its loop goes on.
Fresh == {"setup", "skills", "secrets", "launch", "list"}
InLoop == {"turn", "waiting", "dispatch"}

Places == Fresh \union InLoop \union {"report", "close", "retry", "done"}

\* The types of what the money is counted in.
Types ==
    /\ priced \in BOOLEAN /\ canceled \in BOOLEAN /\ expired \in BOOLEAN
    /\ attempt \in 1..(Retries + 1)
    /\ pc \in Places
    /\ failed \in BOOLEAN
    /\ up \in SUBSET (1..Servers)
    /\ cum \in Nat /\ runCost \in Nat
    /\ spent \in Nat /\ lost \in Nat /\ atCancel \in Nat

\* What a attempts may cost.
Allowance(a) == a * (Budget + TurnCost)

\* The attempts before this one kept to their allowance, and this one has its
\* budget left while its loop goes on; the answer that ends it may go beyond.
WithinBudget ==
    priced /\ Budget > 0 =>
        /\ pc \in Fresh \union InLoop =>
             /\ cum <= Budget
             /\ spent <= Allowance(attempt - 1) + cum
        /\ spent <= Allowance(attempt)

\* Of the answers that came after a cancel only the one that was under way was
\* paid for: no request is made with a dead context.
CanceledSpend ==
    canceled => /\ atCancel <= spent
                /\ spent <= atCancel + TurnCost
                /\ pc = "waiting" => spent = atCancel

\* The inductive invariant of the money and the servers.
MoneyInv ==
    /\ Types
    /\ NoServerLeaks
    /\ pc \in Fresh => cum = 0
    /\ CostsAddUp
    /\ WithinBudget
    /\ CanceledSpend

-----------------------------------------------------------------------------

\* One more attempt has one more budget, and one more answer.
LEMMA AllowanceGrows ==
    ASSUME NEW a \in Nat \ {0}
    PROVE  /\ Allowance(a - 1) \in Nat
           /\ Allowance(a) = Allowance(a - 1) + Budget + TurnCost
<1>1. Budget \in Nat /\ TurnCost \in Nat
  BY AgentAssumption
<1>2. PICK k \in Nat : k = Budget + TurnCost
  BY <1>1
<1>3. (a - 1) * k \in Nat /\ a * k = (a - 1) * k + k
  BY <1>2
<1> QED
  BY <1>1, <1>2, <1>3 DEF Allowance

\* A step that leaves the money alone, and moves within the loop or the set-up,
\* or out of them.
LEMMA MoneyIdle ==
    ASSUME MoneyInv,
           UNCHANGED <<priced, canceled, attempt, cum, costs, history>>,
           expired' \in BOOLEAN, failed' \in BOOLEAN, up' \in SUBSET (1..Servers),
           pc' \in Places, NoServerLeaks',
           pc' \in Fresh => pc \in Fresh,
           pc' \in InLoop => pc \in Fresh \union InLoop,
           cum = 0 \/ (pc' \in Running <=> pc \in Running),
           pc' = "waiting" => pc = "waiting" \/ ~canceled
    PROVE  MoneyInv'
<1>1. /\ priced' = priced /\ canceled' = canceled /\ attempt' = attempt
      /\ cum' = cum /\ runCost' = runCost /\ spent' = spent /\ lost' = lost
      /\ atCancel' = atCancel
  BY DEF costs, history
<1>2. Types'
  BY <1>1 DEF MoneyInv, Types
<1>3. pc' \in Fresh => cum' = 0
  BY <1>1 DEF MoneyInv
<1>4. CostsAddUp'
  BY <1>1 DEF MoneyInv, CostsAddUp, Types
<1>5. WithinBudget'
  BY <1>1 DEF MoneyInv, WithinBudget
<1>6. CanceledSpend'
  BY <1>1 DEF MoneyInv, CanceledSpend
<1> QED
  BY <1>2, <1>3, <1>4, <1>5, <1>6 DEF MoneyInv


\* An answer, complete or not, that costs c: it is paid for once, by an attempt
\* that had budget left, and by a context that was alive at the request.
LEMMA MoneyAnswer ==
    ASSUME MoneyInv, NEW c \in Costs, pc = "waiting",
           UNCHANGED <<priced, context, attempt, up, costs, atCancel>>,
           spent' = spent + c, failed' \in BOOLEAN,
           \/ cum' = cum + c /\ lost' = lost
           \/ cum' = cum /\ lost' = lost + c,
           pc' \in {"turn", "dispatch", "report"},
           pc' \in InLoop /\ priced /\ Budget > 0 => cum' = cum + c /\ cum' <= Budget
    PROVE  MoneyInv'
<1> USE AgentAssumption
<1>1. /\ priced' = priced /\ canceled' = canceled /\ expired' = expired
      /\ attempt' = attempt /\ up' = up /\ runCost' = runCost
      /\ atCancel' = atCancel
  BY DEF costs, context
<1>2. c \in Nat /\ c <= TurnCost
  BY DEF Costs
<1>3. Types'
  BY <1>1, <1>2 DEF MoneyInv, Types, Places, Fresh, InLoop
<1>4. NoServerLeaks' /\ (pc' \in Fresh => cum' = 0)
  BY DEF NoServerLeaks, Fresh
<1>5. CostsAddUp'
  <2>1. pc \in Running /\ pc' \in Running
    BY DEF Running
  <2>2. /\ runCost \in Nat /\ lost \in Nat /\ cum \in Nat /\ spent \in Nat
        /\ priced => runCost + lost + cum = spent
    BY <2>1 DEF MoneyInv, Types, CostsAddUp
  <2>3. priced => runCost' + lost' + cum' = spent'
    BY <1>1, <1>2, <2>2
  <2> QED
    BY <1>1, <2>1, <2>3 DEF CostsAddUp
<1>6. WithinBudget'
  <2> SUFFICES ASSUME priced, Budget > 0
               PROVE  /\ pc' \in Fresh \union InLoop =>
                           /\ cum' <= Budget
                           /\ spent' <= Allowance(attempt - 1) + cum'
                      /\ spent' <= Allowance(attempt)
    BY <1>1 DEF WithinBudget
  <2>1. pc \in Fresh \union InLoop /\ pc' \notin Fresh
    BY DEF Fresh, InLoop
  <2>2. attempt \in Nat \ {0}
    BY DEF MoneyInv, Types
  <2>3. /\ Allowance(attempt - 1) \in Nat
        /\ Allowance(attempt) = Allowance(attempt - 1) + Budget + TurnCost
    BY <2>2, AllowanceGrows
  <2>4. cum <= Budget /\ spent <= Allowance(attempt - 1) + cum
    BY <2>1 DEF MoneyInv, WithinBudget
  <2> QED
    BY <1>2, <2>1, <2>3, <2>4 DEF MoneyInv, Types
<1>7. CanceledSpend'
  BY <1>1, <1>2 DEF MoneyInv, Types, CanceledSpend
<1> QED
  BY <1>3, <1>4, <1>5, <1>6, <1>7 DEF MoneyInv

\* Every step keeps the invariant.
LEMMA MoneyStep == MoneyInv /\ [Next]_vars => MoneyInv'
<1> SUFFICES ASSUME MoneyInv, [Next]_vars PROVE MoneyInv'
  OBVIOUS
<1>t. Types
  BY DEF MoneyInv
<1> USE DEF Fresh, InLoop, Places, Running, NoServerLeaks
<1>1. ASSUME NEW from, NEW to, Setup(from, to),
             <<from, to>> \in {<<"setup", "skills">>, <<"skills", "secrets">>,
                               <<"secrets", "launch">>}
      PROVE  MoneyInv'
  <2>1. /\ pc = from /\ pc' \in {to, "retry"} /\ failed' \in BOOLEAN
        /\ UNCHANGED <<priced, context, attempt, up, loop, costs, history>>
    BY <1>t, <1>1 DEF Setup, Types
  <2>2. up = {} /\ cum = 0
    BY <1>1, <2>1 DEF MoneyInv
  <2> QED
    BY <1>t, <1>1, <2>1, <2>2, MoneyIdle DEF Types, context, loop
<1>2. CASE LoadSkillsForTask \/ NewSkillTool \/ resolveEnv
  BY <1>1, <1>2 DEF LoadSkillsForTask, NewSkillTool, resolveEnv
<1>3. ASSUME NEW s \in 1..Servers, LaunchServer(s) PROVE MoneyInv'
  BY <1>t, <1>3, MoneyIdle DEF LaunchServer, Types, context, loop
<1>4. ASSUME NEW s \in 1..Servers, LaunchFails(s) PROVE MoneyInv'
  <2>1. cum = 0
    BY <1>4 DEF LaunchFails, MoneyInv
  <2> QED
    BY <1>t, <1>4, <2>1, MoneyIdle DEF LaunchFails, Types, context, loop
<1>5. CASE ListTools \/ Launched
  BY <1>t, <1>5, MoneyIdle DEF ListTools, Launched, Types, context, loop
<1>23. CASE ListFails
  <2>1. cum = 0
    BY <1>23 DEF ListFails, MoneyInv
  <2> QED
    BY <1>t, <1>23, <2>1, MoneyIdle DEF ListFails, Types, context, loop
<1>6. CASE Request
  BY <1>t, <1>6, MoneyIdle DEF Request, Dead, Types, context, loop
<1>7. CASE LeaveLoop
  BY <1>t, <1>7, MoneyIdle DEF LeaveLoop, Types, context, loop
<1>8. ASSUME NEW c \in Costs, StreamFails(c) PROVE MoneyInv'
  BY <1>8, MoneyAnswer DEF StreamFails, loop
<1>9. ASSUME NEW stop, NEW called, NEW c \in Costs, Answer(stop, called, c),
             failed' \in BOOLEAN, pc' \in {"turn", "dispatch", "report"},
             pc' # "report" => ~OverBudget(c)
      PROVE  MoneyInv'
  <2>1. /\ pc = "waiting" /\ spent' = spent + c /\ cum' = cum + c /\ lost' = lost
        /\ UNCHANGED <<priced, context, attempt, up, costs, atCancel>>
    BY <1>9 DEF Answer
  <2>2. ASSUME pc' \in InLoop, priced, Budget > 0 PROVE cum' <= Budget
    <3>1. ~OverBudget(c)
      BY <1>9, <2>2
    <3> QED
      BY <1>t, <2>1, <2>2, <3>1, AgentAssumption
         DEF OverBudget, computeCost, Types, Costs
  <2> QED
    BY <1>9, <2>1, <2>2, MoneyAnswer
<1>10. ASSUME NEW c \in Costs, Pause(c) PROVE MoneyInv'
  BY <1>t, <1>9, <1>10 DEF Pause, Types
<1>11. ASSUME NEW c \in Costs, NEW stop \in Stops, LastAnswer(stop, c) PROVE MoneyInv'
  BY <1>t, <1>9, <1>11 DEF LastAnswer, Types
<1>12. ASSUME NEW c \in Costs, NEW called \in Calls, ToolUse(called, c) PROVE MoneyInv'
  BY <1>t, <1>9, <1>12 DEF ToolUse, Types
<1>13. ASSUME NEW c \in Costs, NEW called \in Calls, NEW stop \in Stops,
              AnswerOverBudget(stop, called, c)
       PROVE  MoneyInv'
  BY <1>9, <1>13 DEF AnswerOverBudget
<1>14. ASSUME NEW i \in 1..MaxCalls, CallTool(i) PROVE MoneyInv'
  <2>1. NoServerLeaks'
    BY <1>14 DEF CallTool
  <2> QED
    BY <1>t, <1>14, <2>1, MoneyIdle DEF CallTool, Types, context
<1>15. CASE SendResults
  BY <1>t, <1>15, MoneyIdle DEF SendResults, Types, context
<1>16. CASE Report
  <2>1. /\ pc = "report" /\ pc' = "close" /\ runCost' = runCost + computeCost(cum)
        /\ UNCHANGED <<priced, canceled, expired, attempt, failed, up, cum,
                       spent, lost, atCancel>>
    BY <1>16 DEF Report, applyTaskTerminal, context, loop, history
  <2>2. computeCost(cum) \in Nat /\ (priced => computeCost(cum) = cum)
    BY <1>t DEF computeCost, Types
  <2>3. Types'
    BY <1>t, <2>1, <2>2 DEF Types
  <2>4. CostsAddUp'
    BY <1>t, <2>1, <2>2 DEF MoneyInv, CostsAddUp, Types
  <2>5. WithinBudget'
    BY <2>1 DEF MoneyInv, WithinBudget
  <2>6. CanceledSpend'
    BY <2>1 DEF MoneyInv, CanceledSpend
  <2> QED
    BY <2>1, <2>3, <2>4, <2>5, <2>6 DEF MoneyInv
<1>17. CASE Close
  BY <1>t, <1>17, MoneyIdle DEF Close, Types, context, loop
<1>18. CASE Retry
  <2>1. /\ pc = "retry" /\ pc' = "setup" /\ attempt <= Retries
        /\ attempt' = attempt + 1 /\ failed' = FALSE /\ expired' = FALSE /\ cum' = 0
        /\ UNCHANGED <<priced, canceled, up, runCost, spent, lost, atCancel>>
    BY <1>18 DEF Retry, costs, history
  <2>2. Types'
    <3>1. attempt' \in 1..(Retries + 1)
      BY <1>t, <2>1, AgentAssumption DEF Types
    <3> QED
      BY <1>t, <2>1, <3>1 DEF Types
  <2>3. NoServerLeaks' /\ CostsAddUp' /\ CanceledSpend'
    BY <1>t, <2>1 DEF MoneyInv, CostsAddUp, CanceledSpend, Types
  <2>4. WithinBudget'
    <3>1. attempt \in Nat \ {0} /\ attempt' \in Nat \ {0} /\ attempt' - 1 = attempt
      BY <1>t, <2>1 DEF Types
    <3>2. /\ Allowance(attempt') = Allowance(attempt) + Budget + TurnCost
          /\ Allowance(attempt) \in Nat
      BY <3>1, AllowanceGrows
    <3> QED
      BY <1>t, <2>1, <3>1, <3>2, AgentAssumption DEF MoneyInv, WithinBudget, Types
  <2> QED
    BY <2>1, <2>2, <2>3, <2>4 DEF MoneyInv
<1>19. CASE Done
  BY <1>t, <1>19, MoneyIdle DEF Done, MoneyInv, Types, context, loop
<1>20. CASE Cancel
  <2>1. /\ canceled' = TRUE /\ atCancel' = spent
        /\ UNCHANGED <<priced, expired, attempt, pc, failed, up, cum, runCost,
                       spent, lost>>
    BY <1>20 DEF Cancel, loop, costs
  <2> QED
    BY <1>t, <2>1, AgentAssumption
       DEF MoneyInv, Types, CostsAddUp, WithinBudget, CanceledSpend
<1>21. CASE Expire
  BY <1>t, <1>21, MoneyIdle DEF Expire, MoneyInv, Types, loop
<1>22. CASE UNCHANGED vars
  BY <1>t, <1>22, MoneyIdle DEF vars, MoneyInv, Types, context, loop
<1> QED
  BY <1>2, <1>3, <1>4, <1>5, <1>6, <1>7, <1>8, <1>10, <1>11, <1>12, <1>13,
     <1>14, <1>15, <1>16, <1>17, <1>18, <1>19, <1>20, <1>21, <1>22, <1>23
  DEF Next, Step

\* The state before the first attempt.
LEMMA MoneyInit == Init => MoneyInv
<1> SUFFICES ASSUME Init PROVE MoneyInv
  OBVIOUS
<1> USE AgentAssumption DEF Init
<1>1. Types
  <2>1. 1 \in 1..(Retries + 1) /\ {} \in SUBSET (1..Servers) /\ "setup" \in Places
    BY DEF Places, Fresh
  <2> QED
    BY <2>1 DEF Types
<1>2. NoServerLeaks /\ CostsAddUp /\ CanceledSpend
  BY DEF NoServerLeaks, CostsAddUp, CanceledSpend, Running
<1>3. WithinBudget
  <2>1. /\ Allowance(1 - 1) \in Nat
        /\ Allowance(1) = Allowance(1 - 1) + Budget + TurnCost
    BY AllowanceGrows
  <2> QED
    BY <2>1 DEF WithinBudget
<1> QED
  BY <1>1, <1>2, <1>3 DEF MoneyInv

\* The invariant of the money and the servers.
THEOREM MoneyInvariance == Spec => []MoneyInv
<1> QED
  BY MoneyInit, MoneyStep, PTL DEF Spec

\* An attempt overspends by one answer at most, and a cancel stops the spending
\* with the answer under way (agent.Run, Task.Execute).
THEOREM SpendingIsBounded == Spec => []SpendIsBounded
<1>1. MoneyInv => SpendIsBounded
  <2> SUFFICES ASSUME MoneyInv PROVE SpendIsBounded
    OBVIOUS
  <2>1. attempt <= Retries + 1
    BY AgentAssumption DEF MoneyInv, Types
  <2>2. priced /\ Budget > 0 => spent <= attempt * (Budget + TurnCost)
    BY DEF MoneyInv, WithinBudget, Allowance
  <2>3. canceled => spent - atCancel <= TurnCost
    BY AgentAssumption DEF MoneyInv, CanceledSpend, Types
  <2> QED
    BY <2>1, <2>2, <2>3 DEF SpendIsBounded
<1> QED
  BY <1>1, MoneyInvariance, PTL

\* No MCP server survives its attempt (LaunchMCPServers, execAgent).
THEOREM ServersAreClosed == Spec => []NoServerLeaks
<1>1. MoneyInv => NoServerLeaks
  BY DEF MoneyInv
<1> QED
  BY <1>1, MoneyInvariance, PTL

\* The run's cost column is the sum of what its attempts report
\* (applyTaskTerminal).
THEOREM CostsAreExact == Spec => []CostsAddUp
<1>1. MoneyInv => CostsAddUp
  BY DEF MoneyInv
<1> QED
  BY <1>1, MoneyInvariance, PTL

-----------------------------------------------------------------------------
(***************************************************************************)
(* The conversation.                                                       *)
(***************************************************************************)

Messages == [role : {"user", "assistant"}, calls : SUBSET (Nat \X Nat)]

Marks == {"known", "unknown", "over"}

\* A message whose calls wait for their results.
Open(m) == m.role = "assistant" /\ m.calls # {}

\* Each message of c that has a successor is answered by it, and only such.
Answered(c) ==
    \A i \in 2..Len(c) :
        /\ Open(c[i - 1]) => c[i] = [role |-> "user", calls |-> c[i - 1].calls]
        /\ c[i].role = "user" => Open(c[i - 1])

\* The inductive invariant of the conversation: only during the dispatch, and
\* when the loop is over, are there calls without results; the results so far
\* are those of the calls that ran.
TalkInv ==
    /\ turn \in Nat
    /\ conv \in Seq(Messages)
    /\ Len(conv) > 0
    /\ conv[1] = Prompt[1]
    /\ Answered(conv)
    /\ pc \in Fresh => conv = Prompt
    /\ pc \in {"turn", "waiting"} => ~Open(conv[Len(conv)])
    /\ pc = "dispatch" =>
         /\ \E k \in Nat \ {0} : calls \in [1..k -> Marks]
         /\ turn > 0
         /\ conv[Len(conv)] = Assistant(turn - 1, calls)
         /\ results = {i \in DOMAIN calls : calls[i] = "over"}

\* A message that fits the last one keeps the conversation in order.
LEMMA AppendFits ==
    ASSUME NEW c \in Seq(Messages), Len(c) > 0, Answered(c), NEW m \in Messages,
           Open(c[Len(c)]) => m = [role |-> "user", calls |-> c[Len(c)].calls],
           m.role = "user" => Open(c[Len(c)])
    PROVE  /\ Append(c, m) \in Seq(Messages)
           /\ Len(Append(c, m)) = Len(c) + 1
           /\ Append(c, m)[1] = c[1]
           /\ Append(c, m)[Len(c) + 1] = m
           /\ Answered(Append(c, m))
<1> DEFINE d == Append(c, m)
<1>1. /\ d \in Seq(Messages) /\ Len(d) = Len(c) + 1 /\ d[Len(c) + 1] = m
      /\ \A i \in 1..Len(c) : d[i] = c[i]
      /\ Len(c) \in Nat
  OBVIOUS
<1>2. ASSUME NEW i \in 2..Len(d)
      PROVE  /\ Open(d[i - 1]) => d[i] = [role |-> "user", calls |-> d[i - 1].calls]
             /\ d[i].role = "user" => Open(d[i - 1])
  <2>1. CASE i = Len(c) + 1
    <3>1. d[i] = m /\ d[i - 1] = c[Len(c)]
      BY <1>1, <2>1
    <3> QED
      BY <3>1
  <2>2. CASE i # Len(c) + 1
    <3>1. i \in 2..Len(c) /\ d[i] = c[i] /\ d[i - 1] = c[i - 1]
      BY <1>1, <2>2
    <3> QED
      BY <3>1 DEF Answered
  <2> QED
    BY <2>1, <2>2
<1>3. Answered(d)
  BY <1>2 DEF Answered
<1> QED
  BY <1>1, <1>3

\* The assistant's message is one, and it is open if it makes calls.
LEMMA AssistantIsMessage ==
    ASSUME NEW t \in Nat, NEW k \in Nat, NEW called \in [1..k -> Marks]
    PROVE  /\ Assistant(t, called) \in Messages
           /\ Assistant(t, called).role = "assistant"
           /\ k > 0 => Open(Assistant(t, called))
           /\ k = 0 => ~Open(Assistant(t, called))
<1> DEFINE ids == {Id(t, i) : i \in DOMAIN called}
<1>1. DOMAIN called = 1..k
  OBVIOUS
<1>2. ids \subseteq Nat \X Nat
  BY <1>1 DEF Id
<1>3. Assistant(t, called) = [role |-> "assistant", calls |-> ids]
  BY DEF Assistant
<1>4. k > 0 => Id(t, 1) \in ids
  BY <1>1
<1>5. k = 0 => ids = {}
  BY <1>1
<1> QED
  BY <1>2, <1>3, <1>4, <1>5 DEF Messages, Open

\* The steps of the loop that do not touch the conversation.
LEMMA TalkIdle ==
    ASSUME TalkInv, UNCHANGED <<turn, conv>>,
           pc' \in Fresh => pc \in Fresh,
           pc' \in {"turn", "waiting"} => pc \in Fresh \union {"turn", "waiting"},
           pc' = "dispatch" => pc = "dispatch" /\ UNCHANGED <<calls, results>>
    PROVE  TalkInv'
<1>1. pc \in Fresh => ~Open(conv[Len(conv)])
  <2>1. pc \in Fresh => Len(conv) = 1 /\ conv[1].role = "user"
    BY DEF TalkInv, Prompt
  <2> QED
    BY <2>1 DEF Open
<1>2. conv' = conv /\ turn' = turn
  OBVIOUS
<1>3. pc' \in {"turn", "waiting"} => ~Open(conv[Len(conv)])
  BY <1>1 DEF TalkInv
<1>4. ASSUME pc' = "dispatch"
      PROVE  pc = "dispatch" /\ calls' = calls /\ results' = results
  BY <1>4
<1> QED
  BY <1>2, <1>3, <1>4 DEF TalkInv

\* An answer in the loop goes to the end of the conversation.
LEMMA TalkAnswer ==
    ASSUME TalkInv, NEW stop, NEW k \in Nat, NEW called \in [1..k -> Marks], NEW c,
           Answer(stop, called, c), pc' \notin Fresh, pc' # "waiting",
           pc' = "turn" => k = 0,
           pc' = "dispatch" => /\ k > 0 /\ calls' = called /\ results' = {}
                               /\ \A i \in 1..k : called[i] # "over"
    PROVE  TalkInv'
<1> DEFINE m == Assistant(turn, called)
<1>1. /\ pc = "waiting" /\ turn' = turn + 1 /\ conv' = Append(conv, m)
      /\ turn \in Nat /\ conv \in Seq(Messages) /\ Len(conv) > 0 /\ Answered(conv)
      /\ conv[1] = Prompt[1]
      /\ ~Open(conv[Len(conv)])
  BY DEF Answer, TalkInv
<1>2. /\ m \in Messages /\ m.role = "assistant"
      /\ k > 0 => Open(m)
      /\ k = 0 => ~Open(m)
  BY <1>1, AssistantIsMessage
<1> HIDE DEF m
<1>3. /\ conv' \in Seq(Messages) /\ Len(conv') = Len(conv) + 1
      /\ conv'[1] = Prompt[1] /\ conv'[Len(conv')] = m /\ Answered(conv')
  BY <1>1, <1>2, AppendFits
<1>4. /\ turn' \in Nat /\ turn' > 0 /\ turn' - 1 = turn /\ Len(conv') > 0
  BY <1>1, <1>3
<1>5. ASSUME pc' = "dispatch"
      PROVE  /\ \E n \in Nat \ {0} : calls' \in [1..n -> Marks]
             /\ conv'[Len(conv')] = Assistant(turn' - 1, calls')
             /\ results' = {i \in DOMAIN calls' : calls'[i] = "over"}
  <2>1. k \in Nat \ {0} /\ calls' \in [1..k -> Marks] /\ DOMAIN calls' = 1..k
    BY <1>5
  <2>2. m = Assistant(turn' - 1, calls')
    BY <1>4, <1>5 DEF m
  <2>3. results' = {i \in DOMAIN calls' : calls'[i] = "over"}
    BY <1>5, <2>1
  <2> QED
    BY <1>3, <2>1, <2>2, <2>3
<1>6. pc' \in {"turn", "waiting"} => ~Open(conv'[Len(conv')])
  BY <1>2, <1>3
<1> QED
  BY <1>3, <1>4, <1>5, <1>6 DEF TalkInv

\* The tool calls one by one, and their results in one message.
LEMMA TalkDispatch ==
    ASSUME TalkInv, SendResults \/ \E i \in 1..MaxCalls : CallTool(i)
    PROVE  TalkInv'
<1>1. pc = "dispatch"
  BY DEF SendResults, CallTool
<1>2. PICK k \in Nat \ {0} : calls \in [1..k -> Marks]
  BY <1>1 DEF TalkInv
<1>3. /\ turn \in Nat /\ turn > 0 /\ conv \in Seq(Messages) /\ Len(conv) > 0
      /\ Answered(conv) /\ conv[1] = Prompt[1]
      /\ conv[Len(conv)] = Assistant(turn - 1, calls)
      /\ results = {i \in DOMAIN calls : calls[i] = "over"}
  BY <1>1 DEF TalkInv
<1>4. ASSUME NEW i \in 1..MaxCalls, CallTool(i) PROVE TalkInv'
  <2>1. /\ i \in 1..k /\ results' = results \union {i}
        /\ calls' = [calls EXCEPT ![i] = "over"]
        /\ turn' = turn /\ conv' = conv /\ pc' = "dispatch"
    BY <1>1, <1>2, <1>4 DEF CallTool, ResultsWith
  <2>2. calls' \in [1..k -> Marks] /\ DOMAIN calls' = DOMAIN calls
    BY <1>2, <2>1 DEF Marks
  <2>3. results' = {j \in DOMAIN calls' : calls'[j] = "over"}
    BY <1>2, <1>3, <2>1, <2>2
  <2>4. Assistant(turn - 1, calls') = Assistant(turn - 1, calls)
    BY <2>2 DEF Assistant
  <2> QED
    BY <1>2, <1>3, <2>1, <2>2, <2>3, <2>4 DEF TalkInv, Fresh
<1>5. CASE SendResults
  <2> DEFINE last == conv[Len(conv)]
             m == [role |-> "user", calls |-> {Id(turn - 1, i) : i \in results}]
  <2>1. /\ conv' = Append(conv, m) /\ turn' = turn /\ pc' = "turn"
        /\ \A i \in DOMAIN calls : calls[i] = "over"
    BY <1>5 DEF SendResults
  <2>2. results = DOMAIN calls
    BY <1>3, <2>1
  <2>3. /\ last \in Messages /\ last.role = "assistant" /\ Open(last)
    BY <1>2, <1>3, AssistantIsMessage
  <2>4. m.calls = last.calls /\ m.role = "user"
    BY <1>3, <2>2 DEF Assistant
  <2>5. m \in Messages
    BY <2>3, <2>4 DEF Messages
  <2>6. m = [role |-> "user", calls |-> last.calls]
    BY <2>4
  <2> HIDE DEF m
  <2>7. /\ conv' \in Seq(Messages) /\ Len(conv') = Len(conv) + 1
        /\ conv'[1] = Prompt[1] /\ conv'[Len(conv')] = m /\ Answered(conv')
    BY <1>3, <2>1, <2>3, <2>5, <2>6, AppendFits
  <2>8. ~Open(m) /\ Len(conv') > 0
    BY <1>3, <2>4, <2>7 DEF Open
  <2> QED
    BY <1>3, <2>1, <2>7, <2>8 DEF TalkInv, Fresh
<1> QED
  BY <1>4, <1>5

\* The calls of an answer, as sequences.
LEMMA CallsAreSequences ==
    ASSUME NEW called \in Calls
    PROVE  \E k \in Nat : /\ called \in [1..k -> {"known", "unknown"}]
                          /\ k = 0 <=> called = << >>
<1>1. PICK k \in 0..MaxCalls : called \in [1..k -> {"known", "unknown"}]
  BY DEF Calls
<1>2. k \in Nat
  BY <1>1, AgentAssumption
<1>3. called \in Seq({"known", "unknown"}) /\ Len(called) = k
  BY <1>1, <1>2
<1>4. k = 0 <=> called = << >>
  BY <1>2, <1>3
<1> QED
  BY <1>1, <1>2, <1>4

\* Every step keeps the invariant of the conversation.
LEMMA TalkStep == TalkInv /\ [Next]_vars => TalkInv'
<1> SUFFICES ASSUME TalkInv, [Next]_vars PROVE TalkInv'
  OBVIOUS
<1> USE DEF Fresh
<1>1. CASE LoadSkillsForTask \/ NewSkillTool \/ resolveEnv
  BY <1>1, TalkIdle DEF LoadSkillsForTask, NewSkillTool, resolveEnv, Setup, loop
<1>2. ASSUME NEW s \in 1..Servers, LaunchServer(s) \/ LaunchFails(s) PROVE TalkInv'
  BY <1>2, TalkIdle DEF LaunchServer, LaunchFails, loop
<1>3. CASE ListTools \/ ListFails \/ Launched \/ Request \/ LeaveLoop
  BY <1>3, TalkIdle DEF ListTools, ListFails, Launched, Request, LeaveLoop, loop
<1>4. ASSUME NEW c \in Costs, StreamFails(c) PROVE TalkInv'
  BY <1>4, TalkIdle DEF StreamFails, loop
<1>5. ASSUME NEW c, NEW stop, Answer(stop, << >>, c), pc' \in {"turn", "report"}
      PROVE  TalkInv'
  <2>1. << >> \in [1..0 -> Marks]
    OBVIOUS
  <2> QED
    BY <1>5, <2>1, TalkAnswer
<1>6. ASSUME NEW c \in Costs, Pause(c) PROVE TalkInv'
  BY <1>5, <1>6 DEF Pause
<1>7. ASSUME NEW c \in Costs, NEW stop \in Stops, LastAnswer(stop, c) PROVE TalkInv'
  BY <1>5, <1>7 DEF LastAnswer
<1>8. ASSUME NEW c \in Costs, NEW called \in Calls, ToolUse(called, c) PROVE TalkInv'
  <2>1. PICK k \in Nat : /\ called \in [1..k -> {"known", "unknown"}]
                         /\ k = 0 <=> called = << >>
    BY CallsAreSequences
  <2>2. k > 0 /\ called \in [1..k -> Marks] /\ \A i \in 1..k : called[i] # "over"
    BY <1>8, <2>1 DEF ToolUse, Marks
  <2>3. /\ Answer("tool_use", called, c) /\ pc' = "dispatch"
        /\ calls' = called /\ results' = {}
    BY <1>8 DEF ToolUse
  <2> QED
    BY <2>1, <2>2, <2>3, TalkAnswer
<1>9. ASSUME NEW c \in Costs, NEW called \in Calls, NEW stop \in Stops,
             AnswerOverBudget(stop, called, c)
      PROVE  TalkInv'
  <2>1. PICK k \in Nat : called \in [1..k -> {"known", "unknown"}]
    BY CallsAreSequences
  <2>2. called \in [1..k -> Marks]
    BY <2>1 DEF Marks
  <2> QED
    BY <1>9, <2>1, <2>2, TalkAnswer DEF AnswerOverBudget
<1>10. CASE SendResults \/ \E i \in 1..MaxCalls : CallTool(i)
  BY <1>10, TalkDispatch
<1>11. CASE Report \/ Close \/ Done
  BY <1>11, TalkIdle DEF Report, Close, Done, loop
<1>12. CASE Retry
  <2>1. turn' = 0 /\ conv' = Prompt /\ pc' = "setup"
    BY <1>12 DEF Retry
  <2>2. Prompt \in Seq(Messages) /\ Len(Prompt) = 1 /\ Answered(Prompt)
    BY DEF Prompt, Messages, Answered
  <2> QED
    BY <2>1, <2>2 DEF TalkInv
<1>13. CASE Cancel \/ Expire \/ UNCHANGED vars
  BY <1>13, TalkIdle DEF Cancel, Expire, vars, loop
<1> QED
  BY <1>1, <1>2, <1>3, <1>4, <1>6, <1>7, <1>8, <1>9, <1>10, <1>11, <1>12, <1>13
  DEF Next, Step

\* The state before the first attempt.
LEMMA TalkInit == Init => TalkInv
<1> SUFFICES ASSUME Init PROVE TalkInv
  OBVIOUS
<1>1. turn = 0 /\ conv = Prompt /\ pc = "setup"
  BY DEF Init
<1>2. Prompt \in Seq(Messages) /\ Len(Prompt) = 1 /\ Answered(Prompt)
  BY DEF Prompt, Messages, Answered
<1> QED
  BY <1>1, <1>2 DEF TalkInv

\* Every request holds a conversation that the API takes: whatever the model
\* called, its calls are answered, all of them and in the next message
\* (agent.Run).
THEOREM RequestsAreWellFormed == Spec => []RequestsAreAcceptable
<1>1. TalkInv => RequestsAreAcceptable
  <2> SUFFICES ASSUME TalkInv, pc = "waiting" PROVE Acceptable(conv)
    BY DEF RequestsAreAcceptable
  <2>1. /\ conv \in Seq(Messages) /\ Len(conv) > 0 /\ Head(conv) = Prompt[1]
        /\ Len(conv) \in Nat /\ ~Open(conv[Len(conv)])
    BY DEF TalkInv
  <2>2. ASSUME NEW i \in 1..Len(conv), conv[i].role = "assistant", conv[i].calls # {}
        PROVE  i < Len(conv) /\ conv[i + 1] = [role |-> "user", calls |-> conv[i].calls]
    <3>1. Open(conv[i])
      BY <2>2 DEF Open
    <3>2. i # Len(conv)
      BY <2>1, <3>1
    <3>3. i + 1 \in 2..Len(conv) /\ (i + 1) - 1 = i /\ i < Len(conv)
      BY <2>1, <3>2
    <3> QED
      BY <3>1, <3>3 DEF TalkInv, Answered
  <2>3. ASSUME NEW i \in 1..Len(conv), conv[i].role = "user", i > 1
        PROVE  conv[i - 1].role = "assistant" /\ conv[i - 1].calls # {}
    <3>1. i \in 2..Len(conv)
      BY <2>1, <2>3
    <3> QED
      BY <2>3, <3>1 DEF TalkInv, Answered, Open
  <2> QED
    BY <2>1, <2>2, <2>3 DEF Acceptable
<1> QED
  BY <1>1, TalkInit, TalkStep, PTL DEF Spec

-----------------------------------------------------------------------------
(***************************************************************************)
(* That the task ends, but for the fairness: until it has, some step can   *)
(* be taken, and every step of the task brings it nearer to its end.       *)
(***************************************************************************)

\* The stages of an attempt, and within the stage of the loop those of a turn.
Stage(p) == CASE p = "setup"   -> 0
              [] p = "skills"  -> 1
              [] p = "secrets" -> 2
              [] p \in {"launch", "list"} -> 3
              [] p \in InLoop  -> 4
              [] p = "report"  -> 5
              [] p = "close"   -> 6
              [] p = "retry"   -> 7
              [] OTHER         -> 8

StageOfTurn(p) == CASE p = "dispatch" -> 0
                    [] p = "turn"     -> 1
                    [] OTHER          -> 2

Over == {i \in DOMAIN calls : calls[i] = "over"}

\* The task is nearer to its end: in a later attempt; or in the same one, and
\* at a later stage, or with one more server up or its tools listed, or within the loop in a later
\* turn, or at a later stage of the turn, or with one more tool call over.
Advances ==
    \/ attempt' > attempt
    \/ /\ attempt' = attempt
       /\ \/ Stage(pc') > Stage(pc)
          \/ pc = "launch" /\ pc' = "list" /\ up \subseteq up' /\ up' # up
          \/ pc = "list" /\ pc' = "launch" /\ up' = up
          \/ /\ pc \in InLoop /\ pc' \in InLoop
             /\ \/ turn' > turn
                \/ turn' = turn /\ StageOfTurn(pc') > StageOfTurn(pc)
                \/ /\ turn' = turn /\ pc = "dispatch" /\ pc' = pc
                   /\ DOMAIN calls' = DOMAIN calls
                   /\ Over \subseteq Over' /\ Over' # Over

\* Every step of the task is an advance; a cancel or the wallclock is no step of
\* the task and leaves it where it is.
StepsAdvance == [][Step => Advances]_vars

\* There is an end to all of that.
Bounded ==
    /\ attempt \in 1..(Retries + 1)
    /\ turn \in 0..MaxTurns
    /\ up \subseteq 1..Servers
    /\ DOMAIN calls \subseteq 1..MaxCalls

\* Where the guards of the steps leave a choice of a server, a turn or a call,
\* there is one; at the other places a step has no guard but the place.
CanGoOn ==
    /\ pc = "launch" => \/ up = 1..Servers
                        \/ Cardinality(up) + 1 \in 1..Servers
    /\ pc = "turn" => turn <= MaxTurns
    /\ pc = "dispatch" =>
         \/ \A i \in DOMAIN calls : calls[i] = "over"
         \/ \E i \in 1..MaxCalls :
              /\ i \in DOMAIN calls /\ calls[i] # "over"
              /\ \A j \in 1..(i - 1) : calls[j] = "over"

\* Servers are launched in their order, a request is made with turns left, and
\* the calls of an answer are dispatched in their order: the invariant.
InTurn ==
    /\ turn \in 0..MaxTurns
    /\ pc = "waiting" => turn < MaxTurns
    /\ \E k \in 0..Servers : up = 1..k
    /\ \E k \in 0..MaxCalls, m \in 0..MaxCalls :
          /\ m <= k /\ calls \in [1..k -> Marks]
          /\ \A i \in 1..k : calls[i] = "over" <=> i <= m

\* How many servers are up.
LEMMA UpCount ==
    ASSUME NEW k \in Nat, up = 1..k
    PROVE  Cardinality(up) = k
<1>1. 1 \in Int /\ k \in Int
  OBVIOUS
<1>2. Cardinality(1..k) = IF 1 > k THEN 0 ELSE k - 1 + 1
  BY <1>1, FS_Interval
<1> QED
  BY <1>2

\* A step that takes no turn, launches nothing and calls no tool.
LEMMA TurnIdle ==
    ASSUME InTurn, UNCHANGED <<turn, calls>>, up' = up \/ up' = {},
           pc' = "waiting" => pc = "waiting" \/ turn < MaxTurns
    PROVE  InTurn'
<1>1. \E k \in 0..Servers : up' = 1..k
  <2>1. CASE up' = up
    BY <2>1 DEF InTurn
  <2>2. CASE up' = {}
    <3>1. {} = 1..0 /\ 0 \in 0..Servers
      BY AgentAssumption
    <3> QED
      BY <2>2, <3>1
  <2> QED
    BY <2>1, <2>2
<1> QED
  BY <1>1 DEF InTurn

\* An answer is one more turn, with its calls to be dispatched or with none.
LEMMA TurnAnswer ==
    ASSUME InTurn, NEW stop, NEW c, NEW called \in Calls, Answer(stop, called, c),
           pc' # "waiting", calls' = called \/ UNCHANGED calls
    PROVE  InTurn'
<1>1. pc = "waiting" /\ turn' = turn + 1 /\ up' = up
  BY DEF Answer
<1>2. turn' \in 0..MaxTurns
  BY <1>1, AgentAssumption DEF InTurn
<1>3. \E k \in 0..MaxCalls, m \in 0..MaxCalls :
          /\ m <= k /\ calls' \in [1..k -> Marks]
          /\ \A i \in 1..k : calls'[i] = "over" <=> i <= m
  <2>1. CASE UNCHANGED calls
    BY <2>1 DEF InTurn
  <2>2. CASE calls' = called
    <3>1. PICK k \in 0..MaxCalls : called \in [1..k -> {"known", "unknown"}]
      BY DEF Calls
    <3>2. /\ 0 \in 0..MaxCalls /\ 0 <= k /\ called \in [1..k -> Marks]
          /\ \A i \in 1..k : called[i] # "over" /\ ~(i <= 0)
      BY <3>1, AgentAssumption DEF Marks
    <3> QED
      BY <2>2, <3>2
  <2> QED
    BY <2>1, <2>2
<1> QED
  BY <1>1, <1>2, <1>3 DEF InTurn

\* The next call is the one after those that are over.
LEMMA NextCall ==
    ASSUME NEW k \in Nat, NEW m \in Nat, m <= k, calls \in [1..k -> Marks],
           \A i \in 1..k : calls[i] = "over" <=> i <= m,
           NEW i \in Nat, CallTool(i)
    PROVE  i = m + 1 /\ i \in 1..k
<1>1. /\ i \in 1..k /\ calls[i] # "over"
      /\ \A j \in 1..(i - 1) : calls[j] = "over"
  BY DEF CallTool
<1>2. i > m
  BY <1>1
<1>3. ASSUME i # m + 1 PROVE FALSE
  <2>1. m + 1 \in 1..(i - 1) /\ m + 1 \in 1..k /\ ~(m + 1 <= m)
    BY <1>1, <1>2, <1>3
  <2> QED
    BY <1>1, <2>1
<1> QED
  BY <1>1, <1>3

\* Every step keeps it.
LEMMA TurnStep == InTurn /\ [Next]_vars => InTurn'
<1> SUFFICES ASSUME InTurn, [Next]_vars PROVE InTurn'
  OBVIOUS
<1>1. CASE LoadSkillsForTask \/ NewSkillTool \/ resolveEnv
  BY <1>1, TurnIdle DEF LoadSkillsForTask, NewSkillTool, resolveEnv, Setup, loop
<1>2. ASSUME NEW s \in 1..Servers, LaunchServer(s) PROVE InTurn'
  <2>1. PICK k \in 0..Servers : up = 1..k
    BY DEF InTurn
  <2>2. k \in Nat /\ Cardinality(up) = k
    BY <2>1, UpCount, AgentAssumption
  <2>3. /\ s = Cardinality(up) + 1 /\ up' = up \union {s}
        /\ pc' = "list" /\ UNCHANGED <<turn, calls>>
    BY <1>2 DEF LaunchServer, loop
  <2>4. s = k + 1 /\ s \in 0..Servers /\ 1..s = (1..k) \union {s}
    BY <2>2, <2>3, AgentAssumption
  <2>5. up' = 1..s
    BY <2>1, <2>3, <2>4
  <2> QED
    BY <2>3, <2>4, <2>5 DEF InTurn
<1>3. ASSUME NEW s \in 1..Servers, LaunchFails(s) PROVE InTurn'
  BY <1>3, TurnIdle DEF LaunchFails, loop
<1>4. CASE ListTools \/ ListFails \/ Launched \/ Request \/ LeaveLoop
  BY <1>4, TurnIdle DEF ListTools, ListFails, Launched, Request, LeaveLoop, loop
<1>5. ASSUME NEW c \in Costs, StreamFails(c) PROVE InTurn'
  BY <1>5, TurnIdle DEF StreamFails, loop
<1>6. << >> \in Calls
  <2>1. << >> \in [1..0 -> {"known", "unknown"}] /\ 0 \in 0..MaxCalls
    BY AgentAssumption
  <2> QED
    BY <2>1 DEF Calls
<1>7. ASSUME NEW c \in Costs, Pause(c) PROVE InTurn'
  BY <1>6, <1>7, TurnAnswer DEF Pause
<1>8. ASSUME NEW c \in Costs, NEW stop \in Stops, LastAnswer(stop, c) PROVE InTurn'
  BY <1>6, <1>8, TurnAnswer DEF LastAnswer
<1>9. ASSUME NEW c \in Costs, NEW called \in Calls, ToolUse(called, c) PROVE InTurn'
  BY <1>9, TurnAnswer DEF ToolUse
<1>10. ASSUME NEW c \in Costs, NEW called \in Calls, NEW stop \in Stops,
              AnswerOverBudget(stop, called, c)
       PROVE  InTurn'
  BY <1>10, TurnAnswer DEF AnswerOverBudget
<1>11. CASE SendResults
  <2>1. turn' = turn /\ up' = up /\ pc' = "turn" /\ calls' = << >>
    BY <1>11 DEF SendResults
  <2>2. /\ << >> \in [1..0 -> Marks] /\ 0 \in 0..MaxCalls /\ 0 <= 0
        /\ \A i \in 1..0 : << >>[i] = "over" <=> i <= 0
    BY AgentAssumption
  <2> QED
    BY <2>1, <2>2 DEF InTurn
<1>12. ASSUME NEW i \in 1..MaxCalls, CallTool(i) PROVE InTurn'
  <2>1. PICK k \in 0..MaxCalls, m \in 0..MaxCalls :
          /\ m <= k /\ calls \in [1..k -> Marks]
          /\ \A j \in 1..k : calls[j] = "over" <=> j <= m
    BY DEF InTurn
  <2>2. k \in Nat /\ m \in Nat /\ i \in Nat
    BY AgentAssumption
  <2>3. i = m + 1 /\ i \in 1..k
    BY <1>12, <2>1, <2>2, NextCall
  <2>4. /\ turn' = turn /\ up' = up /\ pc' = pc
        /\ calls' = [calls EXCEPT ![i] = "over"]
    BY <1>12 DEF CallTool
  <2>5. calls' \in [1..k -> Marks] /\ i <= k
    BY <2>1, <2>2, <2>3, <2>4 DEF Marks
  <2>6. ASSUME NEW j \in 1..k PROVE calls'[j] = "over" <=> j <= i
    <3>1. CASE j = i
      BY <2>1, <2>4, <3>1
    <3>2. CASE j # i
      <4>1. calls'[j] = calls[j]
        BY <2>1, <2>4, <3>2
      <4>2. j <= i <=> j <= m
        BY <2>2, <2>3, <3>2
      <4> QED
        BY <2>1, <4>1, <4>2
    <3> QED
      BY <3>1, <3>2
  <2>7. i \in 0..MaxCalls
    BY <2>2
  <2>8. /\ turn' \in 0..MaxTurns
        /\ pc' = "waiting" => turn' < MaxTurns
        /\ \E n \in 0..Servers : up' = 1..n
    BY <2>4 DEF InTurn
  <2> QED
    BY <2>5, <2>6, <2>7, <2>8 DEF InTurn
<1>13. CASE Report \/ Close \/ Done
  BY <1>13, TurnIdle DEF Report, Close, Done, loop
<1>14. CASE Retry
  <2>1. turn' = 0 /\ up' = up /\ pc' = "setup" /\ calls' = << >>
    BY <1>14 DEF Retry
  <2>2. /\ << >> \in [1..0 -> Marks] /\ 0 \in 0..MaxCalls /\ 0 <= 0
        /\ \A i \in 1..0 : << >>[i] = "over" <=> i <= 0
        /\ 0 \in 0..MaxTurns
    BY AgentAssumption
  <2> QED
    BY <2>1, <2>2 DEF InTurn
<1>15. CASE Cancel \/ Expire \/ UNCHANGED vars
  BY <1>15, TurnIdle DEF Cancel, Expire, vars, loop
<1> QED
  BY <1>1, <1>2, <1>3, <1>4, <1>5, <1>7, <1>8, <1>9, <1>10, <1>11, <1>12, <1>13,
     <1>14, <1>15 DEF Next, Step

\* The invariant holds in every state.
LEMMA TurnInvariance == Spec => []InTurn
<1>1. Init => InTurn
  <2> SUFFICES ASSUME Init PROVE InTurn
    OBVIOUS
  <2>1. turn = 0 /\ up = {} /\ pc = "setup" /\ calls = << >>
    BY DEF Init
  <2>2. /\ << >> \in [1..0 -> Marks] /\ 0 \in 0..MaxCalls /\ 0 <= 0
        /\ \A i \in 1..0 : << >>[i] = "over" <=> i <= 0
        /\ 0 \in 0..MaxTurns /\ {} = 1..0 /\ 0 \in 0..Servers
    BY AgentAssumption
  <2> QED
    BY <2>1, <2>2 DEF InTurn
<1> QED
  BY <1>1, TurnStep, PTL DEF Spec

\* A step of the task is an advance.
LEMMA StepAdvances == ASSUME Types, InTurn, Step PROVE Advances
<1> USE DEF Stage, InLoop
<1>1. CASE LoadSkillsForTask \/ NewSkillTool \/ resolveEnv
  BY <1>1 DEF LoadSkillsForTask, NewSkillTool, resolveEnv, Setup, Advances
<1>2. ASSUME NEW s \in 1..Servers, LaunchServer(s) PROVE Advances
  <2>1. PICK k \in 0..Servers : up = 1..k
    BY DEF InTurn
  <2>2. k \in Nat /\ Cardinality(up) = k
    BY <2>1, UpCount, AgentAssumption
  <2>3. /\ s = Cardinality(up) + 1 /\ up' = up \union {s}
        /\ pc = "launch" /\ pc' = "list" /\ attempt' = attempt
    BY <1>2 DEF LaunchServer
  <2>4. s \notin up
    BY <2>1, <2>2, <2>3
  <2> QED
    BY <2>3, <2>4 DEF Advances
<1>3. ASSUME NEW s \in 1..Servers, LaunchFails(s) PROVE Advances
  BY <1>3 DEF LaunchFails, Advances
<1>4. CASE ListTools \/ ListFails \/ Launched \/ LeaveLoop
  BY <1>4 DEF ListTools, ListFails, Launched, LeaveLoop, Advances
<1>5. CASE Request
  BY <1>5 DEF Request, loop, Advances, StageOfTurn
<1>6. ASSUME NEW c \in Costs, StreamFails(c) PROVE Advances
  BY <1>6 DEF StreamFails, Advances
<1>7. ASSUME NEW stop, NEW called, NEW c, Answer(stop, called, c),
             pc' \in {"turn", "dispatch", "report"}
      PROVE  Advances
  <2>1. pc = "waiting" /\ turn' = turn + 1 /\ attempt' = attempt /\ turn \in Nat
    BY <1>7, AgentAssumption DEF Answer, InTurn
  <2> QED
    BY <1>7, <2>1 DEF Advances
<1>8. ASSUME NEW c \in Costs, Pause(c) PROVE Advances
  BY <1>7, <1>8 DEF Pause
<1>9. ASSUME NEW c \in Costs, NEW stop \in Stops, LastAnswer(stop, c) PROVE Advances
  BY <1>7, <1>9 DEF LastAnswer
<1>10. ASSUME NEW c \in Costs, NEW called \in Calls, ToolUse(called, c) PROVE Advances
  BY <1>7, <1>10 DEF ToolUse
<1>11. ASSUME NEW c \in Costs, NEW called \in Calls, NEW stop \in Stops,
              AnswerOverBudget(stop, called, c)
       PROVE  Advances
  BY <1>7, <1>11 DEF AnswerOverBudget
<1>12. CASE SendResults
  BY <1>12 DEF SendResults, Advances, StageOfTurn
<1>13. ASSUME NEW i \in 1..MaxCalls, CallTool(i) PROVE Advances
  <2>1. PICK k \in 0..MaxCalls : calls \in [1..k -> Marks]
    BY DEF InTurn
  <2>2. /\ turn' = turn /\ pc = "dispatch" /\ pc' = pc /\ attempt' = attempt
        /\ i \in DOMAIN calls /\ calls[i] # "over"
        /\ calls' = [calls EXCEPT ![i] = "over"]
    BY <1>13 DEF CallTool
  <2>3. DOMAIN calls' = DOMAIN calls /\ Over' = Over \union {i} /\ i \notin Over
    BY <2>1, <2>2 DEF Over
  <2> QED
    BY <2>2, <2>3 DEF Advances
<1>14. CASE Report \/ Close \/ Done
  BY <1>14 DEF Report, Close, Done, Advances
<1>15. CASE Retry
  BY <1>15 DEF Retry, Types, Advances
<1> QED
  BY <1>1, <1>2, <1>3, <1>4, <1>5, <1>6, <1>8, <1>9, <1>10, <1>11, <1>12, <1>13,
     <1>14, <1>15 DEF Step

\* Every step of the task brings it nearer to its end, through any pauses, tool
\* calls, errors and retries (Task.Execute, execAgent and agent.Run): nothing
\* that it does can go round in a circle.
THEOREM NothingGoesRound == Spec => StepsAdvance
<1>1. Types /\ InTurn /\ [Next]_vars => [Step => Advances]_vars
  BY StepAdvances
<1>2. MoneyInv => Types
  BY DEF MoneyInv
<1> QED
  BY <1>1, <1>2, MoneyInvariance, TurnInvariance, PTL DEF Spec, StepsAdvance

\* What the advance is measured in is bounded, by the retries, the servers, the
\* turns and the calls of an answer.
THEOREM TheWorkIsBounded == Spec => []Bounded
<1>1. Types /\ InTurn => Bounded
  <2> SUFFICES ASSUME Types, InTurn PROVE Bounded
    OBVIOUS
  <2>1. PICK k \in 0..MaxCalls : calls \in [1..k -> Marks]
    BY DEF InTurn
  <2>2. DOMAIN calls \subseteq 1..MaxCalls
    BY <2>1, AgentAssumption
  <2> QED
    BY <2>2 DEF Bounded, Types, InTurn
<1>2. MoneyInv => Types
  BY DEF MoneyInv
<1> QED
  BY <1>1, <1>2, MoneyInvariance, TurnInvariance, PTL

\* The task is never stuck: there is a next server to launch or all are up, a
\* turn left or an end to the loop, a next call to dispatch or all are over.
THEOREM TaskIsNeverStuck == Spec => []CanGoOn
<1>1. InTurn => CanGoOn
  <2> SUFFICES ASSUME InTurn PROVE CanGoOn
    OBVIOUS
  <2>1. PICK k \in 0..Servers : up = 1..k
    BY DEF InTurn
  <2>2. k \in Nat /\ Cardinality(up) = k
    BY <2>1, UpCount, AgentAssumption
  <2>3. up = 1..Servers \/ Cardinality(up) + 1 \in 1..Servers
    BY <2>1, <2>2, AgentAssumption
  <2>4. turn <= MaxTurns
    BY AgentAssumption DEF InTurn
  <2>5. PICK n \in 0..MaxCalls, m \in 0..MaxCalls :
          /\ m <= n /\ calls \in [1..n -> Marks]
          /\ \A i \in 1..n : calls[i] = "over" <=> i <= m
    BY DEF InTurn
  <2>6. CASE m = n
    BY <2>3, <2>4, <2>5, <2>6, AgentAssumption DEF CanGoOn
  <2>7. CASE m # n
    <3>1. /\ m + 1 \in 1..MaxCalls /\ m + 1 \in 1..n /\ ~(m + 1 <= m)
          /\ \A j \in 1..((m + 1) - 1) : j \in 1..n /\ j <= m
      BY <2>5, <2>7, AgentAssumption
    <3>2. /\ m + 1 \in DOMAIN calls /\ calls[m + 1] # "over"
          /\ \A j \in 1..((m + 1) - 1) : calls[j] = "over"
      BY <2>5, <3>1
    <3> QED
      BY <2>3, <2>4, <3>1, <3>2 DEF CanGoOn
  <2> QED
    BY <2>6, <2>7
<1> QED
  BY <1>1, TurnInvariance, PTL

=============================================================================
