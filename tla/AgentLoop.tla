------------------------------ MODULE AgentLoop ------------------------------
(***************************************************************************)
(* The tool loop of app/agent.py (Agent.reply over _stream_once) with the  *)
(* thread that consumes it in app/pipeline.py, the pool that runs the      *)
(* tools of a round, and a barge-in at any point.  The LLM answers as it   *)
(* likes: text, thinking, calls with good or malformed arguments, or an    *)
(* HTTP error.  The history before the question is left out, and so are    *)
(* the texts.  Utterances come one after the other; what overlapping ones  *)
(* do to the pending task is in Conversation.                              *)
(***************************************************************************)
EXTENDS Integers, Sequences, FiniteSets, SequencesExt

CONSTANTS MaxToolRounds, ToolRetries, MalformedRetries, MaxContinuations,
          Workers,       \* the most tools run at a time
          MaxCalls,      \* calls of one round
          MaxDeltas,     \* deltas of one stream (max_tokens)
          MaxReplies,    \* utterances of one run
          None           \* no pending task

ASSUME AgentAssumption ==
  /\ {MaxToolRounds, ToolRetries, MalformedRetries, MaxContinuations} \subseteq Nat
  /\ {MaxCalls, MaxDeltas, MaxReplies} \subseteq Nat
  /\ Workers \in Nat \ {0}

VARIABLES
  pc,             \* of the thread: it consumes the generator and runs it
  messages,       \* the request of the next completion, after the system prompt
  offered,        \* include_tools
  attempt, deltas, said,        \* of one completion; said: final_parts is not empty
  rounds, malformedRounds,      \* of one reply
  round,          \* of each call of the round in progress: where it stands, or its result
  pending,        \* the messages of the conversation's tool_state
  continuations,  \* its count
  barged,         \* the reply was barged in on
  replies,
  \* history
  executed,       \* how often each call of the round was handed to a tool
  late            \* the rounds begun after the barge-in

completion == <<offered, attempt, deltas, said>>
budget == <<rounds, malformedRounds>>
tools == <<round, executed>>
task == <<pending, continuations>>
vars == <<pc, messages, completion, budget, tools, task, barged, replies, late>>

Arguments == {"good", "malformed"}
Rounds == SeqOf(Arguments, MaxCalls) \ {<<>>}
Outcomes == {"answered", "malformed"}

User == [role |-> "user"]
Continue == [role |-> "continue"]
FinalPrompt == [role |-> "final prompt"]
Answer == [role |-> "answer"]
Calls(c) == [role |-> "calls", calls |-> c]
Result(i, how) == [role |-> "tool", call |-> i, how |-> how]

Message == {User, Continue, FinalPrompt, Answer}
             \cup [role : {"calls"}, calls : Rounds]
             \cup [role : {"tool"}, call : 1 .. MaxCalls, how : Outcomes]

\* Every variable has its type; the budgets of the configuration bound the counters.
TypeOK ==
  /\ pc \in {"idle", "send", "wait", "stream", "tools"}
  /\ Range(messages) \subseteq Message
  /\ pending # None => Range(pending) \subseteq Message
  /\ offered \in BOOLEAN /\ said \in BOOLEAN /\ barged \in BOOLEAN
  /\ attempt \in 0 .. ToolRetries /\ deltas \in 0 .. MaxDeltas
  /\ rounds \in 0 .. MaxToolRounds /\ malformedRounds \in 0 .. MalformedRetries + 1
  /\ \A i \in DOMAIN round : round[i] \in Outcomes \cup {"waiting", "running"}
  /\ DOMAIN executed = DOMAIN round /\ Range(executed) \subseteq Nat
  /\ continuations \in 0 .. MaxContinuations
  /\ replies \in 0 .. MaxReplies /\ late \in Nat

Init ==
  /\ pc = "idle" /\ messages = <<>>
  /\ offered = TRUE /\ attempt = 0 /\ deltas = 0 /\ said = FALSE
  /\ rounds = 0 /\ malformedRounds = 0 /\ round = <<>> /\ executed = <<>>
  /\ pending = None /\ continuations = 0
  /\ barged = FALSE /\ replies = 0 /\ late = 0
-----------------------------------------------------------------------------
\* The request that goes to the server next, and whether tools are offered.
Request(ms, with) ==
  /\ messages' = ms /\ offered' = with
  /\ pc' = "send" /\ attempt' = 0 /\ deltas' = 0 /\ said' = FALSE

\* The reply is over: the finally block keeps the task the loop finalised, or clears
\* the one it had.
Leave(finalised) ==
  /\ pc' = "idle" /\ messages' = <<>> /\ pending' = finalised
  /\ continuations' = IF finalised = None THEN 0 ELSE continuations
  /\ round' = <<>> /\ executed' = <<>>
  /\ offered' = TRUE /\ attempt' = 0 /\ deltas' = 0 /\ said' = FALSE
  /\ rounds' = 0 /\ malformedRounds' = 0 /\ late' = 0 /\ barged' = FALSE
  /\ UNCHANGED replies

StartReply ==
  /\ pc = "idle" /\ replies < MaxReplies
  /\ replies' = replies + 1
  /\ UNCHANGED <<budget, tools, barged, late>>

\* Any utterance but 'continue' drops the pending task.
Ask ==
  /\ StartReply
  /\ Request(<<User>>, TRUE)
  /\ pending' = None /\ continuations' = 0

\* 'continue': the exchange goes on with a fresh budget.
Resume ==
  /\ StartReply
  /\ pending # None /\ continuations < MaxContinuations
  /\ Request(Append(pending, Continue), TRUE)
  /\ continuations' = continuations + 1
  /\ UNCHANGED pending

\* 'continue' past the limit is refused without the LLM.
Refuse ==
  /\ pc = "idle" /\ pending # None /\ continuations >= MaxContinuations
  /\ pending' = None /\ continuations' = 0
  /\ UNCHANGED <<pc, messages, completion, budget, tools, barged, replies, late>>

BargeIn ==
  /\ pc # "idle" /\ ~barged
  /\ barged' = TRUE
  /\ UNCHANGED <<pc, messages, completion, budget, tools, task, replies, late>>
-----------------------------------------------------------------------------
\* _stream_once
Post ==
  /\ pc = "send"
  /\ pc' = "wait"
  /\ UNCHANGED <<messages, completion, budget, tools, task, barged, replies, late>>

\* The status is good.
Connected ==
  /\ pc = "wait"
  /\ pc' = "stream"
  /\ UNCHANGED <<messages, completion, budget, tools, task, barged, replies, late>>

\* Mutant: the attempts are not counted.
NextAttempt_Same(n) == n

NextAttempt(n) == n + 1

\* A status of 500 or more, while attempts are left.
Retry ==
  /\ pc = "wait" /\ attempt < ToolRetries
  /\ attempt' = NextAttempt(attempt) /\ pc' = "send"
  /\ UNCHANGED <<messages, offered, deltas, said, budget, tools, task, barged,
                 replies, late>>

\* Any other status, the attempts are used up, or the connection or its stream fails.
Fail ==
  /\ pc \in {"wait", "stream"}
  /\ Leave(None)

\* A delta of text or of thinking comes out of the generator, whose consumer looks
\* whether it is still alive.
Delta ==
  /\ pc = "stream" /\ deltas < MaxDeltas
  /\ IF barged
     THEN Leave(None)
     ELSE /\ deltas' = deltas + 1
          /\ \E text \in BOOLEAN : said' = (said \/ (text /\ ~offered))
          /\ UNCHANGED <<pc, messages, offered, attempt, budget, tools, task, barged,
                         replies, late>>
-----------------------------------------------------------------------------
\* reply
Answered ==
  /\ pc = "stream" /\ offered
  /\ Leave(None)

\* Mutant: one round too many.
Spent_OneMore == rounds > MaxToolRounds

Spent == rounds >= MaxToolRounds

BeginRound ==
  /\ pc = "stream" /\ offered /\ ~Spent
  /\ \E calls \in Rounds :
       /\ messages' = Append(messages, Calls(calls))
       /\ round' = [i \in DOMAIN calls |-> "waiting"]
       /\ executed' = [i \in DOMAIN calls |-> 0]
  /\ rounds' = rounds + 1
  /\ late' = IF barged THEN late + 1 ELSE late
  /\ pc' = "tools"
  /\ UNCHANGED <<completion, malformedRounds, task, barged, replies>>

\* The calls of this stream are dropped, and the last answer is asked for.
OverBudget ==
  /\ pc = "stream" /\ offered /\ Spent
  /\ Request(Append(messages, FinalPrompt), FALSE)
  /\ UNCHANGED <<budget, tools, task, barged, replies, late>>

\* The stream of the last answer ends; the consumer drops Finalised if it is not alive.
Finalise ==
  /\ pc = "stream" /\ ~offered
  /\ Leave(IF barged THEN None
           ELSE IF said THEN Append(messages, Answer) ELSE messages)
-----------------------------------------------------------------------------
\* The pool: calls are taken in their order.
Running == {i \in DOMAIN round : round[i] = "running"}

StartCall ==
  /\ pc = "tools" /\ Cardinality(Running) < Workers
  /\ \E i \in DOMAIN round :
       /\ round[i] = "waiting" /\ \A j \in 1 .. i - 1 : round[j] # "waiting"
       /\ round' = [round EXCEPT ![i] = "running"]
  /\ UNCHANGED <<pc, messages, completion, budget, executed, task, barged, replies, late>>

\* Mutant: arguments that are not JSON become {}.
Executes_Anyway(i) == TRUE

Executes(i) == Last(messages).calls[i] = "good"

\* run_tool: the tool's output or the text of its exception, or what the model is told
\* about malformed arguments.
FinishCall(i) ==
  /\ pc = "tools" /\ round[i] = "running"
  /\ round' = [round EXCEPT ![i] = IF Executes(i) THEN "answered" ELSE "malformed"]
  /\ executed' = [executed EXCEPT ![i] = @ + IF Executes(i) THEN 1 ELSE 0]
  /\ UNCHANGED <<pc, messages, completion, budget, task, barged, replies, late>>

Results == [i \in DOMAIN round |-> Result(i, round[i])]

\* Consecutive rounds with a malformed call; a clean one resets the count.
Malformed ==
  IF \E i \in DOMAIN round : round[i] = "malformed" THEN malformedRounds + 1 ELSE 0

\* The pool has run dry: the results join the exchange and the ToolRound comes out; a
\* consumer that is not alive goes no further.
EndRound ==
  /\ pc = "tools" /\ \A i \in DOMAIN round : round[i] \in Outcomes
  /\ IF barged
     THEN Leave(None)
     ELSE /\ malformedRounds' = Malformed
          /\ LET ms == messages \o Results
             IN IF Malformed > MalformedRetries
                THEN Request(Append(ms, FinalPrompt), FALSE)
                ELSE Request(ms, TRUE)
          /\ round' = <<>> /\ executed' = <<>>
          /\ UNCHANGED <<rounds, task, barged, replies, late>>

Completion == Post \/ Connected \/ Retry \/ Fail \/ Delta
Loop == Answered \/ BeginRound \/ OverBudget \/ Finalise \/ EndRound
Tool(i) == i \in DOMAIN round /\ FinishCall(i)
Utterance == Ask \/ Resume \/ Refuse \/ BargeIn

Next == Utterance \/ Completion \/ Loop \/ StartCall \/ \E i \in 1 .. MaxCalls : Tool(i)

Spec == Init /\ [][Next]_vars
-----------------------------------------------------------------------------
\* A list of messages the server accepts and the model can follow: each round of calls
\* is followed by one result for each call, in the order of the calls, a malformed call
\* is answered as such and any other by its tool, and there is no result without a call.
WellFormed(ms) ==
  /\ \A p \in DOMAIN ms : ms[p].role = "calls" =>
       \A i \in DOMAIN ms[p].calls :
         /\ p + i \in DOMAIN ms /\ ms[p + i].role = "tool" /\ ms[p + i].call = i
         /\ ms[p + i].how = "malformed" <=> ms[p].calls[i] = "malformed"
  /\ \A q \in DOMAIN ms : ms[q].role = "tool" =>
       \E p \in 1 .. q - 1 : ms[p].role = "calls" /\ q - p \in DOMAIN ms[p].calls

RoundsOf(ms) == Cardinality({p \in DOMAIN ms : ms[p].role = "calls"})

\* What is sent, resent and kept for a 'continue' is always an exchange the server
\* accepts; the rounds in it stay within the budgets of the reply and its
\* continuations; a tool runs at most once for a call and never for malformed
\* arguments; and after a barge-in at most one more round of tools begins.
ExchangeSound ==
  /\ pc \in {"send", "wait", "stream"} => WellFormed(messages)
  /\ pending # None => WellFormed(pending)
  /\ RoundsOf(messages) <= MaxToolRounds * (continuations + 1)
  /\ \A i \in DOMAIN executed :
       executed[i] <= IF Last(messages).calls[i] = "good" THEN 1 ELSE 0
  /\ late <= 1

\* Every reply ends, whatever the model calls and however the server fails: the thread,
\* the server and the tools go on (each has a timeout), and no stream is endless.
LoopEnds == pc # "idle" ~> pc = "idle"

\* The server answers each request or the connection times out.
Fairness ==
  /\ WF_vars(Completion \/ Loop)
  /\ WF_vars(StartCall)
  /\ \A i \in 1 .. MaxCalls : WF_vars(Tool(i))

FairSpec == Spec /\ Fairness
=============================================================================
