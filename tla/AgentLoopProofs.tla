--------------------------- MODULE AgentLoopProofs ---------------------------
(***************************************************************************)
(* Proofs about AgentLoop: the types with their budgets, and ExchangeSound,*)
(* for any budgets, any number of calls in a round and any pool.           *)
(***************************************************************************)
EXTENDS AgentLoop, FiniteSetTheorems, SequenceTheorems, TLAPS

\* A list of messages that is kept up to date.
Messages == Seq(Message)

LEMMA Roles ==
  /\ \A m \in {User, Continue, FinalPrompt, Answer} : m.role \notin {"calls", "tool"}
  /\ \A calls \in Rounds : Calls(calls).role = "calls" /\ Calls(calls).calls = calls
  /\ \A i \in 1 .. MaxCalls, how \in Outcomes :
       /\ Result(i, how).role = "tool" /\ Result(i, how).call = i
       /\ Result(i, how).how = how
<1>1. User.role \notin {"calls", "tool"}
  BY DEF User
<1>2. Continue.role \notin {"calls", "tool"}
  BY DEF Continue
<1>3. FinalPrompt.role \notin {"calls", "tool"}
  BY DEF FinalPrompt
<1>4. Answer.role \notin {"calls", "tool"}
  BY DEF Answer
<1>5. QED BY <1>1, <1>2, <1>3, <1>4 DEF Calls, Result

LEMMA RoundDomain ==
  ASSUME NEW calls \in Rounds
  PROVE  /\ Len(calls) \in 1 .. MaxCalls /\ calls \in [1 .. Len(calls) -> Arguments]
         /\ DOMAIN calls = 1 .. Len(calls) /\ Len(calls) \in Nat
<1>1. PICK n \in 0 .. MaxCalls : calls \in [1 .. n -> Arguments]
  BY AgentAssumption DEF Rounds, SeqOf
<1>2. n \in Nat /\ MaxCalls \in Nat
  BY AgentAssumption
<1>3. calls \in Seq(Arguments) /\ Len(calls) = n
  BY <1>1, <1>2
<1>4. n # 0
  <2>1. SUFFICES ASSUME n = 0 PROVE FALSE
    OBVIOUS
  <2>2. calls = <<>>
    BY <1>3, <2>1
  <2>3. QED BY <2>2 DEF Rounds
<1>5. QED BY <1>1, <1>2, <1>3, <1>4

LEMMA MessageTypes ==
  /\ {User, Continue, FinalPrompt, Answer} \subseteq Message
  /\ \A calls \in Rounds : Calls(calls) \in Message
  /\ \A i \in 1 .. MaxCalls, how \in Outcomes : Result(i, how) \in Message
BY DEF Message, User, Continue, FinalPrompt, Answer, Calls, Result

\* What Append does to a list of messages, and the rounds it counts.
LEMMA AppendFacts ==
  ASSUME NEW ms \in Messages, NEW m \in Message
  PROVE  /\ Append(ms, m) \in Messages
         /\ Len(ms) \in Nat /\ DOMAIN ms = 1 .. Len(ms)
         /\ DOMAIN Append(ms, m) = 1 .. Len(ms) + 1
         /\ Append(ms, m)[Len(ms) + 1] = m
         /\ \A p \in 1 .. Len(ms) : Append(ms, m)[p] = ms[p]
<1>1. ms \in Seq(Message)
  BY DEF Messages
<1>2. Append(ms, m) \in Seq(Message) /\ Len(Append(ms, m)) = Len(ms) + 1
  BY <1>1
<1>3. Len(ms) \in Nat /\ DOMAIN ms = 1 .. Len(ms)
  BY <1>1
<1>4. DOMAIN Append(ms, m) = 1 .. Len(ms) + 1
  BY <1>2
<1>5. \A p \in 1 .. Len(ms) : Append(ms, m)[p] = ms[p]
  BY <1>1
<1>6. Append(ms, m)[Len(ms) + 1] = m
  BY <1>1
<1>7. QED BY <1>2, <1>3, <1>4, <1>5, <1>6 DEF Messages

LEMMA RoundsCount ==
  ASSUME NEW ms \in Messages
  PROVE  /\ RoundsOf(ms) \in Nat /\ IsFiniteSet({p \in DOMAIN ms : ms[p].role = "calls"})
<1>1. Len(ms) \in Nat /\ DOMAIN ms = 1 .. Len(ms)
  BY DEF Messages
<1>2. IsFiniteSet(1 .. Len(ms))
  BY <1>1, FS_Interval
<1>3. IsFiniteSet({p \in DOMAIN ms : ms[p].role = "calls"})
  BY <1>1, <1>2, FS_Subset
<1>4. QED BY <1>3, FS_CardinalityType DEF RoundsOf

LEMMA RoundsAppend ==
  ASSUME NEW ms \in Messages, NEW m \in Message
  PROVE  RoundsOf(Append(ms, m)) = RoundsOf(ms) + IF m.role = "calls" THEN 1 ELSE 0
<1> DEFINE new == Append(ms, m)
           old == {p \in DOMAIN ms : ms[p].role = "calls"}
           n == Len(ms)
<1>1. n \in Nat /\ DOMAIN ms = 1 .. n /\ DOMAIN new = 1 .. n + 1
  BY AppendFacts
<1>2. new[n + 1] = m /\ \A p \in 1 .. n : new[p] = ms[p]
  BY AppendFacts
<1>3. IsFiniteSet(old) /\ RoundsOf(ms) = Cardinality(old) /\ RoundsOf(ms) \in Nat
  BY RoundsCount DEF RoundsOf
<1>4. n + 1 \notin old
  BY <1>1
<1> HIDE DEF new
<1>5. {p \in DOMAIN new : new[p].role = "calls"}
        = IF m.role = "calls" THEN old \cup {n + 1} ELSE old
  <2>1. \A p \in DOMAIN new : p \in 1 .. n \/ p = n + 1
    BY <1>1
  <2>2. \A p \in 1 .. n : p \in DOMAIN new /\ p \in DOMAIN ms /\ p # n + 1
    BY <1>1
  <2>3. n + 1 \in DOMAIN new
    BY <1>1
  <2>4. old \subseteq 1 .. n
    BY <1>1
  <2>5. QED BY <1>2, <1>4, <2>1, <2>2, <2>3, <2>4
<1>6. Cardinality(old \cup {n + 1}) = Cardinality(old) + 1
  BY <1>3, <1>4, FS_AddElement
<1>7. RoundsOf(Append(ms, m)) = Cardinality(IF m.role = "calls" THEN old \cup {n + 1} ELSE old)
  BY <1>5 DEF RoundsOf, new
<1> HIDE DEF old, n
<1>8. QED BY <1>3, <1>6, <1>7

\* Results count for no round.
LEMMA RoundsResults ==
  ASSUME NEW ms \in Messages, NEW rs \in Messages,
         \A i \in DOMAIN rs : rs[i].role = "tool"
  PROVE  RoundsOf(ms \o rs) = RoundsOf(ms)
<1> DEFINE new == ms \o rs
           n == Len(ms)
           k == Len(rs)
<1>1. n \in Nat /\ k \in Nat /\ DOMAIN ms = 1 .. n /\ DOMAIN rs = 1 .. k
  BY DEF Messages
<1>2. new \in Seq(Message) /\ Len(new) = n + k
  BY DEF Messages
<1>3. DOMAIN new = 1 .. n + k
  BY <1>2
<1>4. \A p \in 1 .. n : new[p] = ms[p]
  BY <1>1 DEF Messages
<1>5. \A i \in 1 .. k : new[n + i] = rs[i]
  BY <1>1 DEF Messages
<1> HIDE DEF new
<1>6. ASSUME NEW p \in DOMAIN new, p \notin 1 .. n PROVE new[p].role = "tool"
  <2>1. p - n \in 1 .. k /\ p = n + (p - n)
    BY <1>1, <1>3, <1>6
  <2>2. new[p] = rs[p - n]
    BY <1>5, <2>1
  <2>3. QED BY <1>1, <2>1, <2>2
<1>7. 1 .. n \subseteq DOMAIN new
  BY <1>1, <1>3
<1>8. {p \in DOMAIN new : new[p].role = "calls"} = {p \in DOMAIN ms : ms[p].role = "calls"}
  BY <1>1, <1>4, <1>6, <1>7
<1>9. QED BY <1>8 DEF RoundsOf, new

-----------------------------------------------------------------------------
\* A message that is neither a round of calls nor a result leaves a list well formed.
LEMMA AppendPlain ==
  ASSUME NEW ms \in Messages, WellFormed(ms),
         NEW m \in {User, Continue, FinalPrompt, Answer}
  PROVE  /\ Append(ms, m) \in Messages /\ WellFormed(Append(ms, m))
<1>1. m.role \notin {"calls", "tool"}
  BY Roles
<1>2. Append(ms, m) \in Messages
  BY MessageTypes DEF Messages
<1>3. /\ Len(ms) \in Nat /\ DOMAIN ms = 1 .. Len(ms)
      /\ DOMAIN Append(ms, m) = 1 .. Len(ms) + 1
      /\ Append(ms, m)[Len(ms) + 1] = m
      /\ \A p \in 1 .. Len(ms) : Append(ms, m)[p] = ms[p]
  BY MessageTypes, AppendFacts
<1> DEFINE new == Append(ms, m)
<1>4. ASSUME NEW p \in DOMAIN new, new[p].role = "calls", NEW i \in DOMAIN new[p].calls
      PROVE  /\ p + i \in DOMAIN new /\ new[p + i].role = "tool" /\ new[p + i].call = i
             /\ new[p + i].how = "malformed" <=> new[p].calls[i] = "malformed"
  <2>1. p \in DOMAIN ms /\ new[p] = ms[p]
    BY <1>1, <1>3, <1>4
  <2>2. /\ p + i \in DOMAIN ms /\ ms[p + i].role = "tool" /\ ms[p + i].call = i
        /\ ms[p + i].how = "malformed" <=> ms[p].calls[i] = "malformed"
    BY <1>4, <2>1 DEF WellFormed
  <2>3. new[p + i] = ms[p + i] /\ p + i \in DOMAIN new
    BY <1>3, <2>2
  <2>4. QED BY <2>1, <2>2, <2>3
<1>5. ASSUME NEW q \in DOMAIN new, new[q].role = "tool"
      PROVE  \E p \in 1 .. q - 1 : new[p].role = "calls" /\ q - p \in DOMAIN new[p].calls
  <2>1. q \in DOMAIN ms /\ new[q] = ms[q]
    BY <1>1, <1>3, <1>5
  <2>2. PICK p \in 1 .. q - 1 : ms[p].role = "calls" /\ q - p \in DOMAIN ms[p].calls
    BY <1>5, <2>1 DEF WellFormed
  <2>3. new[p] = ms[p]
    BY <1>3, <2>1, <2>2
  <2>4. QED BY <2>2, <2>3
<1>6. QED BY <1>2, <1>4, <1>5 DEF WellFormed

\* A round of calls and its results leave a list well formed.
LEMMA AppendRound ==
  ASSUME NEW ms \in Messages, WellFormed(ms), NEW calls \in Rounds,
         NEW how \in [DOMAIN calls -> Outcomes],
         \A i \in DOMAIN calls : how[i] = "malformed" <=> calls[i] = "malformed"
  PROVE  LET rs == [i \in DOMAIN calls |-> Result(i, how[i])]
         IN /\ Append(ms, Calls(calls)) \o rs \in Messages
            /\ WellFormed(Append(ms, Calls(calls)) \o rs)
<1> DEFINE rs == [i \in DOMAIN calls |-> Result(i, how[i])]
           k == Len(calls)
           n == Len(ms)
           new == Append(ms, Calls(calls)) \o rs
<1>1. k \in Nat /\ k \in 1 .. MaxCalls /\ DOMAIN calls = 1 .. k /\ n \in Nat /\ MaxCalls \in Nat
  BY RoundDomain, AgentAssumption DEF Messages
<1>2. rs \in [1 .. k -> Message]
  BY <1>1, MessageTypes
<1>3. rs \in Seq(Message) /\ Len(rs) = k
  BY <1>1, <1>2
<1>4. Append(ms, Calls(calls)) \in Seq(Message) /\ Len(Append(ms, Calls(calls))) = n + 1
  BY MessageTypes DEF Messages
<1>5. new \in Seq(Message) /\ Len(new) = n + 1 + k
  <2> DEFINE a == Append(ms, Calls(calls))
  <2>1. /\ a \in Seq(Message) /\ Len(a) = n + 1 /\ rs \in Seq(Message) /\ Len(rs) = k
        /\ new = a \o rs
    BY <1>3, <1>4
  <2> HIDE DEF a, rs, new
  <2>2. a \o rs \in Seq(Message) /\ Len(a \o rs) = Len(a) + Len(rs)
    BY <2>1, ConcatProperties
  <2>3. QED BY <2>1, <2>2
<1>6. /\ DOMAIN ms = 1 .. n /\ DOMAIN new = 1 .. n + 1 + k
      /\ \A p \in 1 .. n : new[p] = ms[p]
      /\ new[n + 1] = Calls(calls)
      /\ \A i \in 1 .. k : new[n + 1 + i] = Result(i, how[i])
  <2>1. DOMAIN ms = 1 .. n /\ DOMAIN new = 1 .. n + 1 + k
    BY <1>1, <1>5 DEF Messages
  <2>2. \A p \in 1 .. n + 1 : new[p] = Append(ms, Calls(calls))[p]
    BY <1>1, <1>3, <1>4
  <2>3. \A p \in 1 .. n : new[p] = ms[p]
    BY <1>1, <2>2, MessageTypes DEF Messages
  <2>4. new[n + 1] = Calls(calls)
    BY <1>1, <2>2, MessageTypes DEF Messages
  <2>5. ASSUME NEW i \in 1 .. k PROVE new[n + 1 + i] = Result(i, how[i])
    <3>1. new[n + 1 + i] = rs[i]
      BY <1>1, <1>3, <1>4
    <3>2. QED BY <1>1, <3>1
  <2>6. QED BY <2>1, <2>3, <2>4, <2>5
<1> HIDE DEF new, rs
<1>7. Calls(calls).role = "calls" /\ Calls(calls).calls = calls
  BY DEF Calls
<1>8. \A i \in 1 .. k : Result(i, how[i]).role = "tool" /\ Result(i, how[i]).call = i
                        /\ Result(i, how[i]).how = how[i]
  BY DEF Result
<1>9. \A p \in DOMAIN new : p \in 1 .. n \/ p = n + 1 \/ p - (n + 1) \in 1 .. k
  BY <1>1, <1>6
<1>10. ASSUME NEW p \in DOMAIN new, new[p].role = "calls", NEW i \in DOMAIN new[p].calls
       PROVE  /\ p + i \in DOMAIN new /\ new[p + i].role = "tool" /\ new[p + i].call = i
              /\ new[p + i].how = "malformed" <=> new[p].calls[i] = "malformed"
  <2>1. CASE p \in 1 .. n
    <3>1. /\ p + i \in DOMAIN ms /\ ms[p + i].role = "tool" /\ ms[p + i].call = i
          /\ ms[p + i].how = "malformed" <=> ms[p].calls[i] = "malformed"
      BY <1>6, <1>10, <2>1 DEF WellFormed
    <3>2. new[p] = ms[p] /\ new[p + i] = ms[p + i] /\ p + i \in DOMAIN new
      BY <1>1, <1>6, <2>1, <3>1
    <3>3. QED BY <3>1, <3>2
  <2>2. CASE p = n + 1
    <3>1. i \in 1 .. k /\ new[p + i] = Result(i, how[i]) /\ new[p].calls[i] = calls[i]
      BY <1>1, <1>6, <1>7, <1>10, <2>2
    <3>2. p + i \in DOMAIN new
      BY <1>1, <1>6, <2>2, <3>1
    <3>3. QED BY <1>1, <1>8, <3>1, <3>2
  <2>3. CASE p - (n + 1) \in 1 .. k
    <3>1. new[p] = Result(p - (n + 1), how[p - (n + 1)])
      BY <1>1, <1>6, <2>3
    <3>2. QED BY <1>8, <1>10, <2>3, <3>1
  <2>4. QED BY <1>9, <2>1, <2>2, <2>3
<1>11. ASSUME NEW q \in DOMAIN new, new[q].role = "tool"
       PROVE  \E p \in 1 .. q - 1 : new[p].role = "calls" /\ q - p \in DOMAIN new[p].calls
  <2>1. CASE q \in 1 .. n
    <3>1. PICK p \in 1 .. q - 1 : ms[p].role = "calls" /\ q - p \in DOMAIN ms[p].calls
      BY <1>6, <1>11, <2>1 DEF WellFormed
    <3>2. new[p] = ms[p]
      BY <1>1, <1>6, <2>1, <3>1
    <3>3. QED BY <3>1, <3>2
  <2>2. CASE q = n + 1
    BY <1>6, <1>7, <1>11, <2>2
  <2>3. CASE q - (n + 1) \in 1 .. k
    <3>1. n + 1 \in 1 .. q - 1 /\ new[n + 1].role = "calls" /\ q - (n + 1) \in DOMAIN new[n + 1].calls
      BY <1>1, <1>6, <1>7, <2>3
    <3>2. QED BY <3>1
  <2>4. QED BY <1>9, <2>1, <2>2, <2>3
<1>12. QED BY <1>5, <1>10, <1>11 DEF WellFormed, Messages, new, rs

-----------------------------------------------------------------------------
(***************************************************************************)
(* The invariant: whatever is sent is well formed; in a round of tools the *)
(* request is a well formed one with that round at its end.                *)
(***************************************************************************)
Lists == messages \in Messages /\ (pending # None => pending \in Messages)

AtRest ==
  pc = "idle" => /\ messages = <<>> /\ rounds = 0 /\ malformedRounds = 0
                 /\ late = 0 /\ ~barged

Sendable ==
  /\ pc # "tools" => WellFormed(messages)
  /\ pending # None => WellFormed(pending)

\* The round of calls that was added to ms, as far as it has been run.
Underway(ms, calls) ==
  /\ messages = Append(ms, Calls(calls)) /\ WellFormed(ms)
  /\ round \in [DOMAIN calls -> Outcomes \cup {"waiting", "running"}]
  /\ executed \in [DOMAIN calls -> Nat]
  /\ \A i \in DOMAIN calls :
       /\ round[i] \in Outcomes => (round[i] = "malformed" <=> calls[i] = "malformed")
       /\ executed[i] = IF round[i] = "answered" THEN 1 ELSE 0

RoundOpen ==
  /\ pc = "tools" => offered /\ \E ms \in Messages, calls \in Rounds : Underway(ms, calls)
  /\ pc # "tools" => round = <<>> /\ executed = <<>>

InBudget ==
  /\ offered => malformedRounds <= MalformedRetries
  /\ RoundsOf(messages) <= MaxToolRounds * continuations + rounds
  /\ pending # None => RoundsOf(pending) <= MaxToolRounds * (continuations + 1)
  /\ late <= 1
  /\ late = 1 => pc = "tools" /\ barged

Inv == TypeOK /\ Lists /\ AtRest /\ Sendable /\ RoundOpen /\ InBudget

LEMMA Budget ==
  /\ MaxToolRounds \in Nat /\ ToolRetries \in Nat /\ MalformedRetries \in Nat
  /\ MaxContinuations \in Nat /\ MaxDeltas \in Nat /\ MaxReplies \in Nat
  /\ \A c \in Nat : /\ MaxToolRounds * c \in Nat
                    /\ MaxToolRounds * (c + 1) = MaxToolRounds * c + MaxToolRounds
<1>1. MaxToolRounds \in Nat
  BY AgentAssumption
<1>2. ASSUME NEW c \in Nat
      PROVE  /\ MaxToolRounds * c \in Nat
             /\ MaxToolRounds * (c + 1) = MaxToolRounds * c + MaxToolRounds
  BY <1>1, SMT
<1>3. QED BY <1>2, AgentAssumption

\* The first two values of the bounded counters.
LEMMA Zero ==
  /\ 0 \in 0 .. ToolRetries /\ 0 \in 0 .. MaxDeltas /\ 0 \in 0 .. MaxToolRounds
  /\ 0 \in 0 .. MalformedRetries + 1 /\ 0 \in 0 .. MaxContinuations /\ 0 \in Nat
BY Budget

LEMMA Empty ==
  <<>> \in Messages /\ WellFormed(<<>>) /\ RoundsOf(<<>>) = 0
<1>1. <<>> \in Messages
  BY DEF Messages
<1>2. {p \in DOMAIN <<>> : <<>>[p].role = "calls"} = {}
  OBVIOUS
<1>3. RoundsOf(<<>>) = 0
  BY <1>2, FS_EmptySet DEF RoundsOf
<1>4. QED BY <1>1, <1>3 DEF WellFormed

LEMMA RangeOfMessages == \A ms \in Messages : Range(ms) \subseteq Message
BY DEF Messages, Range

\* The round that is underway is the last message.
LEMMA LastIsRound ==
  ASSUME NEW ms \in Messages, NEW calls \in Rounds
  PROVE  Last(Append(ms, Calls(calls))).calls = calls
<1>1. Calls(calls) \in Message
  BY MessageTypes
<1>2. Len(Append(ms, Calls(calls))) = Len(ms) + 1
  BY <1>1 DEF Messages
<1>3. Last(Append(ms, Calls(calls))) = Calls(calls)
  BY <1>1, <1>2, AppendFacts DEF Last
<1>4. QED BY <1>3, Roles

-----------------------------------------------------------------------------
\* A reply that leaves a sound task behind, or none.
LEMMA LeaveStep ==
  ASSUME Inv, NEW f, Leave(f),
         f # None => /\ f \in Messages /\ WellFormed(f)
                     /\ RoundsOf(f) <= MaxToolRounds * (continuations + 1)
  PROVE  Inv'
<1> USE DEF Leave
<1>1. continuations' \in 0 .. MaxContinuations /\ continuations \in Nat
  BY Budget DEF Inv, TypeOK
<1>2. Lists'
  BY Empty DEF Lists
<1>3. TypeOK'
  <2>1. Range(messages') \subseteq Message
    BY Empty, RangeOfMessages
  <2>2. pending' # None => Range(pending') \subseteq Message
    BY RangeOfMessages
  <2>3. Range(executed') \subseteq Nat /\ DOMAIN executed' = DOMAIN round'
    BY DEF Range
  <2>4. \A i \in DOMAIN round' : round'[i] \in Outcomes \cup {"waiting", "running"}
    OBVIOUS
  <2>5. QED BY <1>1, <2>1, <2>2, <2>3, <2>4, Zero DEF Inv, TypeOK
<1>4. AtRest' /\ Sendable' /\ RoundOpen'
  BY Empty DEF AtRest, Sendable, RoundOpen
<1>5. InBudget'
  <2>1. RoundsOf(messages') <= MaxToolRounds * continuations' + rounds'
    BY <1>1, Empty, Budget
  <2>2. pending' # None => RoundsOf(pending') <= MaxToolRounds * (continuations' + 1)
    OBVIOUS
  <2>3. QED BY <2>1, <2>2, Budget DEF InBudget
<1>6. QED BY <1>2, <1>3, <1>4, <1>5 DEF Inv

\* A request that is sound and within what is left of the budgets.
Requested ==
  /\ pc = "send" /\ attempt = 0 /\ deltas = 0 /\ said = FALSE /\ offered \in BOOLEAN
  /\ messages \in Messages /\ WellFormed(messages)
  /\ round = <<>> /\ executed = <<>> /\ late = 0 /\ barged \in BOOLEAN
  /\ rounds \in 0 .. MaxToolRounds /\ malformedRounds \in 0 .. MalformedRetries + 1
  /\ continuations \in 0 .. MaxContinuations /\ replies \in 0 .. MaxReplies
  /\ offered => malformedRounds <= MalformedRetries
  /\ RoundsOf(messages) <= MaxToolRounds * continuations + rounds
  /\ pending # None =>
       /\ pending \in Messages /\ WellFormed(pending)
       /\ RoundsOf(pending) <= MaxToolRounds * (continuations + 1)

LEMMA RequestStep == Requested => Inv
<1> SUFFICES ASSUME Requested PROVE Inv
  OBVIOUS
<1>1. TypeOK
  <2>1. Range(messages) \subseteq Message
    BY RangeOfMessages DEF Requested
  <2>2. pending # None => Range(pending) \subseteq Message
    BY RangeOfMessages DEF Requested
  <2>3. Range(executed) \subseteq Nat /\ DOMAIN executed = DOMAIN round
    BY DEF Range, Requested
  <2>4. \A i \in DOMAIN round : round[i] \in Outcomes \cup {"waiting", "running"}
    BY DEF Requested
  <2>5. QED BY <2>1, <2>2, <2>3, <2>4, Zero DEF TypeOK, Requested
<1>2. Lists /\ AtRest /\ Sendable /\ RoundOpen
  BY DEF Requested, Lists, AtRest, Sendable, RoundOpen
<1>3. InBudget
  BY DEF Requested, InBudget
<1>4. QED BY <1>1, <1>2, <1>3 DEF Inv

\* A step that only moves the thread between request and stream, or counts.
Quiet ==
  /\ UNCHANGED <<messages, offered, budget, tools, task, late>>
  /\ pc # "tools" => pc' # "tools"
  /\ pc = "tools" => pc' = "tools" /\ (barged => barged')
  /\ pc' # "idle" \/ (pc = "idle" /\ barged' = barged)

LEMMA QuietStep ==
  ASSUME Inv, TypeOK', Quiet
  PROVE  Inv'
<1> USE DEF Quiet, budget, tools, task
<1>1. Lists' /\ AtRest' /\ Sendable' /\ InBudget'
  BY DEF Inv, Lists, AtRest, Sendable, InBudget
<1>2. RoundOpen'
  BY DEF Inv, RoundOpen, Underway
<1>3. QED BY <1>1, <1>2 DEF Inv

\* The counters of a thread that is not in a round of tools.
LEMMA NoRound ==
  ASSUME Inv, pc # "tools"
  PROVE  round = <<>> /\ executed = <<>> /\ late = 0
<1>1. round = <<>> /\ executed = <<>>
  BY DEF Inv, RoundOpen
<1>2. late \in Nat /\ late <= 1 /\ late # 1
  BY DEF Inv, TypeOK, InBudget
<1>3. QED BY <1>1, <1>2

LEMMA UtteranceStep ==
  ASSUME Inv, Utterance
  PROVE  Inv'
<1>1. CASE Ask
  <2>1. /\ pc = "idle" /\ replies < MaxReplies /\ replies' = replies + 1
        /\ UNCHANGED <<rounds, malformedRounds, round, executed, barged, late>>
        /\ Request(<<User>>, TRUE) /\ pending' = None /\ continuations' = 0
    BY <1>1 DEF Ask, StartReply, budget, tools
  <2>2. /\ rounds = 0 /\ malformedRounds = 0 /\ ~barged
        /\ round = <<>> /\ executed = <<>> /\ late = 0
    BY <2>1, NoRound DEF Inv, AtRest
  <2>3. <<User>> = Append(<<>>, User)
    OBVIOUS
  <2>4. <<User>> \in Messages /\ WellFormed(<<User>>)
    BY <2>3, Empty, AppendPlain
  <2>5. RoundsOf(<<User>>) = 0
    <3>1. RoundsOf(Append(<<>>, User)) = RoundsOf(<<>>) + IF User.role = "calls" THEN 1 ELSE 0
      BY Empty, RoundsAppend, MessageTypes
    <3>2. User.role # "calls"
      BY Roles
    <3>3. QED BY <2>3, <3>1, <3>2, Empty
  <2>6. replies' \in 0 .. MaxReplies
    <3>1. replies \in 0 .. MaxReplies
      BY DEF Inv, TypeOK
    <3>2. QED BY <2>1, <3>1, Budget
  <2>7. RoundsOf(<<User>>) <= MaxToolRounds * continuations' + rounds'
    BY <2>1, <2>2, <2>5, Budget
  <2>8. Requested'
    <3>1. /\ messages' = <<User>> /\ offered' = TRUE /\ pc' = "send" /\ attempt' = 0
          /\ deltas' = 0 /\ said' = FALSE
      BY <2>1 DEF Request
    <3>2. messages' \in Messages /\ WellFormed(messages')
      BY <2>4, <3>1, Zenon
    <3>3. RoundsOf(messages') <= MaxToolRounds * continuations' + rounds'
      BY <2>7, <3>1
    <3>4. /\ rounds' \in 0 .. MaxToolRounds /\ malformedRounds' \in 0 .. MalformedRetries + 1
          /\ malformedRounds' <= MalformedRetries /\ continuations' \in 0 .. MaxContinuations
      BY <2>1, <2>2, Zero, Budget
    <3>5. round' = <<>> /\ executed' = <<>> /\ late' = 0 /\ barged' \in BOOLEAN
      <4>1. barged \in BOOLEAN
        BY DEF Inv, TypeOK
      <4>2. barged' \in BOOLEAN
        BY <2>1, <4>1, Zenon
      <4>3. QED BY <2>1, <2>2, <4>2
    <3>6. QED BY <2>1, <2>6, <3>1, <3>2, <3>3, <3>4, <3>5 DEF Requested
  <2>9. QED BY <2>8, RequestStep, PTL
<1>2. CASE Resume
  <2>1. /\ pc = "idle" /\ replies < MaxReplies /\ replies' = replies + 1
        /\ UNCHANGED <<rounds, malformedRounds, round, executed, barged, late, pending>>
        /\ Request(Append(pending, Continue), TRUE)
        /\ pending # None /\ continuations < MaxContinuations
        /\ continuations' = continuations + 1
    BY <1>2 DEF Resume, StartReply, budget, tools
  <2>2. /\ rounds = 0 /\ malformedRounds = 0 /\ ~barged
        /\ round = <<>> /\ executed = <<>> /\ late = 0
    BY <2>1, NoRound DEF Inv, AtRest
  <2>3. /\ pending \in Messages /\ WellFormed(pending) /\ RoundsOf(pending) \in Nat
        /\ RoundsOf(pending) <= MaxToolRounds * (continuations + 1)
    BY <2>1, RoundsCount DEF Inv, Lists, Sendable, InBudget
  <2>4. Append(pending, Continue) \in Messages /\ WellFormed(Append(pending, Continue))
    BY <2>3, AppendPlain
  <2>5. RoundsOf(Append(pending, Continue)) = RoundsOf(pending)
    BY <2>3, RoundsAppend, MessageTypes, Roles
  <2>6. replies' \in 0 .. MaxReplies
    BY <2>1, Budget DEF Inv, TypeOK
  <2>7. continuations \in Nat /\ continuations' \in 0 .. MaxContinuations
    BY <2>1, Budget DEF Inv, TypeOK
  <2>8. RoundsOf(Append(pending, Continue)) <= MaxToolRounds * continuations' + rounds'
    BY <2>1, <2>2, <2>3, <2>5, <2>7, Budget
  <2>9. RoundsOf(pending') <= MaxToolRounds * (continuations' + 1)
    BY <2>1, <2>3, <2>7, Budget
  <2>10. Requested'
    <3>1. /\ messages' = Append(pending, Continue) /\ offered' = TRUE /\ pc' = "send"
          /\ attempt' = 0 /\ deltas' = 0 /\ said' = FALSE
      BY <2>1 DEF Request
    <3>2. messages' \in Messages /\ WellFormed(messages')
      BY <2>4, <3>1, Zenon
    <3>3. RoundsOf(messages') <= MaxToolRounds * continuations' + rounds'
      BY <2>8, <3>1
    <3>4. /\ rounds' \in 0 .. MaxToolRounds /\ malformedRounds' \in 0 .. MalformedRetries + 1
          /\ malformedRounds' <= MalformedRetries
      BY <2>1, <2>2, Zero, Budget
    <3>5. round' = <<>> /\ executed' = <<>> /\ late' = 0 /\ barged' \in BOOLEAN
      <4>1. barged \in BOOLEAN
        BY DEF Inv, TypeOK
      <4>2. barged' \in BOOLEAN
        BY <2>1, <4>1, Zenon
      <4>3. QED BY <2>1, <2>2, <4>2
    <3>6. pending' \in Messages /\ WellFormed(pending')
      BY <2>1, <2>3
    <3>7. QED BY <2>6, <2>7, <2>9, <3>1, <3>2, <3>3, <3>4, <3>5, <3>6 DEF Requested
  <2>11. QED BY <2>10, RequestStep, PTL
<1>3. CASE Refuse
  <2>1. /\ pc = "idle" /\ pending' = None /\ continuations' = 0
        /\ UNCHANGED <<pc, messages, offered, attempt, deltas, said, rounds, malformedRounds,
                       round, executed, barged, replies, late>>
    BY <1>3 DEF Refuse, completion, budget, tools
  <2>2. messages = <<>> /\ rounds = 0
    BY <2>1 DEF Inv, AtRest
  <2>3. TypeOK'
    BY <2>1, Zero DEF Inv, TypeOK
  <2>4. Lists' /\ AtRest' /\ Sendable' /\ RoundOpen'
    BY <2>1 DEF Inv, Lists, AtRest, Sendable, RoundOpen
  <2>5. RoundsOf(messages') <= MaxToolRounds * continuations' + rounds'
    BY <2>1, <2>2, Empty, Budget
  <2>6. InBudget'
    BY <2>1, <2>5 DEF Inv, InBudget
  <2>7. QED BY <2>3, <2>4, <2>6 DEF Inv
<1>4. CASE BargeIn
  <2>1. TypeOK'
    BY <1>4 DEF BargeIn, Inv, TypeOK, completion, budget, tools, task
  <2>2. Quiet
    BY <1>4 DEF BargeIn, completion, Quiet
  <2>3. QED BY <2>1, <2>2, QuietStep
<1>5. QED BY <1>1, <1>2, <1>3, <1>4 DEF Utterance

LEMMA CompletionStep ==
  ASSUME Inv, Completion
  PROVE  Inv'
<1>1. CASE Post \/ Connected
  <2>1. TypeOK'
    BY <1>1 DEF Post, Connected, Inv, TypeOK, completion, budget, tools, task
  <2>2. Quiet
    BY <1>1 DEF Post, Connected, completion, Quiet
  <2>3. QED BY <2>1, <2>2, QuietStep
<1>2. CASE Retry
  <2>1. attempt' \in 0 .. ToolRetries
    BY <1>2, Budget DEF Retry, NextAttempt, Inv, TypeOK
  <2>2. TypeOK'
    BY <1>2, <2>1 DEF Retry, Inv, TypeOK, budget, tools, task
  <2>3. Quiet
    BY <1>2 DEF Retry, Quiet
  <2>4. QED BY <2>2, <2>3, QuietStep
<1>3. CASE Fail
  BY <1>3, LeaveStep DEF Fail
<1>4. CASE Delta /\ barged
  BY <1>4, LeaveStep DEF Delta
<1>5. CASE Delta /\ ~barged
  <2>1. /\ pc = "stream" /\ deltas < MaxDeltas /\ deltas' = deltas + 1 /\ said' \in BOOLEAN
        /\ UNCHANGED <<pc, messages, offered, attempt, budget, tools, task, barged,
                       replies, late>>
    BY <1>5 DEF Delta, Inv, TypeOK
  <2>2. deltas' \in 0 .. MaxDeltas
    BY <2>1, Budget DEF Inv, TypeOK
  <2>3. TypeOK'
    BY <2>1, <2>2 DEF Inv, TypeOK, budget, tools, task
  <2>4. Quiet
    BY <2>1 DEF Quiet
  <2>5. QED BY <2>3, <2>4, QuietStep
<1>6. QED BY <1>1, <1>2, <1>3, <1>4, <1>5 DEF Completion

-----------------------------------------------------------------------------
LEMMA BeginRoundStep ==
  ASSUME Inv, BeginRound
  PROVE  Inv'
<1>1. /\ pc = "stream" /\ offered /\ rounds < MaxToolRounds /\ rounds' = rounds + 1
      /\ late' = (IF barged THEN late + 1 ELSE late) /\ pc' = "tools"
      /\ UNCHANGED <<offered, attempt, deltas, said, malformedRounds, pending,
                     continuations, barged, replies>>
  <2>1. rounds \in Nat /\ MaxToolRounds \in Nat
    BY Budget DEF Inv, TypeOK
  <2>2. QED BY <2>1 DEF BeginRound, Spent, completion, task
<1>2. PICK calls \in Rounds :
        /\ messages' = Append(messages, Calls(calls))
        /\ round' = [i \in DOMAIN calls |-> "waiting"]
        /\ executed' = [i \in DOMAIN calls |-> 0]
  BY DEF BeginRound
<1>3. messages \in Messages /\ WellFormed(messages) /\ late = 0
  BY <1>1, NoRound DEF Inv, Lists, Sendable
<1>4. Calls(calls) \in Message
  BY MessageTypes
<1>5. messages' \in Messages
  BY <1>2, <1>3, <1>4, AppendFacts
<1>6. TypeOK'
  <2>1. Range(messages') \subseteq Message
    BY <1>5, RangeOfMessages
  <2>2. Range(executed') \subseteq Nat /\ DOMAIN executed' = DOMAIN round'
    BY <1>2 DEF Range
  <2>3. \A i \in DOMAIN round' : round'[i] \in Outcomes \cup {"waiting", "running"}
    BY <1>2
  <2>4. rounds' \in 0 .. MaxToolRounds /\ late' \in Nat
    BY <1>1, <1>3, Budget DEF Inv, TypeOK
  <2>5. QED BY <1>1, <2>1, <2>2, <2>3, <2>4 DEF Inv, TypeOK
<1>7. Lists' /\ AtRest' /\ Sendable'
  BY <1>1, <1>5 DEF Inv, Lists, AtRest, Sendable
<1>8. RoundOpen'
  <2>1. /\ round' \in [DOMAIN calls -> Outcomes \cup {"waiting", "running"}]
        /\ executed' \in [DOMAIN calls -> Nat]
        /\ \A i \in DOMAIN calls : round'[i] = "waiting" /\ executed'[i] = 0
    BY <1>2
  <2>2. "waiting" \notin Outcomes /\ "waiting" # "answered"
    BY DEF Outcomes
  <2>3. PICK ms \in Messages : ms = messages
    BY <1>3
  <2>4. Underway(ms, calls)'
    BY <1>2, <1>3, <2>1, <2>2, <2>3 DEF Underway
  <2>5. QED BY <1>1, <2>3, <2>4 DEF RoundOpen
<1>9. InBudget'
  <2>1. RoundsOf(messages') = RoundsOf(messages) + 1
    BY <1>2, <1>3, <1>4, RoundsAppend, Roles
  <2>2. RoundsOf(messages') <= MaxToolRounds * continuations' + rounds'
    <3>1. RoundsOf(messages) <= MaxToolRounds * continuations + rounds
      BY DEF Inv, InBudget
    <3>2. RoundsOf(messages) \in Nat /\ MaxToolRounds * continuations \in Nat /\ rounds \in Nat
      <4>1. continuations \in Nat /\ rounds \in Nat
        BY Budget DEF Inv, TypeOK
      <4>2. MaxToolRounds * continuations \in Nat
        BY <4>1, Budget
      <4>3. QED BY <1>3, <4>1, <4>2, RoundsCount
    <3>3. QED BY <1>1, <2>1, <3>1, <3>2
  <2>3. late' <= 1 /\ (late' = 1 => barged')
    BY <1>1, <1>3
  <2>4. QED BY <1>1, <2>2, <2>3 DEF Inv, InBudget
<1>10. QED BY <1>6, <1>7, <1>8, <1>9 DEF Inv

\* The round in progress, and what the last message says of it.
LEMMA OpenRound ==
  ASSUME Inv, pc = "tools"
  PROVE  \E ms \in Messages, calls \in Rounds :
           Underway(ms, calls) /\ Last(messages).calls = calls
<1>1. PICK ms \in Messages, calls \in Rounds : Underway(ms, calls)
  BY DEF Inv, RoundOpen
<1>2. messages = Append(ms, Calls(calls))
  BY <1>1 DEF Underway
<1>3. Last(messages).calls = calls
  BY <1>2, LastIsRound
<1>4. QED BY <1>1, <1>3

LEMMA StartCallStep ==
  ASSUME Inv, StartCall
  PROVE  Inv'
<1>1. pc = "tools" /\ UNCHANGED <<pc, messages, offered, attempt, deltas, said, rounds,
        malformedRounds, executed, pending, continuations, barged, replies, late>>
  BY DEF StartCall, completion, budget, task
<1>2. PICK j \in DOMAIN round : round[j] = "waiting" /\ round' = [round EXCEPT ![j] = "running"]
  BY DEF StartCall
<1>3. PICK ms \in Messages, calls \in Rounds : Underway(ms, calls)
  BY <1>1, OpenRound
<1>4. round \in [DOMAIN calls -> Outcomes \cup {"waiting", "running"}]
  BY <1>3 DEF Underway
<1>5. /\ round' \in [DOMAIN calls -> Outcomes \cup {"waiting", "running"}]
      /\ \A i \in DOMAIN calls : round'[i] = IF i = j THEN "running" ELSE round[i]
      /\ DOMAIN round' = DOMAIN round
  BY <1>2, <1>4
<1>6. TypeOK'
  BY <1>1, <1>4, <1>5 DEF Inv, TypeOK
<1>7. Underway(ms, calls)'
  BY <1>1, <1>2, <1>3, <1>5 DEF Underway, Outcomes
<1>8. Lists' /\ AtRest' /\ Sendable' /\ InBudget'
  BY <1>1 DEF Inv, Lists, AtRest, Sendable, InBudget
<1>9. RoundOpen'
  BY <1>1, <1>7 DEF Inv, RoundOpen
<1>10. QED BY <1>6, <1>8, <1>9 DEF Inv

LEMMA FinishCallStep ==
  ASSUME Inv, NEW j, j \in DOMAIN round, FinishCall(j)
  PROVE  Inv'
<1>1. pc = "tools" /\ round[j] = "running"
      /\ UNCHANGED <<pc, messages, offered, attempt, deltas, said, rounds,
           malformedRounds, pending, continuations, barged, replies, late>>
      /\ round' = [round EXCEPT ![j] = IF Executes(j) THEN "answered" ELSE "malformed"]
      /\ executed' = [executed EXCEPT ![j] = @ + IF Executes(j) THEN 1 ELSE 0]
  BY DEF FinishCall, completion, budget, task
<1>2. PICK ms \in Messages, calls \in Rounds :
        Underway(ms, calls) /\ Last(messages).calls = calls
  BY <1>1, OpenRound
<1>3. /\ round \in [DOMAIN calls -> Outcomes \cup {"waiting", "running"}]
      /\ executed \in [DOMAIN calls -> Nat] /\ j \in DOMAIN calls
  BY <1>2 DEF Underway
<1>4. executed[j] = 0
  BY <1>1, <1>2, <1>3 DEF Underway
<1>5. Executes(j) <=> calls[j] = "good"
  BY <1>2 DEF Executes
<1>6. calls[j] \in {"good", "malformed"}
  BY <1>3, RoundDomain DEF Arguments
<1>7. /\ round' \in [DOMAIN calls -> Outcomes \cup {"waiting", "running"}]
      /\ \A i \in DOMAIN calls :
           round'[i] = IF i # j THEN round[i] ELSE IF calls[j] = "good" THEN "answered" ELSE "malformed"
      /\ DOMAIN round' = DOMAIN calls
  BY <1>1, <1>3, <1>5 DEF Outcomes
<1>8. /\ executed' \in [DOMAIN calls -> Nat]
      /\ \A i \in DOMAIN calls :
           executed'[i] = IF i # j THEN executed[i] ELSE IF calls[j] = "good" THEN 1 ELSE 0
      /\ DOMAIN executed' = DOMAIN calls
  BY <1>1, <1>3, <1>4, <1>5
<1>9. TypeOK'
  <2>1. Range(executed') \subseteq Nat
    BY <1>8 DEF Range
  <2>2. \A i \in DOMAIN round' : round'[i] \in Outcomes \cup {"waiting", "running"}
    BY <1>7
  <2>3. QED BY <1>1, <1>7, <1>8, <2>1, <2>2 DEF Inv, TypeOK
<1>10. Underway(ms, calls)'
  <2>1. ASSUME NEW i \in DOMAIN calls
        PROVE  /\ round'[i] \in Outcomes => (round'[i] = "malformed" <=> calls[i] = "malformed")
               /\ executed'[i] = IF round'[i] = "answered" THEN 1 ELSE 0
    <3>1. CASE i = j
      BY <1>6, <1>7, <1>8, <3>1
    <3>2. CASE i # j
      BY <1>2, <1>7, <1>8, <3>2 DEF Underway
    <3>3. QED BY <3>1, <3>2
  <2>2. messages' = Append(ms, Calls(calls)) /\ WellFormed(ms)
    BY <1>1, <1>2 DEF Underway
  <2>3. QED BY <1>7, <1>8, <2>1, <2>2 DEF Underway
<1>11. Lists' /\ AtRest' /\ Sendable' /\ InBudget'
  BY <1>1 DEF Inv, Lists, AtRest, Sendable, InBudget
<1>12. RoundOpen'
  BY <1>1, <1>10 DEF Inv, RoundOpen
<1>13. QED BY <1>9, <1>11, <1>12 DEF Inv

\* The results of the round close it: the list is well formed again, with as many
\* rounds as before.
LEMMA RoundCloses ==
  ASSUME Inv, pc = "tools", \A i \in DOMAIN round : round[i] \in Outcomes
  PROVE  /\ messages \o Results \in Messages /\ WellFormed(messages \o Results)
         /\ RoundsOf(messages \o Results) = RoundsOf(messages)
<1>1. PICK ms \in Messages, calls \in Rounds : Underway(ms, calls)
  BY OpenRound
<1>2. /\ messages = Append(ms, Calls(calls)) /\ WellFormed(ms)
      /\ DOMAIN round = DOMAIN calls /\ round \in [DOMAIN calls -> Outcomes]
      /\ \A i \in DOMAIN calls : round[i] = "malformed" <=> calls[i] = "malformed"
  BY <1>1 DEF Underway
<1>3. Results = [i \in DOMAIN calls |-> Result(i, round[i])]
  BY <1>2 DEF Results
<1>4. messages \o Results \in Messages /\ WellFormed(messages \o Results)
  BY <1>2, <1>3, AppendRound
<1>5. Results \in Messages /\ \A i \in DOMAIN Results : Results[i].role = "tool"
  <2>1. DOMAIN calls = 1 .. Len(calls) /\ Len(calls) \in 1 .. MaxCalls /\ Len(calls) \in Nat
    BY RoundDomain
  <2>2. DOMAIN calls \subseteq 1 .. MaxCalls
    BY <2>1, AgentAssumption
  <2>3. \A i \in DOMAIN calls : Result(i, round[i]) \in Message
    BY <1>2, <2>2, MessageTypes
  <2>4. Results \in [1 .. Len(calls) -> Message]
    BY <1>3, <2>1, <2>3
  <2>5. Results \in Messages
    BY <2>1, <2>4 DEF Messages
  <2>6. \A i \in DOMAIN Results : Results[i].role = "tool"
    BY <1>2, <1>3, <2>2, Roles
  <2>7. QED BY <2>5, <2>6
<1>6. messages \in Messages
  BY DEF Inv, Lists
<1>7. QED BY <1>4, <1>5, <1>6, RoundsResults

\* The task the last answer leaves, and the exchange with the final prompt, are as
\* sound as the request they extend.
LEMMA PlainEnd ==
  ASSUME NEW ms \in Messages, WellFormed(ms), NEW m \in {FinalPrompt, Answer}
  PROVE  /\ Append(ms, m) \in Messages /\ WellFormed(Append(ms, m))
         /\ RoundsOf(Append(ms, m)) = RoundsOf(ms)
<1>1. Append(ms, m) \in Messages /\ WellFormed(Append(ms, m))
  BY AppendPlain
<1>2. m.role # "calls" /\ m \in Message
  BY Roles, MessageTypes
<1>3. RoundsOf(Append(ms, m)) = RoundsOf(ms) + 0
  BY <1>2, RoundsAppend
<1>4. RoundsOf(ms) \in Nat
  BY RoundsCount
<1>5. RoundsOf(Append(ms, m)) = RoundsOf(ms)
  BY <1>3, <1>4
<1>6. QED BY <1>1, <1>5

\* What every request of a reply in progress leaves as it is.
LEMMA Kept ==
  ASSUME Inv
  PROVE  /\ barged \in BOOLEAN /\ replies \in 0 .. MaxReplies /\ rounds \in 0 .. MaxToolRounds
         /\ malformedRounds \in 0 .. MalformedRetries + 1 /\ continuations \in 0 .. MaxContinuations
         /\ pending # None =>
              /\ pending \in Messages /\ WellFormed(pending)
              /\ RoundsOf(pending) <= MaxToolRounds * (continuations + 1)
BY DEF Inv, TypeOK, Lists, Sendable, InBudget

LEMMA OverBudgetStep ==
  ASSUME Inv, OverBudget
  PROVE  Inv'
<1>1. /\ pc = "stream" /\ messages' = Append(messages, FinalPrompt) /\ offered' = FALSE
      /\ pc' = "send" /\ attempt' = 0 /\ deltas' = 0 /\ said' = FALSE
      /\ UNCHANGED <<rounds, malformedRounds, round, executed, pending, continuations,
                     barged, replies, late>>
  BY DEF OverBudget, Request, budget, tools, task
<1>2. messages \in Messages /\ WellFormed(messages)
  BY <1>1 DEF Inv, Lists, Sendable
<1>3. /\ messages' \in Messages /\ WellFormed(messages')
      /\ RoundsOf(messages') = RoundsOf(messages)
  BY <1>1, <1>2, PlainEnd
<1>4. RoundsOf(messages') <= MaxToolRounds * continuations' + rounds'
  BY <1>1, <1>3 DEF Inv, InBudget
<1>5. round' = <<>> /\ executed' = <<>> /\ late' = 0
  BY <1>1, NoRound
<1>6. Requested'
  BY <1>1, <1>3, <1>4, <1>5, Kept DEF Requested
<1>7. QED BY <1>6, RequestStep, PTL

LEMMA FinaliseStep ==
  ASSUME Inv, Finalise
  PROVE  Inv'
<1>1. pc = "stream"
  BY DEF Finalise
<1>2. messages \in Messages /\ WellFormed(messages)
  BY <1>1 DEF Inv, Lists, Sendable
<1>3. /\ Append(messages, Answer) \in Messages /\ WellFormed(Append(messages, Answer))
      /\ RoundsOf(Append(messages, Answer)) = RoundsOf(messages)
  BY <1>2, PlainEnd
<1>4. RoundsOf(messages) <= MaxToolRounds * (continuations + 1)
  <2>1. /\ continuations \in Nat /\ rounds \in Nat /\ rounds <= MaxToolRounds
        /\ RoundsOf(messages) <= MaxToolRounds * continuations + rounds
    BY Budget DEF Inv, TypeOK, InBudget
  <2>2. RoundsOf(messages) \in Nat
    BY <1>2, RoundsCount
  <2>3. QED BY <2>1, <2>2, Budget
<1>5. CASE barged
  BY <1>5, LeaveStep DEF Finalise
<1>6. CASE ~barged /\ said
  BY <1>3, <1>4, <1>6, LeaveStep DEF Finalise
<1>7. CASE ~barged /\ ~said
  BY <1>2, <1>4, <1>7, LeaveStep DEF Finalise
<1>8. QED BY <1>5, <1>6, <1>7

LEMMA EndRoundStep ==
  ASSUME Inv, EndRound
  PROVE  Inv'
<1>1. pc = "tools" /\ \A i \in DOMAIN round : round[i] \in Outcomes
  BY DEF EndRound
<1>2. CASE barged
  BY <1>2, LeaveStep DEF EndRound
<1>3. CASE ~barged
  <2> DEFINE ms == messages \o Results
  <2>1. /\ malformedRounds' = Malformed /\ round' = <<>> /\ executed' = <<>>
        /\ UNCHANGED <<rounds, pending, continuations, barged, replies, late>>
        /\ pc' = "send" /\ attempt' = 0 /\ deltas' = 0 /\ said' = FALSE
        /\ IF Malformed > MalformedRetries
           THEN messages' = Append(ms, FinalPrompt) /\ offered' = FALSE
           ELSE messages' = ms /\ offered' = TRUE
    BY <1>3 DEF EndRound, Request, task
  <2>2. ms \in Messages /\ WellFormed(ms) /\ RoundsOf(ms) = RoundsOf(messages)
    BY <1>1, RoundCloses
  <2>3. /\ Append(ms, FinalPrompt) \in Messages /\ WellFormed(Append(ms, FinalPrompt))
        /\ RoundsOf(Append(ms, FinalPrompt)) = RoundsOf(messages)
    BY <2>2, PlainEnd
  <2>4. late' = 0
    <3>1. late \in Nat /\ late <= 1 /\ (late = 1 => barged)
      BY DEF Inv, TypeOK, InBudget
    <3>2. QED BY <1>3, <2>1, <3>1
  <2>5. Malformed \in 0 .. MalformedRetries + 1
    <3>1. malformedRounds \in Nat /\ malformedRounds <= MalformedRetries
      BY <1>1, Budget DEF Inv, TypeOK, RoundOpen, InBudget
    <3>2. Malformed = malformedRounds + 1 \/ Malformed = 0
      BY DEF Malformed
    <3>3. QED BY <3>1, <3>2, Budget
  <2> HIDE DEF ms
  <2>6. /\ messages' \in Messages /\ WellFormed(messages')
        /\ RoundsOf(messages') = RoundsOf(messages)
    BY <2>1, <2>2, <2>3
  <2>7. /\ offered' \in BOOLEAN /\ (offered' => malformedRounds' <= MalformedRetries)
        /\ malformedRounds' \in 0 .. MalformedRetries + 1
    <3>1. CASE Malformed > MalformedRetries
      BY <2>1, <2>5, <3>1
    <3>2. CASE ~(Malformed > MalformedRetries)
      <4>1. Malformed <= MalformedRetries
        BY <2>5, <3>2, Budget
      <4>2. QED BY <2>1, <2>5, <3>2, <4>1
    <3>3. QED BY <3>1, <3>2
  <2>8. RoundsOf(messages') <= MaxToolRounds * continuations' + rounds'
    BY <2>1, <2>6 DEF Inv, InBudget
  <2>9. Requested'
    BY <2>1, <2>4, <2>6, <2>7, <2>8, Kept DEF Requested
  <2>10. QED BY <2>9, RequestStep, PTL
<1>4. QED BY <1>2, <1>3

-----------------------------------------------------------------------------
LEMMA InitInv == Init => Inv
<1> SUFFICES ASSUME Init PROVE Inv
  OBVIOUS
<1>1. TypeOK
  <2>1. Range(messages) \subseteq Message
    BY Empty, RangeOfMessages DEF Init
  <2>2. Range(executed) \subseteq Nat /\ DOMAIN executed = DOMAIN round
    BY DEF Range, Init
  <2>3. \A i \in DOMAIN round : round[i] \in Outcomes \cup {"waiting", "running"}
    BY DEF Init
  <2>4. replies \in 0 .. MaxReplies
    BY Budget DEF Init
  <2>5. QED BY <2>1, <2>2, <2>3, <2>4, Zero DEF Init, TypeOK
<1>2. Lists /\ AtRest /\ Sendable /\ RoundOpen
  BY Empty DEF Init, Lists, AtRest, Sendable, RoundOpen
<1>3. InBudget
  BY Empty, Budget DEF Init, InBudget
<1>4. QED BY <1>1, <1>2, <1>3 DEF Inv

LEMMA StutterStep ==
  ASSUME Inv, UNCHANGED vars
  PROVE  Inv'
<1>1. TypeOK'
  BY DEF vars, completion, budget, tools, task, Inv, TypeOK
<1>2. Quiet
  BY DEF vars, completion, Quiet
<1>3. QED BY <1>1, <1>2, QuietStep

LEMMA StepInv == Inv /\ [Next]_vars => Inv'
<1> SUFFICES ASSUME Inv, [Next]_vars PROVE Inv'
  OBVIOUS
<1>1. CASE Utterance
  BY <1>1, UtteranceStep
<1>2. CASE Completion
  BY <1>2, CompletionStep
<1>3. CASE Loop
  <2>1. CASE Answered
    BY <2>1, LeaveStep DEF Answered
  <2>2. QED BY <1>3, <2>1, BeginRoundStep, OverBudgetStep, FinaliseStep, EndRoundStep DEF Loop
<1>4. CASE StartCall
  BY <1>4, StartCallStep
<1>5. ASSUME NEW i \in 1 .. MaxCalls, Tool(i) PROVE Inv'
  BY <1>5, FinishCallStep DEF Tool
<1>6. CASE UNCHANGED vars
  BY <1>6, StutterStep
<1>7. QED BY <1>1, <1>2, <1>3, <1>4, <1>5, <1>6 DEF Next

\* The types, with the budgets of the tool rounds, the retries, the malformed rounds and
\* the continuations, hold whatever the model and the server do.
THEOREM AgentTypes == Spec => []TypeOK
<1>1. Inv => TypeOK
  BY DEF Inv
<1>2. QED BY InitInv, StepInv, <1>1, PTL DEF Spec

LEMMA InvExchange == Inv => ExchangeSound
<1> SUFFICES ASSUME Inv PROVE ExchangeSound
  OBVIOUS
<1>1. pc \in {"send", "wait", "stream"} => WellFormed(messages)
  BY DEF Inv, Sendable
<1>2. pending # None => WellFormed(pending)
  BY DEF Inv, Sendable
<1>3. RoundsOf(messages) <= MaxToolRounds * (continuations + 1)
  <2>1. /\ continuations \in Nat /\ rounds \in Nat /\ rounds <= MaxToolRounds
        /\ RoundsOf(messages) <= MaxToolRounds * continuations + rounds
        /\ messages \in Messages
    BY Budget DEF Inv, TypeOK, InBudget, Lists
  <2>2. RoundsOf(messages) \in Nat
    BY <2>1, RoundsCount
  <2>3. QED BY <2>1, <2>2, Budget
<1>4. \A i \in DOMAIN executed :
        executed[i] <= IF Last(messages).calls[i] = "good" THEN 1 ELSE 0
  <2>1. CASE pc = "tools"
    <3>1. PICK ms \in Messages, calls \in Rounds :
            Underway(ms, calls) /\ Last(messages).calls = calls
      BY <2>1, OpenRound
    <3>2. SUFFICES ASSUME NEW i \in DOMAIN calls
                   PROVE  executed[i] <= IF calls[i] = "good" THEN 1 ELSE 0
      BY <3>1 DEF Underway
    <3>3. calls[i] \in {"good", "malformed"}
      BY RoundDomain DEF Arguments
    <3>4. /\ round[i] \in Outcomes => (round[i] = "malformed" <=> calls[i] = "malformed")
          /\ executed[i] = IF round[i] = "answered" THEN 1 ELSE 0
      BY <3>1 DEF Underway
    <3>5. QED BY <3>3, <3>4 DEF Outcomes
  <2>2. CASE pc # "tools"
    BY <2>2 DEF Inv, RoundOpen
  <2>3. QED BY <2>1, <2>2
<1>5. late <= 1
  BY DEF Inv, InBudget
<1>6. QED BY <1>1, <1>2, <1>3, <1>4, <1>5 DEF ExchangeSound

\* Whatever the model calls, the server answers and the user barges in on, the messages
\* of reply() are always an exchange the server accepts, within its budgets, and no
\* tool runs twice for a call or for arguments that are not JSON.
THEOREM ExchangeIsSound == Spec => []ExchangeSound
BY InitInv, StepInv, InvExchange, PTL DEF Spec
=============================================================================
