------------------------- MODULE TokenBudgetProofs -------------------------
(***************************************************************************)
(* The budget's decisions, for chats of any length, any limits and any     *)
(* texts.  That truncate_oldest's loop is minimal is proved for any token  *)
(* counter: the proof never looks inside CountChat.  That what is admitted *)
(* fits, and that two policies agree, needs that a prompt counts as a      *)
(* positive number of tokens.  For a chat this is an induction over its    *)
(* messages, done with the least number at which it would fail.            *)
(***************************************************************************)
EXTENDS TokenBudget, SequenceTheorems, FiniteSetTheorems, TLAPS

-----------------------------------------------------------------------------
(* What is counted.                                                        *)

\* A set of natural numbers has a least element.
LEMMA LeastElement ==
  ASSUME NEW T, T \subseteq Nat, T # {}
  PROVE  \E x \in T : \A y \in T : x <= y
<1> DEFINE Below == {0..x : x \in T}
<1>1. Below \subseteq FiniteSubsetsOf(Nat) /\ Below # {}
  <2>1. \A x \in T : IsFiniteSet(0..x)
    BY FS_Interval
  <2>2. \A x \in T : 0..x \subseteq Nat
    OBVIOUS
  <2>3. \A x \in T : 0..x \in FiniteSubsetsOf(Nat)
    BY <2>1, <2>2 DEF FiniteSubsetsOf
  <2> QED BY <2>3
<1>2. \E U \in Below : \A V \in Below : ~ (<<V, U>> \in StrictSubsetOrdering(Nat))
  BY <1>1, FS_StrictSubsetOrderingWellFounded, WFMin
<1>3. PICK x \in T : \A y \in T : ~ (<<0..y, 0..x>> \in StrictSubsetOrdering(Nat))
  BY <1>2
<1>4. ASSUME NEW y \in T, y < x PROVE FALSE
  <2>1. 0..y \subseteq 0..x /\ x \in 0..x /\ x \notin 0..y
    BY <1>4
  <2>2. <<0..y, 0..x>> \in StrictSubsetOrdering(Nat)
    BY <2>1 DEF StrictSubsetOrdering
  <2> QED BY <1>3, <2>2
<1> QED BY <1>3, <1>4

\* Induction up to n: a set with 0 and with every successor up to n has n.
LEMMA UpTo ==
  ASSUME NEW n \in Nat, NEW G, 0 \in G, \A m \in 1..n : m - 1 \in G => m \in G
  PROVE  n \in G
<1> DEFINE Bad == {m \in 0..n : m \notin G}
<1>1. ASSUME Bad # {} PROVE FALSE
  <2>0. Bad \subseteq Nat
    OBVIOUS
  <2> HIDE DEF Bad
  <2>1. PICK m \in Bad : \A y \in Bad : m <= y
    BY <1>1, <2>0, LeastElement
  <2>2. m \in 1..n /\ m \notin G
    BY DEF Bad
  <2>3. m - 1 \in 0..n /\ m - 1 \notin Bad
    BY <2>0, <2>1, <2>2
  <2> QED BY <2>2, <2>3 DEF Bad
<1> QED BY <1>1

\* What the recursive sum of CountChat is meant to be, for messages of cost w.
SumOf(g, w, n) == g = [i \in 0..n |-> IF i = 0 THEN 0 ELSE g[i - 1] + w[i]]

\* The recursion of CountChat has a solution.
LEMMA SumExists ==
  ASSUME NEW n \in Nat, NEW w \in [1..n -> Nat]
  PROVE  \E g : SumOf(g, w, n)
<1> DEFINE Partial(m, g) ==
             /\ g \in [0..m -> Nat] /\ g[0] = 0
             /\ \A i \in 1..m : g[i] = g[i - 1] + w[i]
           Solved == {m \in 0..n : \E g : Partial(m, g)}
<1>1. 0 \in Solved
  <2>1. Partial(0, [i \in 0..0 |-> 0])
    OBVIOUS
  <2>2. 0 \in 0..n
    OBVIOUS
  <2> HIDE DEF Partial
  <2> QED BY <2>1, <2>2
<1>2. ASSUME NEW m \in 1..n, m - 1 \in Solved PROVE m \in Solved
  <2>1. PICK g : Partial(m - 1, g)
    BY <1>2
  <2> DEFINE h == [i \in 0..m |-> IF i = m THEN g[m - 1] + w[m] ELSE g[i]]
  <2>2. /\ m - 1 \in 0..(m - 1) /\ g[m - 1] \in Nat /\ w[m] \in Nat
        /\ \A i \in 0..m : i # m => i \in 0..(m - 1)
    BY <2>1
  <2>3. h \in [0..m -> Nat] /\ h[0] = 0
    BY <2>1, <2>2
  <2>4. ASSUME NEW i \in 1..m PROVE h[i] = h[i - 1] + w[i]
    <3>1. i - 1 \in 0..m /\ i - 1 # m /\ i \in 0..m /\ h[i - 1] = g[i - 1]
      OBVIOUS
    <3>2. CASE i = m
      BY <3>1, <3>2
    <3>3. CASE i # m
      BY <2>1, <3>1, <3>3
    <3> QED BY <3>2, <3>3
  <2>5. Partial(m, h)
    BY <2>3, <2>4
  <2>6. m \in 0..n
    OBVIOUS
  <2> HIDE DEF Partial, h
  <2> QED BY <2>5, <2>6
<1>s. n \in Solved
  <2> HIDE DEF Solved
  <2> QED BY <1>1, <1>2, UpTo
<1>g. PICK g : Partial(n, g)
  BY <1>s
<1>3. g = [i \in 0..n |-> g[i]]
  BY <1>g
<1>4. \A i \in 0..n : g[i] = IF i = 0 THEN 0 ELSE g[i - 1] + w[i]
  BY <1>g
<1>5. [i \in 0..n |-> g[i]] = [i \in 0..n |-> IF i = 0 THEN 0 ELSE g[i - 1] + w[i]]
  BY <1>4
<1> QED BY <1>3, <1>5 DEF SumOf

\* A solution is a natural number everywhere.
LEMMA SumType ==
  ASSUME NEW n \in Nat, NEW w \in [1..n -> Nat], NEW g, SumOf(g, w, n)
  PROVE  g[n] \in Nat
<1> DEFINE Typed == {m \in 0..n : g[m] \in Nat}
<1>1. \A i \in 0..n : g[i] = IF i = 0 THEN 0 ELSE g[i - 1] + w[i]
  BY DEF SumOf
<1>2. 0 \in Typed
  BY <1>1
<1>3. ASSUME NEW m \in 1..n, m - 1 \in Typed PROVE m \in Typed
  <2>1. g[m] = g[m - 1] + w[m] /\ g[m - 1] \in Nat /\ w[m] \in Nat
    BY <1>1, <1>3
  <2> QED BY <2>1
<1>4. n \in Typed
  <2> HIDE DEF Typed
  <2> QED BY <1>2, <1>3, UpTo
<1> QED BY <1>4

\* A text counts as at least one token, also when it is empty.
LEMMA CountTextPositive ==
  ASSUME NEW text \in Texts
  PROVE  CountText(text) \in Nat \ {0}
BY TextsAssumption DEF CountText, Larger

\* A chat counts as at least two tokens.
LEMMA CountChatPositive ==
  ASSUME NEW chat \in Seq(Message)
  PROVE  CountChat(chat) \in Nat \ {0}
<1> DEFINE n == Len(chat)
           w == [i \in 1..n |-> CountMessage(chat[i])]
           sum[i \in 0..n] == IF i = 0 THEN 0 ELSE sum[i - 1] + CountMessage(chat[i])
<1>1. n \in Nat /\ \A i \in 1..n : chat[i] \in Message
  OBVIOUS
<1>2. \A m \in Message : CountMessage(m) \in Nat
  BY CountTextPositive DEF Message, CountMessage
<1>3. w \in [1..n -> Nat]
  BY <1>1, <1>2
<1>4. \A g : SumOf(g, w, n) <=>
             g = [i \in 0..n |-> IF i = 0 THEN 0 ELSE g[i - 1] + CountMessage(chat[i])]
  <2>1. ASSUME NEW g
        PROVE  [i \in 0..n |-> IF i = 0 THEN 0 ELSE g[i - 1] + w[i]]
                 = [i \in 0..n |-> IF i = 0 THEN 0 ELSE g[i - 1] + CountMessage(chat[i])]
    BY <1>1
  <2> QED BY <2>1 DEF SumOf
<1>5. \E g : g = [i \in 0..n |-> IF i = 0 THEN 0 ELSE g[i - 1] + CountMessage(chat[i])]
  BY <1>1, <1>3, <1>4, SumExists
<1>6. sum = [i \in 0..n |-> IF i = 0 THEN 0 ELSE sum[i - 1] + CountMessage(chat[i])]
  BY <1>5
<1>7. CountChat(chat) = sum[n] + 2
  BY DEF CountChat
<1> HIDE DEF sum
<1>8. SumOf(sum, w, n)
  BY <1>4, <1>6
<1>9. sum[n] \in Nat
  BY <1>1, <1>3, <1>8, SumType
<1> QED BY <1>7, <1>9

-----------------------------------------------------------------------------
(* The loop of truncate_oldest.                                            *)

\* The loop's invariant: a suffix of the request's chat is left.
LoopInv ==
  /\ request \in Request
  /\ truncated \in Nat
  /\ TruncationMinimal

\* A request's chat is a sequence of messages.
LEMMA ChatIsSeq ==
  ASSUME request \in Request, request.prompt.kind = "chat"
  PROVE  request.prompt.chat \in Seq(Message)
<1>1. request.prompt.chat \in Chats
  BY DEF Request, Prompts
<1> QED BY <1>1, BudgetsAssumption DEF Chats

\* truncate_oldest removes the fewest messages that make the chat fit, whatever the chat,
\* the limits and the way tokens are counted.
THEOREM TruncatesMinimally == Spec => []TruncationMinimal
<1>1. Init => LoopInv
  <2> SUFFICES ASSUME Init, Truncates(request)
               PROVE  messages = SubSeq(request.prompt.chat, 1, Len(request.prompt.chat))
                      /\ 0 <= Len(request.prompt.chat)
    BY DEF Init, LoopInv, TruncationMinimal
  <2> QED BY ChatIsSeq, SubSeqFull DEF Init, Truncates
<1>2. LoopInv /\ [Next]_vars => LoopInv'
  <2> SUFFICES ASSUME LoopInv, [Next]_vars PROVE LoopInv'
    OBVIOUS
  <2>1. CASE UNCHANGED <<request, messages, truncated>>
    BY <2>1 DEF LoopInv, TruncationMinimal, Truncates, TooLong, Requested
  <2>2. CASE Truncate
    <3> DEFINE chat == request.prompt.chat
    <3>1. chat \in Seq(Message) /\ Truncates(request)
      BY <2>2, ChatIsSeq DEF Truncate, Truncates, LoopInv
    <3>2. /\ truncated \in 0..Len(chat) /\ messages = SubSeq(chat, truncated + 1, Len(chat))
          /\ messages # <<>>
      BY <2>2, <3>1 DEF LoopInv, TruncationMinimal, Truncate
    <3>3. truncated < Len(chat)
      BY <3>1, <3>2, SubSeqEmpty
    <3>4. messages' = SubSeq(chat, truncated + 2, Len(chat))
      <4>1. Tail(SubSeq(chat, truncated + 1, Len(chat))) = SubSeq(chat, truncated + 2, Len(chat))
        BY <3>1, <3>2, <3>3, HeadTailOfSubSeq
      <4> QED BY <2>2, <3>2, <4>1 DEF Truncate
    <3>5. /\ request' = request /\ truncated' = truncated + 1
          /\ TooLong(SubSeq(chat, truncated + 1, Len(chat)))
      BY <2>2, <3>2 DEF Truncate
    <3>6. request' \in Request /\ truncated' \in Nat
      BY <3>2, <3>5 DEF LoopInv
    <3>7. TruncationMinimal'
      BY <3>2, <3>3, <3>4, <3>5 DEF TruncationMinimal, TooLong, Requested
    <3> QED BY <3>6, <3>7 DEF LoopInv
  <2> QED BY <2>1, <2>2 DEF Next, DecideAtOnce, DecideTruncated, vars
<1>3. LoopInv => TruncationMinimal
  BY DEF LoopInv
<1> QED BY <1>1, <1>2, <1>3, PTL DEF Spec

-----------------------------------------------------------------------------
(* What is decided.                                                        *)

\* A request's numbers, and its prompt as a positive number of tokens.
LEMMA RequestCounts ==
  ASSUME NEW req \in Request
  PROVE  /\ req.context \in Nat /\ req.output \in Nat
         /\ Requested(req) \in Nat /\ Requested(req) <= req.output
         /\ CountPrompt(req.prompt) \in Nat \ {0}
<1>1. /\ req.context \in Nat /\ req.output \in Nat /\ req.default \in Nat
      /\ req.prompt \in Prompts /\ req.requested \in Options
  BY BudgetsAssumption DEF Request
<1>2. Requested(req) \in Nat /\ Requested(req) <= req.output
  <2>1. (IF req.requested = <<>> THEN req.default ELSE req.requested[1]) \in Nat
    BY <1>1, BudgetsAssumption DEF Options
  <2> QED BY <1>1, <2>1 DEF Requested, Smaller
<1>3. CountPrompt(req.prompt) \in Nat \ {0}
  <2>1. CASE req.prompt.kind = "text"
    BY <1>1, <2>1, CountTextPositive DEF Prompts, CountPrompt
  <2>2. CASE req.prompt.kind # "text"
    <3>1. req.prompt.chat \in Chats
      BY <1>1, <2>2 DEF Prompts
    <3>2. req.prompt.chat \in Seq(Message)
      BY <3>1, BudgetsAssumption DEF Chats
    <3> QED BY <2>2, <3>2, CountChatPositive DEF CountPrompt
  <2> QED BY <2>1, <2>2
<1> QED BY <1>1, <1>2, <1>3

\* The subtraction of reserve_output_first saturates only where nothing fits.
LEMMA SaturationHarmless ==
  ASSUME NEW tokens \in Nat \ {0}, NEW output \in Nat, NEW context \in Nat
  PROVE  tokens <= SaturatingSub(context, output) <=> tokens + output <= context
BY DEF SaturatingSub

\* The two policies admit the same requests, whatever the limits and the prompt.
LEMMA SameResult ==
  ASSUME NEW req \in Request
  PROVE  StrictDecision(req).result = ReserveOutputFirst(req).result
<1>1. /\ Requested(req) \in Nat /\ req.context \in Nat /\ CountPrompt(req.prompt) \in Nat \ {0}
  BY RequestCounts
<1>2. CountPrompt(req.prompt) <= SaturatingSub(req.context, Requested(req))
        <=> CountPrompt(req.prompt) + Requested(req) <= req.context
  BY <1>1, SaturationHarmless
<1> QED BY <1>2 DEF StrictDecision, ReserveOutputFirst, Decision

\* What the proof of AdmittedFits keeps: the messages left are messages.
BudgetInv ==
  /\ request \in Request
  /\ messages \in Seq(Message)
  /\ AdmittedFits

\* A decision that checked its sum, for whatever prompt it counted.
LEMMA DecisionFits ==
  ASSUME NEW req \in Request, NEW tokens \in Nat, NEW removed, NEW d,
         d = Decision(tokens + Requested(req) <= req.context, tokens, req, removed),
         d.result = "admitted"
  PROVE  /\ d.prompt_tokens + d.admitted_max_tokens <= req.context
         /\ d.admitted_max_tokens <= req.output
         /\ d.prompt_tokens = tokens
<1>1. Requested(req) \in Nat /\ Requested(req) <= req.output /\ req.context \in Nat
  BY RequestCounts
<1>2. tokens + Requested(req) <= req.context
  BY DEF Decision
<1> QED BY <1>1, <1>2 DEF Decision

\* Every step of decide_budget keeps what is admitted within the context.
LEMMA BudgetStep ==
  ASSUME BudgetInv, [Next]_vars
  PROVE  BudgetInv'
<1>1. CASE UNCHANGED vars
  BY <1>1 DEF vars, BudgetInv, AdmittedFits, Admitted, Truncates
<1>2. CASE DecideAtOnce
  <2>1. /\ request' = request /\ messages' = messages /\ request \in Request
        /\ Invalid(request) \/ ~ Truncates(request)
    BY <1>2 DEF BudgetInv, DecideAtOnce
  <2>2. ASSUME Admitted' PROVE ~ Invalid(request)
    BY <1>2, <2>2 DEF DecideAtOnce, Admitted, Error
  <2>3. CountPrompt(request.prompt) \in Nat
    BY <2>1, RequestCounts
  <2>4. ASSUME Admitted'
        PROVE decision' = Decision(CountPrompt(request.prompt) + Requested(request)
                                     <= request.context, CountPrompt(request.prompt), request, 0)
    <3>1. CASE request.policy = "reserve_output_first"
      <4>1. CountPrompt(request.prompt) <= SaturatingSub(request.context, Requested(request))
              <=> CountPrompt(request.prompt) + Requested(request) <= request.context
        BY <2>1, RequestCounts, SaturationHarmless
      <4>2. decision' = Decision(CountPrompt(request.prompt)
                                   <= SaturatingSub(request.context, Requested(request)),
                                 CountPrompt(request.prompt), request, 0)
        BY <1>2, <2>2, <2>4, <3>1 DEF DecideAtOnce, ReserveOutputFirst
      <4> QED BY <4>1, <4>2 DEF Decision
    <3>2. CASE request.policy # "reserve_output_first"
      BY <1>2, <2>2, <2>4, <3>2 DEF DecideAtOnce, StrictDecision
    <3> QED BY <3>1, <3>2
  <2>5. AdmittedFits'
    <3> SUFFICES ASSUME Admitted'
                 PROVE  /\ decision'.prompt_tokens + decision'.admitted_max_tokens
                             <= request.context
                        /\ decision'.admitted_max_tokens <= request.output
                        /\ decision'.prompt_tokens = CountPrompt(request.prompt)
      BY <2>1, <2>2 DEF AdmittedFits, Truncates
    <3> QED BY <2>1, <2>3, <2>4, DecisionFits DEF Admitted
  <2> QED BY <2>1, <2>5 DEF BudgetInv
<1>3. CASE Truncate
  <2>1. messages' \in Seq(Message) /\ request' = request /\ decision' = NoDecision
    BY <1>3 DEF BudgetInv, Truncate
  <2> QED BY <2>1 DEF BudgetInv, AdmittedFits, Admitted, NoDecision
<1>4. CASE DecideTruncated
  <2>1. /\ request' = request /\ messages' = messages /\ request \in Request
        /\ Truncates(request) /\ messages \in Seq(Message)
        /\ decision' = Decision(~ TooLong(messages), CountChat(messages), request, truncated)
    BY <1>4 DEF BudgetInv, DecideTruncated
  <2>2. CountChat(messages) \in Nat
    BY <2>1, CountChatPositive
  <2>3. ~ TooLong(messages) <=> CountChat(messages) + Requested(request) <= request.context
    BY <2>1, <2>2, RequestCounts DEF TooLong
  <2>4. decision' = Decision(CountChat(messages) + Requested(request) <= request.context,
                             CountChat(messages), request, truncated)
    BY <2>1, <2>3 DEF Decision
  <2>5. AdmittedFits'
    BY <2>1, <2>2, <2>4, DecisionFits DEF AdmittedFits, Admitted, Truncates
  <2> QED BY <2>1, <2>5 DEF BudgetInv
<1> QED BY <1>1, <1>2, <1>3, <1>4 DEF Next

\* decide_budget: an admitted request fits its context window, whatever the policy, the
\* limits, the texts and the number of messages, also where a subtraction saturates.
THEOREM AdmittedAlwaysFits == Spec => []AdmittedFits
<1>1. Init => BudgetInv
  <2> SUFFICES ASSUME Init PROVE BudgetInv
    OBVIOUS
  <2>1. request \in Request
    BY DEF Init
  <2>2. messages \in Seq(Message)
    BY <2>1, ChatIsSeq DEF Init
  <2>3. AdmittedFits
    BY DEF Init, AdmittedFits, Admitted, NoDecision
  <2> QED BY <2>1, <2>2, <2>3 DEF BudgetInv
<1>2. BudgetInv /\ [Next]_vars => BudgetInv'
  BY BudgetStep
<1>3. BudgetInv => AdmittedFits
  BY DEF BudgetInv
<1> QED BY <1>1, <1>2, <1>3, PTL DEF Spec

\* decide_budget: strict_reject and reserve_output_first admit the same requests, because
\* every prompt counts as a positive number of tokens.
THEOREM PoliciesAlwaysAgree == Spec => []PoliciesAgree
<1>1. Init => request \in Request
  BY DEF Init
<1>2. request \in Request /\ [Next]_vars => (request \in Request)'
  BY DEF Next, DecideAtOnce, Truncate, DecideTruncated, vars
<1>3. request \in Request => PoliciesAgree
  BY SameResult DEF PoliciesAgree
<1> QED BY <1>1, <1>2, <1>3, PTL DEF Spec
=============================================================================
