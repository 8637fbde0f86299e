---------------------------- MODULE TokenBudget ----------------------------
(***************************************************************************)
(* crates/token-budget-engine: decide_budget, its three policies and the   *)
(* approximate token counter.  A text is its number of words and of        *)
(* characters; a chat is a sequence of messages.  The loop of              *)
(* truncate_oldest is the only one that takes steps; the other policies    *)
(* decide at once.                                                         *)
(***************************************************************************)
EXTENDS Naturals, Sequences

CONSTANTS
  Texts,         \* texts of the requests: [words, chars]
  MaxMessages,   \* bound: messages of a chat
  Contexts,      \* values of context_limit
  Outputs        \* values of max_output_tokens, default_max_tokens and max_tokens

ASSUME TextsAssumption == Texts \subseteq [words : Nat, chars : Nat]
ASSUME BudgetsAssumption == Contexts \subseteq Nat /\ Outputs \subseteq Nat /\ MaxMessages \in Nat

VARIABLES
  request,       \* the BudgetRequest
  messages,      \* truncate_oldest: the messages still there
  truncated,     \* truncate_oldest: how many were removed
  decision       \* the BudgetDecision, NoDecision or an error

vars == <<request, messages, truncated, decision>>

Policies == {"strict_reject", "truncate_oldest", "reserve_output_first"}

Message == [role : Texts, content : Texts]
Chats   == UNION {[1..n -> Message] : n \in 0..MaxMessages}
Prompts == [kind : {"text"}, text : Texts] \cup [kind : {"chat"}, chat : Chats]

\* requested_max_tokens is a sequence of at most one number.
Options == {<<>>} \cup {<<n>> : n \in Outputs}

Request == [prompt : Prompts, requested : Options, policy : Policies,
            context : Contexts, default : Outputs, output : Outputs]

NoDecision == [result |-> "none"]
Error      == [result |-> "error"]

Larger(a, b)  == IF a > b THEN a ELSE b
Smaller(a, b) == IF a < b THEN a ELSE b

\* usize::saturating_sub.
SaturatingSub(a, b) == IF a > b THEN a - b ELSE 0

-----------------------------------------------------------------------------
(* ApproxTokenCounter.                                                     *)

\* Mutant: an empty text counts as no token.
CountTextZero(text) == Larger(text.words, (text.chars + 3) \div 4)

CountText(text) == Larger(Larger(text.words, (text.chars + 3) \div 4), 1)

CountMessage(message) == CountText(message.role) + CountText(message.content) + 4

CountChat(chat) ==
  LET sum[i \in 0..Len(chat)] == IF i = 0 THEN 0 ELSE sum[i - 1] + CountMessage(chat[i])
  IN sum[Len(chat)] + 2

CountPrompt(prompt) ==
  IF prompt.kind = "text" THEN CountText(prompt.text) ELSE CountChat(prompt.chat)

-----------------------------------------------------------------------------
(* decide_budget.                                                          *)

\* The output the request asks for, within the model's maximum.
Requested(req) ==
  Smaller(IF req.requested = <<>> THEN req.default ELSE req.requested[1], req.output)

Decision(admitted, tokens, req, removed) ==
  [result |-> IF admitted THEN "admitted" ELSE "rejected",
   prompt_tokens |-> tokens,
   admitted_max_tokens |-> IF admitted THEN Requested(req) ELSE 0,
   available |-> SaturatingSub(req.context, tokens),
   truncated |-> removed]

StrictDecision(req) ==
  LET tokens == CountPrompt(req.prompt)
  IN Decision(tokens + Requested(req) <= req.context, tokens, req, 0)

\* Mutant: the output is not reserved first.
ReserveOutputLast(req) ==
  LET tokens == CountPrompt(req.prompt)
  IN Decision(tokens <= req.context, tokens, req, 0)

ReserveOutputFirst(req) ==
  LET tokens == CountPrompt(req.prompt)
  IN Decision(tokens <= SaturatingSub(req.context, Requested(req)), tokens, req, 0)

Invalid(req) == req.context = 0 \/ req.output = 0

Truncates(req) == req.policy = "truncate_oldest" /\ req.prompt.kind = "chat"

Init ==
  /\ request \in Request
  /\ messages = IF request.prompt.kind = "chat" THEN request.prompt.chat ELSE <<>>
  /\ truncated = 0
  /\ decision = NoDecision

\* An error, or a policy that looks at the prompt once.
DecideAtOnce ==
  /\ decision = NoDecision
  /\ Invalid(request) \/ ~ Truncates(request)
  /\ decision' = IF Invalid(request) THEN Error
                 ELSE IF request.policy = "reserve_output_first" THEN ReserveOutputFirst(request)
                 ELSE StrictDecision(request)
  /\ UNCHANGED <<request, messages, truncated>>

TooLong(chat) == CountChat(chat) + Requested(request) > request.context

\* Mutant: the loop does not stop at a chat that fits exactly.
TruncateTight ==
  /\ decision = NoDecision
  /\ ~ Invalid(request) /\ Truncates(request)
  /\ messages # <<>> /\ CountChat(messages) + Requested(request) >= request.context
  /\ messages' = Tail(messages)
  /\ truncated' = truncated + 1
  /\ UNCHANGED <<request, decision>>

\* A turn of truncate_oldest's loop removes the oldest message.
Truncate ==
  /\ decision = NoDecision
  /\ ~ Invalid(request) /\ Truncates(request)
  /\ messages # <<>> /\ TooLong(messages)
  /\ messages' = Tail(messages)
  /\ truncated' = truncated + 1
  /\ UNCHANGED <<request, decision>>

DecideTruncated ==
  /\ decision = NoDecision
  /\ ~ Invalid(request) /\ Truncates(request)
  /\ messages = <<>> \/ ~ TooLong(messages)
  /\ decision' = Decision(~ TooLong(messages), CountChat(messages), request, truncated)
  /\ UNCHANGED <<request, messages, truncated>>

Next == DecideAtOnce \/ Truncate \/ DecideTruncated

Spec == Init /\ [][Next]_vars

-----------------------------------------------------------------------------
Admitted == decision.result = "admitted"

(***************************************************************************)
(* Whatever the policy, an admitted request fits: the prompt that is sent  *)
(* (after truncation) and the admitted output stay within context_limit,   *)
(* also where a subtraction saturates.                                     *)
(***************************************************************************)
AdmittedFits ==
  Admitted =>
    /\ decision.prompt_tokens + decision.admitted_max_tokens <= request.context
    /\ decision.admitted_max_tokens <= request.output
    /\ decision.prompt_tokens =
         IF Truncates(request) THEN CountChat(messages) ELSE CountPrompt(request.prompt)

(***************************************************************************)
(* strict_reject and reserve_output_first admit the same requests: they    *)
(* differ only in a saturating subtraction, and no prompt counts as zero   *)
(* tokens.                                                                 *)
(***************************************************************************)
PoliciesAgree ==
  StrictDecision(request).result = ReserveOutputFirst(request).result

(***************************************************************************)
(* truncate_oldest removes no message it need not: what it keeps is a      *)
(* suffix of the chat, and the suffix with one more message does not fit.  *)
(***************************************************************************)
TruncationMinimal ==
  Truncates(request) =>
    LET chat == request.prompt.chat
    IN /\ truncated <= Len(chat)
       /\ messages = SubSeq(chat, truncated + 1, Len(chat))
       /\ truncated > 0 => TooLong(SubSeq(chat, truncated, Len(chat)))
=============================================================================
