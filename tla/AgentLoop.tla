----------------------------- MODULE AgentLoop ------------------------------
(***************************************************************************)
(* The agent loops (verl/experimental/agent_loop/).  The manager wakes the *)
(* servers, hands each worker its chunk of the batch and waits for all.  A *)
(* worker runs its conversations as tasks of one event loop: the server    *)
(* answers, the tools the answer calls run in the pools of RateLimiter,    *)
(* their text is appended, and so on.  Every action is what a task does    *)
(* between two awaits.  A token is "p", "g" or "t", by where it came from: *)
(* the prompt, a server, or the rendering of tool messages.                *)
(***************************************************************************)
EXTENDS Integers, Sequences, SequencesExt, FiniteSets

CONSTANTS
    Conv,               \* the rows of the batch, after repeat
    Worker, WorkerOf,   \* agent loop workers; whose chunk a row is in
    AgentOf,            \* "single_turn_agent" or "tool_agent"
    PromptOf,           \* tokens of a row's prompt
    PromptLength, ResponseLength,         \* of the rollout's configuration
    MaxAssistantTurns, MaxUserTurns,      \* 0 for null
    MaxParallel,        \* max_parallel_calls
    Servers,            \* addresses, ordered as the heap orders them
    CacheSize,          \* max_cache_size
    Tool,               \* names in self.tools
    Threads, RateLimit, \* of each tool
    MaxToolTokens,      \* bound: tokens of the rendered tool messages
    PadId, None

MaxModelLen == PromptLength + ResponseLength
Call == Conv \X (1..MaxParallel)
Pool == Worker \X Tool

ASSUME ConvAssumption ==
    /\ IsFiniteSet(Conv) /\ IsFiniteSet(Servers) /\ Servers # {} /\ Servers \subseteq Nat
    /\ None \notin Servers
    /\ WorkerOf \in [Conv -> Worker]
    /\ AgentOf \in [Conv -> {"single_turn_agent", "tool_agent"}]
    /\ PromptOf \in [Conv -> 1..PromptLength]
ASSUME LengthAssumption ==
    /\ {PromptLength, ResponseLength, CacheSize, MaxParallel} \subseteq Nat \ {0}
    /\ {MaxAssistantTurns, MaxUserTurns, MaxToolTokens} \subseteq Nat
    /\ PadId \in Nat /\ {Threads, RateLimit} \subseteq [Tool -> Nat \ {0}]

VARIABLES
    manager,    \* of generate_sequences: "idle", "waiting", "done", "failed"
    awake,      \* the servers are
    chat,       \* what a conversation's task holds
    count,      \* count[w]: weighted_serveres
    cache,      \* cache[w]: request_id_to_server, least recently used first
    instances,  \* the tool instances in the tools' dictionaries
    row,        \* the rows of the output
    limit, ready, sem, mailbox, stage, pool, returning  \* of RateLimiter

LoopVars == <<manager, awake, chat, count, cache, instances, row>>
limiter == <<limit, ready, sem, mailbox, stage, pool, returning>>
vars == <<manager, awake, chat, count, cache, instances, row,
          limit, ready, sem, mailbox, stage, pool, returning>>

Limiter == INSTANCE RateLimiter WITH
    Threads <- [p \in Pool |-> Threads[p[2]]],
    RateLimit <- [p \in Pool |-> RateLimit[p[2]]]

\* sent: a server has the request.  tools: gather waits.  over: run has
\* returned.  raised: it raised, and with it generate_sequences of the worker.
Fresh(c) == [pc |-> "new", ids |-> [i \in 1..PromptOf[c] |-> "p"], mask |-> <<>>,
             user |-> 0, assistant |-> 0, server |-> None,
             kinds |-> <<>>, left |-> {}, error |-> FALSE]

Init ==
    /\ manager = "idle" /\ awake = FALSE
    /\ chat = [c \in Conv |-> Fresh(c)]
    /\ count = [w \in Worker |-> [s \in Servers |-> 0]]
    /\ cache = [w \in Worker |-> <<>>]
    /\ instances = {}
    /\ row = [c \in Conv |-> None]
    /\ Limiter!InitLimiter

-----------------------------------------------------------------------------
(* The choice of a server.                                                  *)

Entry(w, c) == {i \in DOMAIN cache[w] : cache[w][i][1] = c}

\* The top of the heap.
Least(w, s) == \A t \in Servers :
    count[w][s] < count[w][t] \/ (count[w][s] = count[w][t] /\ s <= t)

\* A full cache drops the entry that was not used for longest.
Remember(w, c, s) ==
    Append(IF Len(cache[w]) < CacheSize THEN cache[w] ELSE Tail(cache[w]), <<c, s>>)

\* Mutant: a conversation that comes back is counted again.
ChooseServerCounting(c, s) ==
    LET w == WorkerOf[c] IN
    /\ Least(w, s)
    /\ count' = [count EXCEPT ![w][s] = @ + 1]
    /\ cache' = [cache EXCEPT ![w] = Remember(w, c, s)]

\* _choose_server: an entry that is found becomes the most recently used; one
\* that is not, first request or forgotten, goes to the top of the heap.
ChooseServer(c, s) ==
    LET w == WorkerOf[c] IN
    \/ \E i \in Entry(w, c) :
          /\ s = cache[w][i][2]
          /\ cache' = [cache EXCEPT ![w] = Append(RemoveAt(@, i), @[i])]
          /\ UNCHANGED count
    \/ /\ Entry(w, c) = {} /\ Least(w, s)
       /\ count' = [count EXCEPT ![w][s] = @ + 1]
       /\ cache' = [cache EXCEPT ![w] = Remember(w, c, s)]

-----------------------------------------------------------------------------
(* The manager and the workers.                                             *)

\* generate_sequences: the servers wake up and the chunks are sent.
Begin ==
    /\ manager = "idle"
    /\ manager' = "waiting" /\ awake' = TRUE
    /\ UNCHANGED <<chat, count, cache, instances, row>> /\ UNCHANGED limiter

Of(w) == {c \in Conv : WorkerOf[c] = w}

Padded(seq, n, x) == seq \o [i \in 1..(n - Len(seq)) |-> x]

\* prompt_ids[-n:], which is everything when n is 0.
LastTokens(ids, n) ==
    IF n = 0 THEN ids ELSE SubSeq(ids, Len(ids) - n + 1, Len(ids))

Cut(seq) == SubSeq(seq, 1, Min({ResponseLength, Len(seq)}))

\* Mutant: the mask is padded like the tokens and left so.
RowPadId(ch) ==
    LET n == Len(ch.mask)
        ids == Cut(LastTokens(ch.ids, n))
    IN  [prompt |-> SubSeq(ch.ids, 1, Len(ch.ids) - n),
         response |-> Padded(ids, ResponseLength, "pad"),
         mask |-> Padded(Cut(ch.mask), ResponseLength, PadId)]

\* AgentLoopOutput and its row in _postprocess: the last tokens are the
\* response, both are cut to response_length and padded with the pad id, and
\* the attention mask turns the pad ids of the response mask into zeros.
Row(ch) ==
    LET n == Len(ch.mask)
        ids == Cut(LastTokens(ch.ids, n))
        mask == Padded(Cut(ch.mask), ResponseLength, PadId)
    IN  [prompt |-> SubSeq(ch.ids, 1, Len(ch.ids) - n),
         response |-> Padded(ids, ResponseLength, "pad"),
         mask |-> [i \in 1..ResponseLength |-> mask[i] * (IF i <= Len(ids) THEN 1 ELSE 0)]]

\* gather has the outputs of all tasks of the worker.
Postprocess(w) ==
    /\ Of(w) # {} /\ \A c \in Of(w) : chat[c].pc = "over" /\ row[c] = None
    /\ row' = [c \in Conv |-> IF c \in Of(w) THEN Row(chat[c]) ELSE row[c]]
    /\ UNCHANGED <<manager, awake, chat, count, cache, instances>>
    /\ UNCHANGED limiter

\* ray.get of all workers, concat, and the servers sleep.
Finish ==
    /\ manager = "waiting" /\ \A c \in Conv : row[c] # None
    /\ manager' = "done" /\ awake' = FALSE
    /\ UNCHANGED <<chat, count, cache, instances, row>> /\ UNCHANGED limiter

\* A task raised: gather and ray.get pass it on, and nobody calls sleep; the
\* other tasks go on.
Fail ==
    /\ manager = "waiting" /\ \E c \in Conv : chat[c].pc = "raised"
    /\ manager' = "failed"
    /\ UNCHANGED <<awake, chat, count, cache, instances, row>>
    /\ UNCHANGED limiter

-----------------------------------------------------------------------------
(* A conversation.                                                          *)

Request(c, ch, s) ==
    /\ ChooseServer(c, s)
    /\ chat' = [chat EXCEPT ![c] = [ch EXCEPT !.pc = "sent", !.server = s]]

\* The task starts: the template is applied and the request sent.
Start(c) ==
    /\ manager # "idle" /\ chat[c].pc = "new"
    /\ \E s \in Servers : Request(c, chat[c], s)
    /\ UNCHANGED <<manager, awake, instances, row>> /\ UNCHANGED limiter

\* init_class of the tool agent, with the first such loop of a worker: the
\* pools of its tools are created.
StartTools(c) ==
    /\ AgentOf[c] = "tool_agent" /\ chat[c].pc # "new"
    /\ \E tool \in Tool : Limiter!StartPool(<<WorkerOf[c], tool>>)
    /\ UNCHANGED LoopVars

\* The server could not.
ServerRaises(c) ==
    /\ chat[c].pc = "sent"
    /\ chat' = [chat EXCEPT ![c].pc = "raised"]
    /\ UNCHANGED <<manager, awake, count, cache, instances, row>>
    /\ UNCHANGED limiter

Answered(c, n) ==
    [chat[c] EXCEPT !.ids = @ \o [i \in 1..n |-> "g"],
                    !.mask = @ \o [i \in 1..n |-> 1], !.assistant = @ + 1]

\* What ends the loop before the tool calls are parsed.
LoopEnds(c, ch) ==
    \/ AgentOf[c] = "single_turn_agent"
    \/ Len(ch.mask) >= ResponseLength
    \/ MaxAssistantTurns > 0 /\ ch.assistant >= MaxAssistantTurns

\* The server's tokens, at most as many as the model has room for.
Lengths(c) == 1..(MaxModelLen - Len(chat[c].ids))

\* The answer is the last one: by its length, the turns, or no tool call in it.
LastAnswer(c) ==
    /\ chat[c].pc = "sent"
    /\ \E n \in Lengths(c) :
          chat' = [chat EXCEPT ![c] = [Answered(c, n) EXCEPT !.pc = "over"]]
    /\ UNCHANGED <<manager, awake, count, cache, instances, row>>
    /\ UNCHANGED limiter

\* What the first max_parallel_calls tool calls can be: one of a tool that
\* goes to its pool, one with no valid query that the search answers itself,
\* or one of no known tool, which raises.
Kinds == Tool \cup {"answered", "unknown"}

\* _call_tool up to its first real await, for all calls of the answer.
CallTools(c) ==
    /\ chat[c].pc = "sent"
    /\ \E n \in Lengths(c), kinds \in UNION {[1..m -> Kinds] : m \in 1..MaxParallel} :
          LET pooled == {i \in DOMAIN kinds : kinds[i] \in Tool}
          IN  /\ ~LoopEnds(c, Answered(c, n))
              /\ chat' = [chat EXCEPT ![c] = [Answered(c, n) EXCEPT
                      !.pc = "tools", !.kinds = kinds, !.left = pooled,
                      !.error = \E i \in DOMAIN kinds : kinds[i] = "unknown"]]
              /\ instances' = instances \cup {<<c, i>> : i \in pooled}
              /\ Limiter!Send({<<c, i>> : i \in pooled},
                     [k \in {<<c, i>> : i \in pooled} |-> <<WorkerOf[c], kinds[k[2]]>>])
    /\ UNCHANGED <<manager, awake, count, cache, row>>

\* Whether _call_tool returns an exception: the search turns a failure into
\* text, the sandbox strips a None.
Raises(tool, result) == tool = "sandbox" /\ result = "failed"

\* Mutant: the instance is given back on success only.
ToolOverLeaking(c, i) ==
    LET k == <<c, i>> IN
    /\ i \in chat[c].left /\ Limiter!Collect(k)
    /\ instances' = IF stage[k] = "ok" THEN instances \ {k} ELSE instances
    /\ chat' = [chat EXCEPT ![c].left = @ \ {i},
                            ![c].error = @ \/ Raises(chat[c].kinds[i], stage[k])]
    /\ UNCHANGED <<manager, awake, count, cache, row>>

\* The call is back: the instance is released, the answer or exception kept.
ToolOver(c, i) ==
    LET k == <<c, i>> IN
    /\ i \in chat[c].left /\ Limiter!Collect(k)
    /\ instances' = instances \ {k}
    /\ chat' = [chat EXCEPT ![c].left = @ \ {i},
                            ![c].error = @ \/ Raises(chat[c].kinds[i], stage[k])]
    /\ UNCHANGED <<manager, awake, count, cache, row>>

WithTools(c, n) ==
    [chat[c] EXCEPT !.ids = @ \o [i \in 1..n |-> "t"],
                    !.mask = @ \o [i \in 1..n |-> 0], !.user = @ + 1,
                    !.kinds = <<>>]

\* Mutant: the length of the response is not looked at.
TurnEndsByTurns(ch) == MaxUserTurns > 0 /\ ch.user >= MaxUserTurns

TurnEnds(ch) ==
    \/ MaxUserTurns > 0 /\ ch.user >= MaxUserTurns
    \/ Len(ch.mask) >= ResponseLength

Over(c, ch) ==
    /\ chat' = [chat EXCEPT ![c] = [ch EXCEPT !.pc = "over", !.kinds = <<>>]]
    /\ UNCHANGED <<count, cache>>

\* gather over the tools: an exception ends the loop, otherwise their tokens
\* are appended and the next request is sent, unless that was the last turn.
Gathered(c) ==
    /\ chat[c].pc = "tools" /\ chat[c].left = {}
    /\ \/ chat[c].error /\ Over(c, chat[c])
       \/ /\ ~chat[c].error
          /\ \E n \in 1..MaxToolTokens :
                \/ TurnEnds(WithTools(c, n)) /\ Over(c, WithTools(c, n))
                \/ /\ ~TurnEnds(WithTools(c, n))
                   /\ \E s \in Servers : Request(c, WithTools(c, n), s)
    /\ UNCHANGED <<manager, awake, instances, row>> /\ UNCHANGED limiter

-----------------------------------------------------------------------------
Converse(c) ==
    \/ Start(c) \/ ServerRaises(c) \/ LastAnswer(c) \/ CallTools(c) \/ Gathered(c)
    \/ \E i \in 1..MaxParallel : ToolOver(c, i)

\* Nothing is left to do.
Quiet ==
    /\ manager \in {"done", "failed"} /\ returning = 0
    /\ \A c \in Conv : chat[c].pc \in {"over", "raised"}
    /\ UNCHANGED vars

Next ==
    \/ Begin \/ Finish \/ Fail \/ Quiet
    \/ \E w \in Worker : Postprocess(w)
    \/ \E c \in Conv : Converse(c)
    \/ \E c \in Conv : StartTools(c)
    \/ Limiter!Serve /\ UNCHANGED LoopVars

Spec == Init /\ [][Next]_vars
FairSpec == Spec /\ WF_vars(Next)
-----------------------------------------------------------------------------
(* Properties.                                                              *)

\* See RateLimiter: the tokens under the traffic the agent loops make.
TokensConserved == Limiter!TokensConserved

\* What the trainer gets: the prompt alone is the prompt, the response is
\* what followed it, and the mask selects exactly the tokens a server
\* generated, not those of tools and not the padding, however the loop ended
\* and wherever the response was cut.
OnlyGeneratedTokensTrain ==
    \A c \in Conv : row[c] # None =>
        /\ row[c].prompt = [i \in 1..PromptOf[c] |-> "p"]
        /\ Len(row[c].response) = ResponseLength /\ Len(row[c].mask) = ResponseLength
        /\ \A i \in 1..ResponseLength :
              /\ row[c].mask[i] = (IF row[c].response[i] = "g" THEN 1 ELSE 0)
              /\ row[c].response[i] =
                    (IF PromptOf[c] + i <= Len(chat[c].ids)
                     THEN chat[c].ids[PromptOf[c] + i] ELSE "pad")

\* A request reaches servers that are awake and leaves them room for at least
\* one token: max_tokens = max_model_len - len(prompt_ids) is not checked
\* there, the ends of the loop must see to it.
RequestsCanBeServed ==
    \A c \in Conv : chat[c].pc = "sent" =>
        awake /\ Len(chat[c].ids) < MaxModelLen

\* A cache that holds a worker's conversations keeps each at its server: the
\* loads are the conversations there, and those of two servers differ by one
\* at most, however the turns interleave.
SessionsStayAndLevel ==
    \A w \in Worker :
        /\ \A s, t \in Servers : count[w][s] <= count[w][t] + 1
        /\ Cardinality(Of(w)) <= CacheSize => \A s \in Servers :
              count[w][s] = Cardinality({c \in Of(w) : chat[c].server = s})

\* Every batch ends, also one that fails, and in the end no tool instance is
\* left in a dictionary and all tokens are back, whichever tools failed.
BatchEnds ==
    <>[](/\ manager \in {"done", "failed"}
         /\ instances = {} /\ sem = limit)
=============================================================================
