--------------------------- MODULE ChatScheduler ---------------------------
(***************************************************************************)
(* ChatCompletionScheduler of verl/verl/workers/rollout/chat_scheduler.py  *)
(* with its ToolCompletionCallback: the multi-turn conversations of one    *)
(* batch run as tasks of one event loop, each task runs between two awaits *)
(* without interruption, and every action below is such a stretch.         *)
(*                                                                         *)
(* A conversation has one request in flight at a time, so its uuid4 is the *)
(* pair of the conversation and the number of the request.  A server is    *)
(* its address, and addresses are ordered as the heap orders them.         *)
(***************************************************************************)
EXTENDS Integers, Sequences, FiniteSets

CONSTANTS
    Conv,          \* the conversations of all calls of generate_sequences
    Batches,       \* how many calls are made, one after the other
    BatchOf,       \* the call a conversation belongs to
    Servers,       \* server_addresses
    MaxCache,      \* max_cache_size
    MaxTurns,      \* max_assistant_turns, 0 for null
    PromptLength,  \* messages in a raw prompt
    MaxTools,      \* bound: tool calls in one answer
    MaxMessages,   \* bound: messages in a conversation that may call tools
    None

ASSUME ServersAssumption == Servers \subseteq Nat /\ Servers # {} /\ IsFiniteSet(Servers)
ASSUME ConvAssumption == IsFiniteSet(Conv) /\ None \notin Servers
ASSUME BatchAssumption ==
    Batches \in Nat \ {0} /\ BatchOf \in [Conv -> 1 .. Batches]
ASSUME BoundAssumption ==
    /\ MaxCache \in Nat \ {0} /\ PromptLength \in Nat \ {0}
    /\ {MaxTurns, MaxTools, MaxMessages} \subseteq Nat

VARIABLES
    chat,    \* what the tasks, the info dict and the messages of a conversation hold
    home,    \* history: the server that got the first request of a conversation
    count,   \* weighted_addresses
    cache,   \* request_id_to_address, least recently used first
    batch,   \* the running call of generate_sequences
    status   \* what that call, or the last one, did

vars == <<chat, home, count, cache, batch, status>>

\* new: not submitted.  submitted: its task is created.  sent: the request is
\* at the server.  tools: the callback awaits its tools.  ended: the last task
\* is over.  lost: a task died of the assertion on the cache.
Phases == {"new", "submitted", "sent", "tools", "ended", "lost"}

Fresh == [pc |-> "new", depth |-> 0, done |-> FALSE, turn |-> 0, address |-> None,
          messages |-> PromptLength, answers |-> 0,
          calls |-> 0, running |-> 0, failed |-> FALSE]

Init ==
    /\ chat = [c \in Conv |-> Fresh]
    /\ home = [c \in Conv |-> None]
    /\ count = [s \in Servers |-> 0]
    /\ cache = <<>>
    /\ batch = 1
    /\ status = "generating"

-----------------------------------------------------------------------------

(* The cache and the heap.                                                 *)

RequestId(c) == <<c, chat[c].turn>>

Cached(id) == \E i \in DOMAIN cache : cache[i].id = id

IndexOf(id) == CHOOSE i \in DOMAIN cache : cache[i].id = id

AddressOf(id) == cache[IndexOf(id)].address

\* LRUCache.pop
Without(id) ==
    SubSeq(cache, 1, IndexOf(id) - 1) \o SubSeq(cache, IndexOf(id) + 1, Len(cache))

\* A cache without a size.
RememberUnbounded(entries, id, s) == Append(entries, [id |-> id, address |-> s])

\* A full cache keeps what it has.
RememberFirst(entries, id, s) ==
    IF Len(entries) < MaxCache THEN RememberUnbounded(entries, id, s) ELSE entries

\* LRUCache.__setitem__ of a new key: a full cache drops its oldest entry.
Remember(entries, id, s) ==
    Append(IF Len(entries) < MaxCache THEN entries ELSE Tail(entries),
           [id |-> id, address |-> s])

\* A heap whose order is never restored.
LeastByAddress(s) == \A t \in Servers : s <= t

\* The top of the heap: the lowest count, the lowest address among equals.
Least(s) ==
    \A t \in Servers : count[s] < count[t] \/ (count[s] = count[t] /\ s <= t)

-----------------------------------------------------------------------------

(* What a stretch does to a conversation.                                  *)

\* submit_chat_completions
Submit(ch) == [ch EXCEPT !.pc = "submitted", !.depth = @ + 1]

\* The end of _submit_chat_completions_and_callback.
Finish(ch) == [ch EXCEPT !.pc = "ended", !.done = @ \/ ch.depth = 0]

\* The request is posted under a new id.
Sent(ch, s) == [ch EXCEPT !.pc = "sent", !.turn = @ + 1, !.address = s]

\* The event is set before the callback has run.
AnsweredDone(ch) ==
    [ch EXCEPT !.depth = @ - 1, !.messages = @ + 1, !.answers = @ + 1,
               !.done = (ch.depth = 1)]

\* The message of the completion is appended to the shared list.
Answered(ch) ==
    [ch EXCEPT !.depth = @ - 1, !.messages = @ + 1, !.answers = @ + 1]

ReachedMaxTurns(ch) == MaxTurns > 0 /\ ch.messages >= MaxTurns

-----------------------------------------------------------------------------

(* generate_sequences creates the tasks of its batch.                      *)
Begin(c) ==
    /\ status = "generating" /\ batch = BatchOf[c]
    /\ chat[c].pc = "new"
    /\ chat' = [chat EXCEPT ![c] = Submit(@)]
    /\ UNCHANGED <<home, count, cache, batch, status>>

(* The first request of a conversation goes to the least loaded server.    *)
First(c) ==
    /\ chat[c].pc = "submitted" /\ chat[c].turn = 0
    /\ \E s \in Servers :
        /\ Least(s)
        /\ count' = [count EXCEPT ![s] = @ + 1]
        /\ home' = [home EXCEPT ![c] = s]
        /\ cache' = Remember(cache, <<c, 1>>, s)
        /\ chat' = [chat EXCEPT ![c] = Sent(@, s)]
    /\ UNCHANGED <<batch, status>>

\* A server for a request whose predecessor is no longer in the cache.
FollowAnywhere(c) ==
    /\ chat[c].pc = "submitted" /\ chat[c].turn > 0
    /\ LET s == CHOOSE t \in Servers : Least(t) IN
        /\ cache' = Remember(cache, <<c, chat[c].turn + 1>>, s)
        /\ chat' = [chat EXCEPT ![c] = Sent(@, s)]
    /\ UNCHANGED <<home, count, batch, status>>

(* A later request goes where the previous one went, under a new id.       *)
Follow(c) ==
    /\ chat[c].pc = "submitted" /\ chat[c].turn > 0
    /\ Cached(RequestId(c))
    /\ LET s == AddressOf(RequestId(c)) IN
        /\ cache' = Remember(Without(RequestId(c)), <<c, chat[c].turn + 1>>, s)
        /\ chat' = [chat EXCEPT ![c] = Sent(@, s)]
    /\ UNCHANGED <<home, count, batch, status>>

(* The assertion at line 328 fails: the task dies and nobody sets done.    *)
Lose(c) ==
    /\ chat[c].pc = "submitted" /\ chat[c].turn > 0
    /\ ~Cached(RequestId(c))
    /\ chat' = [chat EXCEPT ![c].pc = "lost"]
    /\ UNCHANGED <<home, count, cache, batch, status>>

\* The request raises and is still counted as ongoing.
ErrorLeaks(c) ==
    /\ chat[c].pc = "sent"
    /\ chat' = [chat EXCEPT ![c] = Finish(@)]
    /\ UNCHANGED <<home, count, cache, batch, status>>

(* The request raises: the exception is logged, the callback is not run.   *)
Error(c) ==
    /\ chat[c].pc = "sent"
    /\ LET ch == chat[c] IN
        chat' = [chat EXCEPT ![c] = Finish([ch EXCEPT !.depth = @ - 1])]
    /\ UNCHANGED <<home, count, cache, batch, status>>

(* The completion arrives and the callback ends the conversation: the      *)
(* limit is reached, or no tool is called.                                 *)
Stop(c) ==
    /\ chat[c].pc = "sent"
    /\ chat' = [chat EXCEPT ![c] = Finish(Answered(@))]
    /\ UNCHANGED <<home, count, cache, batch, status>>

(* The completion calls n tools, which the callback gathers.               *)
CallTools(c) ==
    /\ chat[c].pc = "sent" /\ chat[c].messages < MaxMessages
    /\ LET ch == Answered(chat[c]) IN
        /\ ~ReachedMaxTurns(ch)
        /\ \E n \in 1 .. MaxTools :
            chat' = [chat EXCEPT ![c] =
                [ch EXCEPT !.pc = "tools", !.calls = n, !.running = n, !.failed = FALSE]]
    /\ UNCHANGED <<home, count, cache, batch, status>>

\* The first response resubmits.
ToolReturnsEager(c) ==
    /\ chat[c].running > 0
    /\ LET ch == [chat[c] EXCEPT !.running = @ - 1] IN
        chat' = [chat EXCEPT ![c] =
            IF ch.pc # "tools" THEN ch
            ELSE Submit([ch EXCEPT !.messages = @ + ch.calls])]
    /\ UNCHANGED <<home, count, cache, batch, status>>

(* _call_tool returns a response, or the exception of execute.  After the  *)
(* last one the callback gives up or resubmits with all responses.  A tool *)
(* whose callback is already over answers to nobody.                       *)
ToolReturns(c) ==
    /\ chat[c].running > 0
    /\ \E err \in BOOLEAN :
        LET ch == [chat[c] EXCEPT !.running = @ - 1, !.failed = @ \/ err] IN
        chat' = [chat EXCEPT ![c] =
            IF ch.pc # "tools" \/ ch.running > 0 THEN ch
            ELSE IF ch.failed THEN Finish(ch)
            ELSE Submit([ch EXCEPT !.messages = @ + ch.calls])]
    /\ UNCHANGED <<home, count, cache, batch, status>>

(* _call_tool raises outside its try: gather passes it on at once, the     *)
(* callback ends, the other tools keep running.                            *)
ToolRaises(c) ==
    /\ chat[c].running > 0
    /\ LET ch == [chat[c] EXCEPT !.running = @ - 1] IN
        chat' = [chat EXCEPT ![c] = IF ch.pc = "tools" THEN Finish(ch) ELSE ch]
    /\ UNCHANGED <<home, count, cache, batch, status>>

(* All conversations of the batch are done: postprocess asserts that each  *)
(* has a response, and generate_sequences returns.                         *)
Return ==
    /\ status = "generating"
    /\ \A c \in Conv : BatchOf[c] = batch => chat[c].done
    /\ IF \E c \in Conv : BatchOf[c] = batch /\ chat[c].answers = 0
       THEN status' = "raised" /\ batch' = batch
       ELSE IF batch < Batches
       THEN status' = status /\ batch' = batch + 1
       ELSE status' = "returned" /\ batch' = batch
    /\ UNCHANGED <<chat, home, count, cache>>

Over == status # "generating" /\ UNCHANGED vars

Step(c) ==
    \/ Begin(c) \/ First(c) \/ Follow(c) \/ Lose(c) \/ Error(c) \/ Stop(c)
    \/ CallTools(c) \/ ToolReturns(c) \/ ToolRaises(c)

Next == (\E c \in Conv : Step(c)) \/ Return \/ Over

Spec == Init /\ [][Next]_vars

(* The event loop runs every ready task, a server answers or the           *)
(* connection breaks, and a tool returns or raises.                        *)
FairSpec == Spec /\ (\A c \in Conv : WF_vars(Step(c))) /\ WF_vars(Return)

-----------------------------------------------------------------------------

Chats == [pc : Phases, depth : Int, done : BOOLEAN, turn : Nat,
          address : Servers \cup {None}, messages : Nat, answers : Nat,
          calls : Nat, running : Nat, failed : BOOLEAN]

Entries == [id : Conv \X Nat, address : Servers]

(* Type invariant; the cache keeps to its size.                            *)
TypeOK ==
    /\ chat \in [Conv -> Chats]
    /\ home \in [Conv -> Servers \cup {None}]
    /\ count \in [Servers -> Nat]
    /\ cache \in Seq(Entries) /\ Len(cache) <= MaxCache
    /\ batch \in 1 .. Batches
    /\ status \in {"generating", "returned", "raised"}

\* The conversations that were started on a server.
StartedOn(s) == {c \in Conv : home[c] = s}

(* "Least requests load balancing": the numbers of conversations two       *)
(* servers were given differ by at most one, over all batches.             *)
LoadBalanced ==
    \A s, t \in Servers : Cardinality(StartedOn(s)) <= Cardinality(StartedOn(t)) + 1

(* Every request of a conversation goes to the server of its first one,    *)
(* whatever the cache forgot: prefix caching needs it.                     *)
StickySession ==
    \A c \in Conv : chat[c].pc \in {"sent", "tools"} => chat[c].address = home[c]

(* The assertion at line 328 (a conversation that resubmits finds its      *)
(* previous request in the cache) holds as long as a call of               *)
(* generate_sequences has no more conversations than max_cache_size,       *)
(* whatever earlier calls left in the cache.                               *)
FollowUpIsCached ==
    \A c \in Conv : chat[c].pc = "lost" =>
        Cardinality({d \in Conv : BatchOf[d] = BatchOf[c]}) > MaxCache

(* The event of a conversation is set only when no request of it is        *)
(* ongoing or about to be submitted by the callback.                       *)
DoneMeansQuiet ==
    \A c \in Conv : chat[c].done => chat[c].pc = "ended" /\ chat[c].depth = 0

(* The model is not asked again before all tools of the last answer        *)
(* have returned.                                                          *)
AllToolsAnswered ==
    \A c \in Conv : chat[c].pc \in {"submitted", "sent"} => chat[c].running = 0

(* After its event is set a conversation does not change any more:         *)
(* postprocess reads its messages.                                         *)
SettledWhenDone ==
    [][\A c \in Conv : chat[c].done =>
          chat'[c].messages = chat[c].messages /\ chat'[c].turn = chat[c].turn]_vars

(* generate_sequences comes to an end when max_assistant_turns is set,     *)
(* unless the assertion at line 328 killed the task of a conversation.     *)
BatchesEnd == <>(status # "generating" \/ \E c \in Conv : chat[c].pc = "lost")

=============================================================================
