---------------------------- MODULE RateLimiter -----------------------------
(***************************************************************************)
(* The rate limit of the tools (verl/tools/search_tool.py and              *)
(* sandbox_fusion_tools.py): every process that uses a tool has an         *)
(* execution pool of threads, and all pools, of both tools, share one      *)
(* TokenBucketWorker, an actor found by its name.  The actor takes calls   *)
(* of acquire one by one and calls of release ten at a time, so a release  *)
(* gets through while an acquire waits for the semaphore.                  *)
(***************************************************************************)
EXTENDS Integers, Sequences, FiniteSets

CONSTANTS
    Call,       \* the calls that can be under way
    Pool,       \* the execution pools: one per process and tool
    Threads,    \* Threads[p]: num_workers, the max_concurrency of a pool, > 0
    RateLimit,  \* RateLimit[p]: the rate_limit of the tool's configuration, > 0
    None

VARIABLES
    limit,      \* the limit the actor was created with, 0 before
    ready,      \* the pools whose constructor has run
    sem,        \* _semaphore
    mailbox,    \* calls of acquire that wait, the first one first
    stage,      \* stage[k]: where a call is
    pool,       \* pool[k]: the pool it was given to
    returning   \* calls of release under way

\* sent: to a pool.  acquiring: a thread waits in ray.get.  running: fn runs
\* under a token.  ok, failed: over, with the value of fn or with None.
Stages == {"idle", "sent", "acquiring", "running", "ok", "failed"}

InitLimiter ==
    /\ limit = 0 /\ ready = {} /\ sem = 0 /\ mailbox = <<>> /\ returning = 0
    /\ stage = [k \in Call |-> "idle"]
    /\ pool = [k \in Call |-> None]

Running == {k \in Call : stage[k] = "running"}
Busy(p) == {k \in Call : pool[k] = p /\ stage[k] \in {"acquiring", "running"}}

\* The constructor of a pool: get_if_exists, so the first one sets the limit.
StartPool(p) ==
    /\ p \notin ready
    /\ ready' = ready \cup {p}
    /\ \/ limit = 0 /\ limit' = RateLimit[p] /\ sem' = RateLimit[p]
       \/ limit # 0 /\ UNCHANGED <<limit, sem>>
    /\ UNCHANGED <<mailbox, stage, pool, returning>>

\* execution_pool.execute.remote for the calls of K.
Send(K, to) ==
    /\ stage' = [k \in Call |-> IF k \in K THEN "sent" ELSE stage[k]]
    /\ pool' = [k \in Call |-> IF k \in K THEN to[k] ELSE pool[k]]
    /\ UNCHANGED <<limit, ready, sem, mailbox, returning>>

\* A thread of the pool takes the call and asks for a token.
Enter(k) ==
    /\ stage[k] = "sent" /\ pool[k] \in ready
    /\ Cardinality(Busy(pool[k])) < Threads[pool[k]]
    /\ stage' = [stage EXCEPT ![k] = "acquiring"]
    /\ mailbox' = Append(mailbox, k)
    /\ UNCHANGED <<limit, ready, sem, pool, returning>>

\* acquire, for the first call in the mailbox.
Acquire ==
    /\ mailbox # <<>> /\ sem > 0
    /\ sem' = sem - 1
    /\ mailbox' = Tail(mailbox)
    /\ stage' = [stage EXCEPT ![Head(mailbox)] = "running"]
    /\ UNCHANGED <<limit, ready, pool, returning>>

\* Mutant: the token is given back on success only.
ReturnKeeping(k, result) ==
    /\ stage[k] = "running"
    /\ stage' = [stage EXCEPT ![k] = result]
    /\ returning' = returning + (IF result = "ok" THEN 1 ELSE 0)
    /\ UNCHANGED <<limit, ready, sem, mailbox, pool>>

\* fn returns or raises; either way the ExitStack sends the release.
Return(k, result) ==
    /\ stage[k] = "running"
    /\ stage' = [stage EXCEPT ![k] = result]
    /\ returning' = returning + 1
    /\ UNCHANGED <<limit, ready, sem, mailbox, pool>>

\* The caller has the result.
Collect(k) ==
    /\ stage[k] \in {"ok", "failed"}
    /\ stage' = [stage EXCEPT ![k] = "idle"]
    /\ pool' = [pool EXCEPT ![k] = None]
    /\ UNCHANGED <<limit, ready, sem, mailbox, returning>>

Release ==
    /\ returning > 0
    /\ returning' = returning - 1 /\ sem' = sem + 1
    /\ UNCHANGED <<limit, ready, mailbox, stage, pool>>

\* What the limiter and its pools do on their own.
Serve ==
    \/ \E k \in Call : Enter(k) \/ (\E r \in {"ok", "failed"} : Return(k, r))
    \/ Acquire \/ Release

-----------------------------------------------------------------------------
(* Properties.                                                              *)

\* No token is lost or made, whichever function raises and in whatever order
\* acquires and releases are served: those in the bucket, those under which
\* a function runs and those on their way back are the limit the actor was
\* created with.  So no more functions than that run at once, in all pools.
TokensConserved == sem + Cardinality(Running) + returning = limit
=============================================================================
