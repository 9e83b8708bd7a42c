-------------------------- MODULE SFTTrainerProofs --------------------------
(***************************************************************************)
(* Theorems about SFTTrainer for any number of ranks, steps, files, runs   *)
(* and any configuration: the lockstep of its ranks (IInv), and what it    *)
(* settles about the model they train and the checkpoints they write.  Of  *)
(* these no rank goes on before one that is due is complete, none is       *)
(* written twice, the evaluation script finds the last one, and all ranks  *)
(* together do what SequentialFit does.                                    *)
(***************************************************************************)
EXTENDS CheckpointResolution, TLAPS

-----------------------------------------------------------------------------
(* Type correctness                                                        *)

\* A rank that is in the body of the loop has been handed a batch.
InLoop == \A r \in Rank : pc[r] \notin {"fetch", "done"} => step[r] \in Steps

TypeInv == TypeOK /\ InLoop

LEMMA ConstantTypes ==
    /\ Steps \subseteq Nat \ {0}
    /\ \A s \in Steps : s - 1 \in {0} \cup Steps
    /\ MicroBatches \in Nat \ {0} /\ ValBatches \in Nat
    /\ NParts \in Nat \ {0, 1} /\ Part \subseteq Nat
    /\ Rank0 \in Rank
<1>1. StepsPerEpoch * TotalEpochs \in Nat
  BY ConfigAssumption
<1>2. QED
  BY <1>1, ConfigAssumption, RankAssumption DEF Steps, Part

LEMMA InitTypeInv == Init => TypeInv
  BY ConstantTypes DEF Init, TypeInv, TypeOK, InLoop, Local, NoFile

\* One rank moves to another stage of the loop body and leaves the files and
\* what else is shared alone.
LEMMA MoveTypes ==
    ASSUME TypeInv, NEW r \in Rank,
           NEW to \in Collective \cup Local \cup Stopped, NEW n \in Nat,
           Goto(r, to, n), step[r] \in Steps, UNCHANGED <<step, alive, run>>,
           inside' \in [Rank -> BOOLEAN], entered' \in [Rank -> Nat],
           grads' \in [Rank -> SUBSET (Steps \X Nat)],
           params' \in [Rank -> SUBSET Steps], sched' \in [Rank -> Nat],
           finite' \in SUBSET Steps, gathered' \in [Rank -> SUBSET Steps],
           dirs' \in SUBSET Steps,
           file' \in [Steps -> [Part -> [run : Nat, weights : [Rank -> SUBSET Steps]]]],
           remote' \in [Steps -> [Part -> [run : Nat, weights : [Rank -> SUBSET Steps]]]]
    PROVE  TypeInv'
  BY DEF TypeInv, TypeOK, InLoop, Goto

LEMMA LeaveTypes ==
    ASSUME TypeInv, NEW r \in Rank, NEW stage \in Collective, Leave(r, stage),
           NEW to \in Collective \cup Local \cup Stopped, NEW n \in Nat,
           Goto(r, to, n), grads' \in [Rank -> SUBSET (Steps \X Nat)]
    PROVE  TypeInv'
<1>1. step[r] \in Steps
  BY DEF Leave, TypeInv, InLoop, Collective
<1>2. UNCHANGED <<dirs, file, remote>>
  BY DEF Leave, disk
<1>3. QED
  BY <1>1, <1>2, MoveTypes DEF Leave, TypeInv, TypeOK

LEMMA EnterTypes ==
    ASSUME TypeInv, NEW r \in Rank, Enter(r) \/ EnterNorm(r) \/ EnterGather(r)
    PROVE  TypeInv'
<1>1. Post(r)
  BY DEF Enter, EnterNorm, EnterGather
<1>2. finite' \in SUBSET Steps
  <2>1. CASE EnterNorm(r)
    <3>1. step[r] \in Steps
      BY <2>1 DEF EnterNorm, TypeInv, InLoop
    <3>2. finite' = finite \/ finite' = finite \cup {step[r]}
      BY <2>1 DEF EnterNorm
    <3>3. QED
      BY <3>1, <3>2 DEF TypeInv, TypeOK
  <2>2. QED
    BY <2>1 DEF Enter, EnterGather, TypeInv, TypeOK
<1>3. gathered' \in [Rank -> SUBSET Steps]
  BY DEF Enter, EnterNorm, EnterGather, TypeInv, TypeOK
<1>4. inside' \in [Rank -> BOOLEAN] /\ entered' \in [Rank -> Nat]
  BY <1>1 DEF Post, TypeInv, TypeOK
<1>5. UNCHANGED <<pc, step, left, grads, params, sched, alive, run, dirs, file,
                  remote>>
  BY <1>1 DEF Post, disk
<1>6. TypeOK'
  BY <1>2, <1>3, <1>4, <1>5 DEF TypeInv, TypeOK
<1>7. InLoop'
  BY <1>5 DEF TypeInv, InLoop
<1>8. QED
  BY <1>6, <1>7 DEF TypeInv

LEMMA FetchTypes ==
    ASSUME TypeInv, NEW r \in Rank, Fetch(r)
    PROVE  TypeInv'
<1>1. CASE step[r] + 1 \in Steps /\ step' = [step EXCEPT ![r] = @ + 1]
             /\ grads' = [grads EXCEPT ![r] = {}]
             /\ Goto(r, "micro", MicroBatches)
  BY <1>1, ConstantTypes
  DEF Fetch, TypeInv, TypeOK, InLoop, Goto, disk, Collective
<1>2. CASE Goto(r, "done", 0) /\ UNCHANGED <<step, grads>>
  BY <1>2 DEF Fetch, TypeInv, TypeOK, InLoop, Goto, disk, Stopped
<1>3. QED
  BY <1>1, <1>2 DEF Fetch

LEMMA TrainTypes ==
    ASSUME TypeInv, NEW r \in Rank,
           LeaveMicro(r) \/ LeaveNorm(r) \/ OptimizerStep(r) \/ LeaveLoss(r)
    PROVE  TypeInv'
<1> DEFINE Stage == Collective \cup Local \cup Stopped
<1>1. CASE LeaveMicro(r)
  <2>1. <<step[r], left[r]>> \in Steps \X Nat
    BY <1>1 DEF LeaveMicro, Leave, TypeInv, TypeOK, InLoop
  <2>2. grads' \in [Rank -> SUBSET (Steps \X Nat)]
    BY <1>1, <2>1 DEF LeaveMicro, TypeInv, TypeOK
  <2>3. \E to \in Stage, n \in Nat : Goto(r, to, n)
    BY <1>1 DEF LeaveMicro, TypeInv, TypeOK, Collective
  <2>4. Leave(r, "micro") /\ "micro" \in Collective
    BY <1>1 DEF LeaveMicro, Collective
  <2>5. QED
    BY <2>2, <2>3, <2>4, LeaveTypes
<1>2. CASE LeaveNorm(r)
  BY <1>2, LeaveTypes DEF LeaveNorm, TypeInv, TypeOK, Collective, Local
<1>3. CASE OptimizerStep(r)
  <2>1. step[r] \in Steps
    BY <1>3 DEF OptimizerStep, TypeInv, InLoop
  <2>2. params' \in [Rank -> SUBSET Steps]
    <3>1. \/ params' = [params EXCEPT ![r] = params[r] \cup {step[r]}]
          \/ params' = params
      BY <1>3 DEF OptimizerStep
    <3>2. params[r] \cup {step[r]} \in SUBSET Steps
      BY <2>1 DEF TypeInv, TypeOK
    <3>3. QED
      BY <3>1, <3>2 DEF TypeInv, TypeOK
  <2>3. grads' \in [Rank -> SUBSET (Steps \X Nat)]
    BY <1>3 DEF OptimizerStep, TypeInv, TypeOK
  <2>4. sched' \in [Rank -> Nat]
    BY <1>3 DEF OptimizerStep, TypeInv, TypeOK
  <2>5. QED
    BY <1>3, <2>1, <2>2, <2>3, <2>4, MoveTypes
    DEF OptimizerStep, TypeInv, TypeOK, Collective, disk
<1>4. CASE LeaveLoss(r)
  <2>1. \E to \in Stage, n \in Nat : Goto(r, to, n)
    BY <1>4, ConstantTypes DEF LeaveLoss, Collective, Local, Stopped
  <2>2. QED
    BY <1>4, <2>1, LeaveTypes DEF LeaveLoss, TypeInv, TypeOK, Collective
<1>5. QED
  BY <1>1, <1>2, <1>3, <1>4

LEMMA ValidateTypes ==
    ASSUME TypeInv, NEW r \in Rank,
           LeaveVal(r) \/ ValMean(r) \/ LeaveValBarrier(r)
    PROVE  TypeInv'
<1> DEFINE Stage == Collective \cup Local \cup Stopped
<1>1. CASE LeaveVal(r)
  <2>1. \E to \in Stage, n \in Nat : Goto(r, to, n)
    BY <1>1 DEF LeaveVal, TypeInv, TypeOK, Collective, Local
  <2>2. QED
    BY <1>1, <2>1, LeaveTypes DEF LeaveVal, TypeInv, TypeOK, Collective
<1>2. CASE ValMean(r)
  <2>1. step[r] \in Steps
    BY <1>2 DEF ValMean, TypeInv, InLoop
  <2>2. \E to \in Stage, n \in Nat : Goto(r, to, n)
    BY <1>2 DEF ValMean, Collective, Stopped
  <2>3. QED
    BY <1>2, <2>1, <2>2, MoveTypes DEF ValMean, TypeInv, TypeOK, disk
<1>3. CASE LeaveValBarrier(r)
  <2>1. \E to \in Stage, n \in Nat : Goto(r, to, n)
    BY <1>3 DEF LeaveValBarrier, Collective, Local
  <2>2. QED
    BY <1>3, <2>1, LeaveTypes DEF LeaveValBarrier, TypeInv, TypeOK, Collective
<1>4. QED
  BY <1>1, <1>2, <1>3

LEMMA SaveTypes ==
    ASSUME TypeInv, NEW r \in Rank,
           LeaveGather(r) \/ Mkdir(r) \/ Write(r) \/ Upload(r)
                          \/ LeaveSaveBarrier(r)
    PROVE  TypeInv'
<1> DEFINE Stage == Collective \cup Local \cup Stopped
           Files == [Part -> [run : Nat, weights : [Rank -> SUBSET Steps]]]
<1>1. CASE LeaveGather(r)
  <2>1. \E to \in Stage, n \in Nat : Goto(r, to, n)
    BY <1>1 DEF LeaveGather, Collective, Local
  <2>2. QED
    BY <1>1, <2>1, LeaveTypes DEF LeaveGather, TypeInv, TypeOK, Collective
<1>2. CASE Mkdir(r)
  <2>1. step[r] \in Steps
    BY <1>2 DEF Mkdir, TypeInv, InLoop
  <2>2. dirs' \in SUBSET Steps
    BY <1>2, <2>1 DEF Mkdir, TypeInv, TypeOK
  <2>3. QED
    BY <1>2, <2>1, <2>2, MoveTypes, ConstantTypes
    DEF Mkdir, TypeInv, TypeOK, Local
<1>3. CASE Write(r)
  <2>1. step[r] \in Steps
    BY <1>3 DEF Write, TypeInv, InLoop
  <2>2. Stamp \in [run : Nat, weights : [Rank -> SUBSET Steps]]
    BY DEF Stamp, TypeInv, TypeOK
  <2>3. file' \in [Steps -> Files]
    BY <1>3, <2>1, <2>2 DEF Write, TypeInv, TypeOK
  <2>4. \E to \in Stage, n \in Nat : Goto(r, to, n)
    BY <1>3 DEF Write, TypeInv, TypeOK, Collective, Local
  <2>5. QED
    BY <1>3, <2>1, <2>3, <2>4, MoveTypes DEF Write, TypeInv, TypeOK
<1>4. CASE Upload(r)
  <2>1. step[r] \in Steps
    BY <1>4 DEF Upload, TypeInv, InLoop
  <2>2. PICK copied \in SUBSET Part :
          remote' = [remote EXCEPT ![step[r]] =
              [i \in Part |-> IF i \in copied THEN file[step[r]][i]
                                              ELSE remote[step[r]][i]]]
    BY <1>4, <2>1 DEF Upload, TypeInv, TypeOK
  <2>3. \A i \in Part : file[step[r]][i] \in [run : Nat, weights : [Rank -> SUBSET Steps]]
                     /\ remote[step[r]][i] \in [run : Nat, weights : [Rank -> SUBSET Steps]]
    BY <2>1 DEF TypeInv, TypeOK
  <2>4. remote' \in [Steps -> Files]
    BY <2>1, <2>2, <2>3 DEF TypeInv, TypeOK
  <2>5. QED
    BY <1>4, <2>1, <2>4, MoveTypes DEF Upload, TypeInv, TypeOK, Collective
<1>5. CASE LeaveSaveBarrier(r)
  <2>1. \E to \in Stage, n \in Nat : Goto(r, to, n)
    BY <1>5 DEF LeaveSaveBarrier, Local, Stopped
  <2>2. QED
    BY <1>5, <2>1, LeaveTypes DEF LeaveSaveBarrier, TypeInv, TypeOK, Collective
<1>6. QED
  BY <1>1, <1>2, <1>3, <1>4, <1>5

LEMMA NextTypeInv == TypeInv /\ [Next]_vars => TypeInv'
<1> SUFFICES ASSUME TypeInv, [Next]_vars PROVE TypeInv'
  OBVIOUS
<1>1. CASE alive /\ \E r \in Rank : RankStep(r)
  BY <1>1, EnterTypes, FetchTypes, TrainTypes, ValidateTypes, SaveTypes DEF RankStep
<1>2. CASE Crash
  BY <1>2 DEF Crash, TypeInv, TypeOK, InLoop, local, disk
<1>3. CASE Restart
  BY <1>3, ConstantTypes DEF Restart, Fresh, TypeInv, TypeOK, InLoop, Local, disk
<1>4. CASE UNCHANGED vars
  BY <1>4 DEF vars, TypeInv, TypeOK, InLoop
<1>5. QED
  BY <1>1, <1>2, <1>3, <1>4 DEF Next, Over

LEMMA TypeInvariant == Spec => []TypeInv
<1>1. QED
  BY InitTypeInv, NextTypeInv, PTL DEF Spec

\* Type correctness.
THEOREM TypeCorrect == Spec => []TypeOK
<1>1. TypeInv => TypeOK
  BY DEF TypeInv
<1>2. QED
  BY <1>1, TypeInvariant, PTL

-----------------------------------------------------------------------------
(* Collectives match.  A rank's upcoming collective changes only when it    *)
(* leaves one, and then to one that is the same for every rank.             *)

AfterStep(s) ==
    IF s + 1 \in Steps THEN <<"micro", s + 1, MicroBatches>>
                       ELSE <<"end", s, 0>>

AfterValidation(s) ==
    IF SaveDue(s) THEN <<"gather", s, 0>> ELSE AfterStep(s)

After(u) ==
    IF u[1] = "micro" THEN
        IF u[3] > 1 THEN <<"micro", u[2], u[3] - 1>> ELSE <<"norm", u[2], 0>>
    ELSE IF u[1] = "norm" THEN <<"loss", u[2], 0>>
    ELSE IF u[1] = "loss" THEN
        IF ~ValDue(u[2]) THEN AfterValidation(u[2])
        ELSE IF ValBatches > 0 THEN <<"val", u[2], ValBatches>>
        ELSE <<"valbar", u[2], 0>>
    ELSE IF u[1] = "val" THEN
        IF u[3] > 1 THEN <<"val", u[2], u[3] - 1>> ELSE <<"valbar", u[2], 0>>
    ELSE IF u[1] = "valbar" THEN AfterValidation(u[2])
    ELSE IF u[1] = "gather" THEN <<"savebar", u[2], 0>>
    ELSE IF IsLast(u[2]) THEN <<"end", u[2], 0>>
    ELSE AfterStep(u[2])

\* Stages that have no counter have left the last one at 0.
NothingLeft ==
    \A r \in Rank : pc[r] \in {"norm", "loss", "valbar", "gather", "savebar"}
                        => left[r] = 0

LockInv ==
    /\ \A r \in Rank : inside[r] => pc[r] \in Collective
    /\ \A p, q \in Rank :
        /\ entered[p] <= entered[q] + 1
        /\ (inside[p] <=> inside[q]) /\ entered[p] = entered[q]
               => Upcoming(p) = Upcoming(q)
        /\ inside[p] /\ ~inside[q] /\ entered[p] = entered[q]
               => Upcoming(q) = After(Upcoming(p))
        /\ entered[p] = entered[q] + 1
               => /\ inside[p]
                  /\ Upcoming(p) = IF inside[q] THEN After(Upcoming(q))
                                               ELSE Upcoming(q)

IInv == TypeInv /\ NothingLeft /\ LockInv

LEMMA InitIInv == Init => IInv
<1> SUFFICES ASSUME Init PROVE IInv
  OBVIOUS
<1>1. NothingLeft
  BY DEF Init, NothingLeft
<1>2. LockInv
  BY DEF Init, LockInv, Upcoming, Collective
<1>3. QED
  BY <1>1, <1>2, InitTypeInv DEF IInv

\* The three kinds of step a rank takes, seen from the other ranks.
Enters(r) ==
    /\ ~inside[r] /\ pc[r] \in Collective /\ UNCHANGED <<pc, step, left>>
    /\ inside' = [inside EXCEPT ![r] = TRUE]
    /\ entered' = [entered EXCEPT ![r] = @ + 1]

Others(r) ==
    \A q \in Rank \ {r} : pc'[q] = pc[q] /\ step'[q] = step[q] /\ left'[q] = left[q]

Works(r) ==
    /\ UNCHANGED <<inside, entered>> /\ ~inside[r]
    /\ Others(r) /\ Upcoming(r)' = Upcoming(r)

Leaves(r) ==
    /\ inside[r] /\ \A q \in Rank : entered[q] >= entered[r]
    /\ inside' = [inside EXCEPT ![r] = FALSE] /\ UNCHANGED entered
    /\ Others(r) /\ Upcoming(r)' = After(Upcoming(r))

LEMMA EnterKind ==
    ASSUME NEW r \in Rank, Enter(r) \/ EnterNorm(r) \/ EnterGather(r)
    PROVE  Enters(r)
  BY DEF Enter, EnterNorm, EnterGather, Post, Enters, Collective

LEMMA WorkKind ==
    ASSUME IInv, NEW r \in Rank,
           Fetch(r) \/ OptimizerStep(r) \/ ValMean(r) \/ Mkdir(r) \/ Write(r)
                    \/ Upload(r)
    PROVE  Works(r)
<1>0. pc[r] \notin Collective => ~inside[r]
  BY DEF IInv, LockInv
<1> USE <1>0 DEF IInv, TypeInv, TypeOK, Works, Others, Goto, Upcoming, Collective
<1>1. CASE Fetch(r)
  BY <1>1, ConstantTypes DEF Fetch
<1>2. CASE OptimizerStep(r)
  BY <1>2 DEF OptimizerStep
<1>3. CASE ValMean(r)
  BY <1>3 DEF ValMean
<1>4. CASE Mkdir(r)
  BY <1>4 DEF Mkdir
<1>5. CASE Write(r)
  BY <1>5 DEF Write
<1>6. CASE Upload(r)
  BY <1>6 DEF Upload
<1>7. QED
  BY <1>1, <1>2, <1>3, <1>4, <1>5, <1>6

LEMMA LeaveKind ==
    ASSUME IInv, NEW r \in Rank,
           LeaveMicro(r) \/ LeaveNorm(r) \/ LeaveLoss(r) \/ LeaveVal(r)
               \/ LeaveValBarrier(r) \/ LeaveGather(r) \/ LeaveSaveBarrier(r)
    PROVE  Leaves(r)
<1> USE DEF IInv, TypeInv, TypeOK, NothingLeft, Leaves, Leave, Complete, Others,
            Goto, Upcoming, After, AfterStep, AfterValidation, Collective
<1>1. CASE LeaveMicro(r)
  BY <1>1 DEF LeaveMicro
<1>2. CASE LeaveNorm(r)
  BY <1>2 DEF LeaveNorm
<1>3. CASE LeaveLoss(r)
  BY <1>3 DEF LeaveLoss
<1>4. CASE LeaveVal(r)
  BY <1>4 DEF LeaveVal
<1>5. CASE LeaveValBarrier(r)
  BY <1>5 DEF LeaveValBarrier
<1>6. CASE LeaveGather(r)
  BY <1>6 DEF LeaveGather
<1>7. CASE LeaveSaveBarrier(r)
  BY <1>7 DEF LeaveSaveBarrier
<1>8. QED
  BY <1>1, <1>2, <1>3, <1>4, <1>5, <1>6, <1>7


LEMMA EnterLock ==
    ASSUME IInv, NEW r \in Rank, Enters(r)
    PROVE  LockInv'
<1>1. \A q \in Rank : Upcoming(q)' = Upcoming(q)
  BY DEF Enters, Upcoming
<1>2. \A q \in Rank : entered[r] <= entered[q] /\ entered[q] \in Nat
  BY DEF IInv, LockInv, Enters, TypeInv, TypeOK
<1>3. \A q \in Rank : /\ entered'[q] = IF q = r THEN entered[q] + 1 ELSE entered[q]
                      /\ inside'[q] <=> (q = r \/ inside[q])
  BY DEF Enters, IInv, TypeInv, TypeOK
<1>4. \A q \in Rank : inside'[q] => pc'[q] \in Collective
  BY <1>3 DEF IInv, LockInv, Enters
<1>5. \A q \in Rank : After(Upcoming(q))' = After(Upcoming(q))
  BY <1>1 DEF After, AfterStep, AfterValidation
<1>6. ASSUME NEW p \in Rank, NEW q \in Rank
      PROVE  /\ entered'[p] <= entered'[q] + 1
             /\ (inside'[p] <=> inside'[q]) /\ entered'[p] = entered'[q]
                    => Upcoming(p) = Upcoming(q)
             /\ inside'[p] /\ ~inside'[q] /\ entered'[p] = entered'[q]
                    => Upcoming(q) = After(Upcoming(p))
             /\ entered'[p] = entered'[q] + 1
                    => /\ inside'[p]
                       /\ Upcoming(p) = IF inside'[q] THEN After(Upcoming(q))
                                                     ELSE Upcoming(q)
  <2>1. ~inside[r]
    BY DEF Enters
  <2>2. /\ entered[p] <= entered[q] + 1 /\ entered[q] <= entered[p] + 1
        /\ inside[p] /\ ~inside[q] /\ entered[p] = entered[q]
               => Upcoming(q) = After(Upcoming(p))
        /\ inside[q] /\ ~inside[p] /\ entered[p] = entered[q]
               => Upcoming(p) = After(Upcoming(q))
        /\ (inside[p] <=> inside[q]) /\ entered[p] = entered[q]
               => Upcoming(p) = Upcoming(q)
        /\ entered[p] = entered[q] + 1 /\ ~inside[q]
               => inside[p] /\ Upcoming(p) = Upcoming(q)
        /\ entered[q] = entered[p] + 1 /\ ~inside[p]
               => inside[q] /\ Upcoming(p) = Upcoming(q)
    BY DEF IInv, LockInv
  <2>3. CASE p = r /\ q # r
    BY <1>2, <1>3, <2>1, <2>2, <2>3
  <2>0. CASE p # r /\ q = r
    BY <1>2, <1>3, <2>1, <2>2, <2>0
  <2>6. CASE p = r /\ q = r
    BY <1>2, <1>3, <2>6
  <2>4. CASE p # r /\ q # r
    BY <1>2, <1>3, <2>4 DEF IInv, LockInv
  <2>5. QED
    BY <2>0, <2>3, <2>4, <2>6
<1>7. QED
  BY <1>1, <1>4, <1>5, <1>6 DEF LockInv

LEMMA WorkLock ==
    ASSUME IInv, NEW r \in Rank, Works(r)
    PROVE  LockInv'
<1>1. \A q \in Rank : Upcoming(q)' = Upcoming(q)
  BY DEF Works, Others, Upcoming
<1>2. \A q \in Rank : inside'[q] => pc'[q] \in Collective
  BY DEF IInv, LockInv, Works, Others
<1>3. \A q \in Rank : After(Upcoming(q))' = After(Upcoming(q))
  BY <1>1 DEF After, AfterStep, AfterValidation
<1>4. QED
  BY <1>1, <1>2, <1>3 DEF IInv, LockInv, Works

LEMMA LeaveLock ==
    ASSUME IInv, NEW r \in Rank, Leaves(r)
    PROVE  LockInv'
<1>1. \A q \in Rank \ {r} : Upcoming(q)' = Upcoming(q)
  BY DEF Leaves, Others, Upcoming
<1>2. \A q \in Rank : inside'[q] <=> (q # r /\ inside[q])
  BY DEF Leaves, IInv, TypeInv, TypeOK
<1>3. \A q \in Rank : inside'[q] => pc'[q] \in Collective
  BY <1>2 DEF IInv, LockInv, Leaves, Others
<1>4. \A q \in Rank : entered[q] \in Nat /\ entered[q] >= entered[r]
  BY DEF Leaves, IInv, TypeInv, TypeOK
<1>5. ASSUME NEW p \in Rank, NEW q \in Rank
      PROVE  /\ entered'[p] <= entered'[q] + 1
             /\ (inside'[p] <=> inside'[q]) /\ entered'[p] = entered'[q]
                    => Upcoming(p)' = Upcoming(q)'
             /\ inside'[p] /\ ~inside'[q] /\ entered'[p] = entered'[q]
                    => Upcoming(q)' = After(Upcoming(p))'
             /\ entered'[p] = entered'[q] + 1
                    => /\ inside'[p]
                       /\ Upcoming(p)' = IF inside'[q] THEN After(Upcoming(q))'
                                                      ELSE Upcoming(q)'
  <2>1. After(Upcoming(p))' = After(Upcoming(p)')
    BY DEF After, AfterStep, AfterValidation
  <2>2. CASE p = r /\ q = r
    BY <1>2, <1>4, <2>2 DEF Leaves
  <2>3. CASE p = r /\ q # r
    <3>1. /\ Upcoming(p)' = After(Upcoming(p)) /\ Upcoming(q)' = Upcoming(q)
          /\ ~inside'[p] /\ inside[p] /\ (inside'[q] <=> inside[q])
          /\ entered' = entered /\ entered[p] <= entered[q]
      BY <1>1, <1>2, <1>4, <2>3 DEF Leaves
    <3>2. inside[p] /\ ~inside[q] /\ entered[p] = entered[q]
              => Upcoming(q) = After(Upcoming(p))
      BY DEF IInv, LockInv
    <3>3. entered[p] \in Nat /\ entered[q] \in Nat
      BY <1>4
    <3>4. QED
      BY <3>1, <3>2, <3>3
  <2>4. CASE p # r /\ q = r
    BY <1>1, <1>2, <1>4, <2>1, <2>4 DEF Leaves, IInv, LockInv
  <2>5. CASE p # r /\ q # r
    <3>1. Upcoming(p)' = Upcoming(p) /\ Upcoming(q)' = Upcoming(q)
      BY <1>1, <2>5
    <3>2. After(Upcoming(p))' = After(Upcoming(p))
      BY <2>1, <3>1
    <3>3. (inside'[p] <=> inside[p]) /\ (inside'[q] <=> inside[q]) /\ entered' = entered
      BY <1>2, <2>5 DEF Leaves
    <3>4. QED
      BY <3>1, <3>2, <3>3 DEF IInv, LockInv
  <2>6. QED
    BY <2>2, <2>3, <2>4, <2>5
<1>6. QED
  BY <1>3, <1>5 DEF LockInv


LEMMA NextNothingLeft == IInv /\ [Next]_vars => NothingLeft'
<1> SUFFICES ASSUME IInv, [Next]_vars PROVE NothingLeft'
  OBVIOUS
<1> USE DEF IInv, TypeInv, TypeOK, NothingLeft
<1>1. ASSUME NEW r \in Rank, Enter(r) \/ EnterNorm(r) \/ EnterGather(r)
      PROVE  NothingLeft'
  BY <1>1 DEF Enter, EnterNorm, EnterGather, Post
<1>2. ASSUME NEW r \in Rank, NEW to, NEW n, Goto(r, to, n),
             n = 0 \/ to \notin {"norm", "loss", "valbar", "gather", "savebar"}
      PROVE  NothingLeft'
  BY <1>2 DEF Goto
<1>3. ASSUME NEW r \in Rank, Fetch(r) \/ LeaveMicro(r) \/ LeaveNorm(r)
                 \/ OptimizerStep(r) \/ LeaveLoss(r)
      PROVE  NothingLeft'
  BY <1>2, <1>3 DEF Fetch, LeaveMicro, LeaveNorm, OptimizerStep, LeaveLoss
<1>4. ASSUME NEW r \in Rank, LeaveVal(r) \/ ValMean(r) \/ LeaveValBarrier(r)
      PROVE  NothingLeft'
  BY <1>2, <1>4 DEF LeaveVal, ValMean, LeaveValBarrier
<1>5. ASSUME NEW r \in Rank, LeaveGather(r) \/ Mkdir(r) \/ Write(r) \/ Upload(r)
                 \/ LeaveSaveBarrier(r)
      PROVE  NothingLeft'
  BY <1>2, <1>5 DEF LeaveGather, Mkdir, Write, Upload, LeaveSaveBarrier
<1>6. CASE Crash \/ UNCHANGED vars
  BY <1>6 DEF Crash, local, vars
<1>7. CASE Restart
  BY <1>7 DEF Restart, Fresh
<1>8. QED
  BY <1>1, <1>3, <1>4, <1>5, <1>6, <1>7 DEF Next, Over, RankStep

LEMMA NextIInv == IInv /\ [Next]_vars => IInv'
<1> SUFFICES ASSUME IInv, [Next]_vars PROVE IInv'
  OBVIOUS
<1>1. TypeInv' /\ NothingLeft'
  BY NextTypeInv, NextNothingLeft DEF IInv
<1>2. ASSUME NEW r \in Rank, RankStep(r) PROVE LockInv'
  BY <1>2, EnterKind, WorkKind, LeaveKind, EnterLock, WorkLock, LeaveLock
  DEF RankStep
<1>3. CASE Crash \/ UNCHANGED vars
  <2>1. UNCHANGED <<pc, step, left, inside, entered>>
    BY <1>3 DEF Crash, local, vars
  <2>2. \A q \in Rank : /\ Upcoming(q)' = Upcoming(q)
                        /\ After(Upcoming(q))' = After(Upcoming(q))
    BY <2>1 DEF Upcoming, After, AfterStep, AfterValidation
  <2>3. \A q \in Rank : /\ entered'[q] = entered[q] /\ pc'[q] = pc[q]
                        /\ inside'[q] <=> inside[q]
    BY <2>1
  <2>4. QED
    BY <1>1, <2>2, <2>3 DEF IInv, LockInv
<1>4. CASE Restart
  <2>1. /\ pc' = [r \in Rank |-> "fetch"] /\ step' = [r \in Rank |-> 0]
        /\ inside' = [r \in Rank |-> FALSE] /\ entered' = [r \in Rank |-> 0]
    BY <1>4 DEF Restart, Fresh
  <2>2. \A p, q \in Rank : Upcoming(p)' = Upcoming(q)'
    BY <2>1 DEF Upcoming, Collective
  <2>3. \A q \in Rank : entered'[q] = 0 /\ ~inside'[q]
    BY <2>1
  <2>4. QED
    BY <1>1, <2>2, <2>3 DEF IInv, LockInv
<1>5. QED
  BY <1>1, <1>2, <1>3, <1>4 DEF IInv, Next, Over

\* The collectives of the ranks are matched: whatever the configuration, the
\* number of ranks and the files rank 0 writes meanwhile, ranks that are
\* inside a collective after as many of them are inside the same one.
THEOREM CollectivesAlwaysMatch == Spec => []CollectivesMatch
<1>1. IInv => CollectivesMatch
  BY DEF IInv, LockInv, CollectivesMatch
<1>2. QED
  BY <1>1, InitIInv, NextIInv, PTL DEF Spec

-----------------------------------------------------------------------------
(* The model.  What a rank holds is settled by where it is, and where the  *)
(* others are follows from where it is.                                    *)

LEMMA StepTypes ==
    ASSUME TypeInv, NEW r \in Rank
    PROVE  /\ step[r] \in Nat /\ left[r] \in Nat /\ entered[r] \in Nat
           /\ pc[r] \in Collective \cup Local \cup Stopped
           /\ pc[r] \notin {"fetch", "done"} => step[r] \in Steps /\ step[r] >= 1
<1>1. \A s \in Steps : s \in Nat /\ s >= 1
  BY ConstantTypes
<1>2. step[r] \in {0} \cup Steps /\ left[r] \in Nat /\ entered[r] \in Nat
      /\ pc[r] \in Collective \cup Local \cup Stopped
  BY DEF TypeInv, TypeOK
<1>3. pc[r] \notin {"fetch", "done"} => step[r] \in Steps
  BY DEF TypeInv, InLoop
<1>4. QED
  BY <1>1, <1>2, <1>3

LEMMA NormIsNext ==
    ASSUME TypeInv, NEW q \in Rank, NEW s, NEW n, Upcoming(q) = <<"norm", s, n>>
    PROVE  pc[q] = "norm" /\ step[q] = s
  BY StepTypes DEF Upcoming, Collective, Local, Stopped

\* The norm of a step becomes known while all ranks are in its all-reduce.
LEMMA LastAtNorm ==
    ASSUME IInv, NEW r \in Rank, EnterNorm(r), finite' # finite
    PROVE  /\ finite' = finite \cup {step[r]}
           /\ \A q \in Rank : pc[q] = "norm" /\ step[q] = step[r]
<1>1. /\ finite' = finite \cup {step[r]} /\ pc[r] = "norm" /\ ~inside[r]
      /\ \A q \in Rank \ {r} : entered[q] > entered[r]
  BY DEF EnterNorm
<1>2. Upcoming(r) = <<"norm", step[r], left[r]>>
  BY <1>1 DEF Upcoming, Collective
<1>3. ASSUME NEW q \in Rank, q # r PROVE pc[q] = "norm" /\ step[q] = step[r]
  <2>1. entered[q] = entered[r] + 1
    BY <1>1, <1>3, StepTypes DEF IInv, LockInv
  <2>2. Upcoming(q) = Upcoming(r)
    BY <1>1, <2>1 DEF IInv, LockInv
  <2>3. QED
    BY <1>2, <2>2, NormIsNext DEF IInv
<1>4. QED
  BY <1>1, <1>3

\* Apart from the optimizer's own step, no step of a rank moves the line
\* between the updates behind it and those before it.
LEMMA PastStays ==
    ASSUME TypeInv, NEW r \in Rank, RankStep(r), ~OptimizerStep(r)
    PROVE  /\ \A q \in Rank : Past(q)' = Past(q)
           /\ UNCHANGED <<params, sched>>
<1> USE DEF Past, Goto, TypeInv, TypeOK
<1>1. CASE Enter(r) \/ EnterNorm(r) \/ EnterGather(r)
  BY <1>1 DEF Enter, EnterNorm, EnterGather, Post
<1>2. CASE Fetch(r)
  BY <1>2, StepTypes DEF Fetch
<1>3. CASE LeaveMicro(r) \/ LeaveNorm(r)
  BY <1>3 DEF LeaveMicro, LeaveNorm, Leave
<1>4. CASE LeaveLoss(r) \/ LeaveVal(r) \/ LeaveValBarrier(r)
  BY <1>4 DEF LeaveLoss, LeaveVal, LeaveValBarrier, Leave
<1>5. CASE LeaveGather(r) \/ LeaveSaveBarrier(r)
  BY <1>5 DEF LeaveGather, LeaveSaveBarrier, Leave
<1>6. CASE ValMean(r) \/ Mkdir(r) \/ Write(r) \/ Upload(r)
  BY <1>6 DEF ValMean, Mkdir, Write, Upload
<1>7. QED
  BY <1>1, <1>2, <1>3, <1>4, <1>5, <1>6 DEF RankStep

\* Only the all-reduce of the norm settles which updates are finite.
LEMMA FiniteStays ==
    ASSUME NEW r \in Rank, RankStep(r), ~EnterNorm(r)
    PROVE  finite' = finite
  BY DEF RankStep, Enter, EnterGather, Fetch, LeaveMicro, LeaveNorm, OptimizerStep,
         LeaveLoss, LeaveVal, ValMean, LeaveValBarrier, LeaveGather, Mkdir, Write,
         Upload, LeaveSaveBarrier, Leave

LEMMA ShardsKept ==
    ASSUME IInv, ShardsAgree, NEW r \in Rank, RankStep(r)
    PROVE  ShardsAgree'
<1>0. \A q \in Rank : Past(q) \in Int
  BY StepTypes DEF IInv, Past
<1>1. CASE OptimizerStep(r)
  <2>1. /\ pc[r] = "optim" /\ pc' = [pc EXCEPT ![r] = "loss"]
        /\ UNCHANGED <<step, finite>>
        /\ sched' = [sched EXCEPT ![r] = sched[r] + 1]
        /\ params' = IF step[r] \in finite
                     THEN [params EXCEPT ![r] = params[r] \cup {step[r]}] ELSE params
    BY <1>1 DEF OptimizerStep, Goto
  <2>2. step[r] \in Nat /\ step[r] >= 1
    BY <2>1, StepTypes DEF IInv
  <2>3. Past(r) = step[r] - 1 /\ Past(r)' = step[r]
    BY <2>1 DEF Past, IInv, TypeInv, TypeOK
  <2>4. \A q \in Rank \ {r} : Past(q)' = Past(q) /\ params'[q] = params[q]
                              /\ sched'[q] = sched[q]
    BY <2>1 DEF Past, IInv, TypeInv, TypeOK
  <2>5. sched'[r] = step[r]
    BY <2>1, <2>2, <2>3 DEF ShardsAgree, IInv, TypeInv, TypeOK
  <2>6. params'[r] = finite \cap (1 .. step[r])
    <3>1. 1 .. step[r] = (1 .. step[r] - 1) \cup {step[r]}
      BY <2>2
    <3>2. params[r] = finite \cap (1 .. step[r] - 1)
      BY <2>3 DEF ShardsAgree
    <3>3. params'[r] = IF step[r] \in finite THEN params[r] \cup {step[r]} ELSE params[r]
      BY <2>1 DEF IInv, TypeInv, TypeOK
    <3>4. QED
      BY <3>1, <3>2, <3>3
  <2>7. QED
    BY <2>1, <2>3, <2>4, <2>5, <2>6 DEF ShardsAgree
<1>2. CASE ~OptimizerStep(r) /\ finite' = finite
  BY <1>2, PastStays DEF ShardsAgree, IInv
<1>3. CASE EnterNorm(r) /\ finite' # finite
  <2>1. \A q \in Rank : step[r] \notin 1 .. Past(q)
    BY <1>3, LastAtNorm, StepTypes DEF Past, IInv
  <2>2. \A q \in Rank : Past(q)' = Past(q)
    BY <1>3 DEF EnterNorm, Post, Past
  <2>3. UNCHANGED <<params, sched>> /\ finite' = finite \cup {step[r]}
    BY <1>3, LastAtNorm DEF EnterNorm, Post
  <2>4. QED
    BY <2>1, <2>2, <2>3 DEF ShardsAgree
<1>4. QED
  BY <1>1, <1>2, <1>3, FiniteStays

-----------------------------------------------------------------------------
(* The gradients.                                                          *)

\* A rank has the gradients of the batches of this step it is through with.
GradInv ==
    \A r \in Rank :
        /\ pc[r] = "micro" => /\ left[r] \in 1 .. MicroBatches
                              /\ grads[r] = {step[r]} \X (left[r] + 1 .. MicroBatches)
        /\ pc[r] \in {"norm", "optim"} => grads[r] = {step[r]} \X (1 .. MicroBatches)

LEMMA GradElsewhere ==
    ASSUME TypeInv, GradInv, NEW r \in Rank, NEW to, NEW n, Goto(r, to, n),
           to \notin {"micro", "norm", "optim"}, UNCHANGED step,
           \A q \in Rank \ {r} : grads'[q] = grads[q]
    PROVE  GradInv'
  BY DEF GradInv, Goto, TypeInv, TypeOK

LEMMA GradKept ==
    ASSUME IInv, GradInv, NEW r \in Rank, RankStep(r)
    PROVE  GradInv'
<1> USE DEF IInv
<1>1. CASE Enter(r) \/ EnterNorm(r) \/ EnterGather(r)
  BY <1>1 DEF Enter, EnterNorm, EnterGather, Post, GradInv
<1>2. CASE Fetch(r)
  <2>1. CASE step' = [step EXCEPT ![r] = @ + 1] /\ grads' = [grads EXCEPT ![r] = {}]
             /\ Goto(r, "micro", MicroBatches)
    <3>1. /\ pc'[r] = "micro" /\ left'[r] = MicroBatches /\ grads'[r] = {}
          /\ MicroBatches \in Nat \ {0}
      BY <2>1, ConstantTypes DEF Goto, TypeInv, TypeOK
    <3>2. MicroBatches + 1 .. MicroBatches = {} /\ MicroBatches \in 1 .. MicroBatches
      BY <3>1
    <3>3. \A q \in Rank \ {r} : /\ pc'[q] = pc[q] /\ left'[q] = left[q]
                                /\ grads'[q] = grads[q] /\ step'[q] = step[q]
      BY <2>1 DEF Goto, TypeInv, TypeOK
    <3>4. grads'[r] = {step'[r]} \X (left'[r] + 1 .. MicroBatches)
      BY <3>1, <3>2
    <3>5. QED
      BY <3>1, <3>2, <3>3, <3>4 DEF GradInv
  <2>2. CASE Goto(r, "done", 0) /\ UNCHANGED <<step, grads>>
    BY <2>2, GradElsewhere
  <2>3. QED
    BY <1>2, <2>1, <2>2 DEF Fetch
<1>3. CASE LeaveMicro(r)
  <2>1. /\ pc[r] = "micro" /\ left[r] \in 1 .. MicroBatches /\ step' = step
        /\ grads[r] = {step[r]} \X (left[r] + 1 .. MicroBatches)
        /\ grads'[r] = grads[r] \cup {<<step[r], left[r]>>}
        /\ MicroBatches \in Nat
    BY <1>3, ConstantTypes DEF LeaveMicro, Leave, GradInv, TypeInv, TypeOK
  <2>2. left[r] .. MicroBatches = (left[r] + 1 .. MicroBatches) \cup {left[r]}
    BY <2>1
  <2>3. grads'[r] = {step[r]} \X (left[r] .. MicroBatches)
    BY <2>1, <2>2
  <2>4. \A q \in Rank \ {r} : pc'[q] = pc[q] /\ left'[q] = left[q] /\ grads'[q] = grads[q]
    BY <1>3 DEF LeaveMicro, Goto, TypeInv, TypeOK
  <2>5. CASE left[r] > 1
    <3>1. pc'[r] = "micro" /\ left'[r] = left[r] - 1
      BY <1>3, <2>5 DEF LeaveMicro, Goto, TypeInv, TypeOK
    <3>2. left'[r] \in 1 .. MicroBatches /\ left'[r] + 1 = left[r]
      BY <2>1, <2>5, <3>1
    <3>3. QED
      BY <2>1, <2>3, <2>4, <3>1, <3>2 DEF GradInv
  <2>6. CASE ~(left[r] > 1)
    <3>1. pc'[r] = "norm" /\ left[r] = 1
      BY <1>3, <2>1, <2>6 DEF LeaveMicro, Goto, TypeInv, TypeOK
    <3>2. QED
      BY <2>1, <2>3, <2>4, <3>1 DEF GradInv
  <2>7. QED
    BY <2>5, <2>6
<1>4. CASE LeaveNorm(r)
  BY <1>4 DEF LeaveNorm, Leave, Goto, GradInv, TypeInv, TypeOK
<1>5. CASE OptimizerStep(r)
  BY <1>5, GradElsewhere DEF OptimizerStep, TypeInv, TypeOK
<1>6. CASE LeaveLoss(r) \/ LeaveVal(r) \/ LeaveValBarrier(r)
  BY <1>6, GradElsewhere DEF LeaveLoss, LeaveVal, LeaveValBarrier, Leave
<1>7. CASE LeaveGather(r) \/ LeaveSaveBarrier(r)
  BY <1>7, GradElsewhere DEF LeaveGather, LeaveSaveBarrier, Leave
<1>8. CASE ValMean(r) \/ Mkdir(r) \/ Write(r) \/ Upload(r)
  BY <1>8, GradElsewhere DEF ValMean, Mkdir, Write, Upload
<1>9. QED
  BY <1>1, <1>2, <1>3, <1>4, <1>5, <1>6, <1>7, <1>8 DEF RankStep

-----------------------------------------------------------------------------
(* What is gathered.                                                       *)

Saving == {"mkdir", "write", "upload"}

\* Only rank 0 writes.
SaverInv == \A r \in Rank : pc[r] \in Saving => r = Rank0

HasGathered(r) ==
    (pc[r] = "gather" /\ inside[r]) \/ pc[r] \in Saving \cup {"savebar"}

\* A rank that contributed its shard contributed the one of this step.
GatherInv ==
    \A r \in Rank : HasGathered(r) => gathered[r] = finite \cap (1 .. step[r])

LEMMA SaverKept ==
    ASSUME IInv, SaverInv, NEW r \in Rank, RankStep(r)
    PROVE  SaverInv'
<1> USE DEF IInv, TypeInv, TypeOK, Goto, Saving, SaverInv
<1>1. CASE Enter(r) \/ EnterNorm(r) \/ EnterGather(r)
  BY <1>1 DEF Enter, EnterNorm, EnterGather, Post
<1>2. CASE Fetch(r) \/ LeaveMicro(r) \/ LeaveNorm(r) \/ OptimizerStep(r)
  BY <1>2 DEF Fetch, LeaveMicro, LeaveNorm, OptimizerStep
<1>3. CASE LeaveLoss(r) \/ LeaveVal(r) \/ ValMean(r) \/ LeaveValBarrier(r)
  BY <1>3 DEF LeaveLoss, LeaveVal, ValMean, LeaveValBarrier
<1>4. CASE LeaveGather(r) \/ Mkdir(r) \/ Write(r) \/ Upload(r) \/ LeaveSaveBarrier(r)
  BY <1>4 DEF LeaveGather, Mkdir, Write, Upload, LeaveSaveBarrier
<1>5. QED
  BY <1>1, <1>2, <1>3, <1>4 DEF RankStep

LEMMA GatherKept ==
    ASSUME IInv, ShardsAgree, GatherInv, NEW r \in Rank, RankStep(r)
    PROVE  GatherInv'
<1> USE DEF IInv
<1>1. CASE EnterGather(r)
  <2>1. /\ pc[r] = "gather" /\ UNCHANGED <<pc, step, finite>>
        /\ gathered' = [gathered EXCEPT ![r] = params[r]]
        /\ inside' = [inside EXCEPT ![r] = TRUE]
    BY <1>1 DEF EnterGather, Post
  <2>2. gathered'[r] = finite \cap (1 .. step[r])
    BY <2>1 DEF ShardsAgree, Past, TypeInv, TypeOK
  <2>3. \A q \in Rank \ {r} : gathered'[q] = gathered[q] /\ inside'[q] = inside[q]
    BY <2>1 DEF TypeInv, TypeOK
  <2>4. QED
    BY <2>1, <2>2, <2>3 DEF GatherInv, HasGathered
<1>2. CASE EnterNorm(r) /\ finite' # finite
  <2>1. \A q \in Rank : pc'[q] = "norm"
    BY <1>2, LastAtNorm DEF EnterNorm, Post
  <2>2. QED
    BY <2>1 DEF GatherInv, HasGathered, Saving
<1>3. CASE Enter(r) \/ (EnterNorm(r) /\ finite' = finite)
  <2>1. /\ pc[r] # "gather" /\ UNCHANGED <<pc, step, finite, gathered>>
        /\ inside' = [inside EXCEPT ![r] = TRUE]
    BY <1>3 DEF Enter, EnterNorm, Post
  <2>2. QED
    BY <2>1 DEF GatherInv, HasGathered, TypeInv, TypeOK
<1> DEFINE Stays(q) == /\ pc'[q] = pc[q] /\ step'[q] = step[q] /\ inside'[q] = inside[q]
<1>4. ASSUME UNCHANGED <<finite, gathered>>, \A q \in Rank \ {r} : Stays(q),
             HasGathered(r)' => HasGathered(r) /\ step'[r] = step[r]
      PROVE  GatherInv'
  BY <1>4 DEF GatherInv, HasGathered
<1> USE DEF TypeInv, TypeOK, Goto, HasGathered, Saving
<1>5. CASE Fetch(r) \/ LeaveMicro(r) \/ LeaveNorm(r) \/ OptimizerStep(r)
  <2>2. pc'[r] \notin Saving \cup {"gather", "savebar"}
    BY <1>5 DEF Fetch, LeaveMicro, LeaveNorm, OptimizerStep
  <2>3. UNCHANGED <<finite, gathered>> /\ \A q \in Rank \ {r} : Stays(q)
    BY <1>5 DEF Fetch, LeaveMicro, LeaveNorm, OptimizerStep, Leave
  <2>4. QED
    BY <1>4, <2>2, <2>3
<1>6. CASE LeaveLoss(r) \/ LeaveVal(r) \/ ValMean(r) \/ LeaveValBarrier(r)
  <2>1. ~inside'[r]
    <3>1. CASE ValMean(r)
      BY <3>1, WorkKind DEF Works
    <3>2. CASE LeaveLoss(r) \/ LeaveVal(r) \/ LeaveValBarrier(r)
      BY <3>2 DEF LeaveLoss, LeaveVal, LeaveValBarrier, Leave
    <3>3. QED
      BY <1>6, <3>1, <3>2
  <2>2. pc'[r] \notin Saving \cup {"savebar"}
    BY <1>6 DEF LeaveLoss, LeaveVal, ValMean, LeaveValBarrier
  <2>3. UNCHANGED <<finite, gathered>> /\ \A q \in Rank \ {r} : Stays(q)
    BY <1>6 DEF LeaveLoss, LeaveVal, ValMean, LeaveValBarrier, Leave
  <2>4. QED
    BY <1>4, <2>1, <2>2, <2>3
<1>7. CASE LeaveGather(r) \/ Mkdir(r) \/ Write(r) \/ Upload(r) \/ LeaveSaveBarrier(r)
  <2>1. HasGathered(r) /\ step' = step
    BY <1>7 DEF LeaveGather, Mkdir, Write, Upload, LeaveSaveBarrier, Leave, Complete
  <2>2. UNCHANGED <<finite, gathered>> /\ \A q \in Rank \ {r} : Stays(q)
    BY <1>7 DEF LeaveGather, Mkdir, Write, Upload, LeaveSaveBarrier, Leave
  <2>3. QED
    BY <1>4, <2>1, <2>2
<1>8. QED
  BY <1>1, <1>2, <1>3, <1>5, <1>6, <1>7 DEF RankStep

-----------------------------------------------------------------------------
(* What is written.                                                        *)

LEMMA SavebarIsNext ==
    ASSUME TypeInv, NEW q \in Rank, NEW s, NEW n, Upcoming(q) = <<"savebar", s, n>>
    PROVE  pc[q] \in Saving \cup {"savebar"} /\ step[q] = s
  BY StepTypes DEF Upcoming, Collective, Local, Stopped, Saving

LEMMA SavebarIsAfter ==
    ASSUME NEW q \in Rank, NEW s, NEW n, pc[q] \in Collective,
           After(Upcoming(q)) = <<"savebar", s, n>>
    PROVE  pc[q] = "gather" /\ step[q] = s
<1>1. Upcoming(q) = <<pc[q], step[q], left[q]>>
  BY DEF Upcoming, Collective
<1>2. QED
  BY <1>1 DEF After, AfterStep, AfterValidation, Collective

\* While rank 0 writes, every rank's shard of this step is gathered.
LEMMA AllGathered ==
    ASSUME IInv, GatherInv, pc[Rank0] = "write"
    PROVE  gathered = [r \in Rank |-> finite \cap (1 .. step[Rank0])]
<1> DEFINE s == step[Rank0]
<1> USE DEF IInv
<1>1. /\ Rank0 \in Rank /\ ~inside[Rank0]
      /\ Upcoming(Rank0) = <<"savebar", s, 0>>
  BY ConstantTypes DEF LockInv, Collective, Upcoming
<1>2. ASSUME NEW q \in Rank PROVE gathered[q] = finite \cap (1 .. s)
  <2>1. \/ entered[q] = entered[Rank0] + 1
        \/ entered[q] = entered[Rank0]
    BY <1>1, StepTypes DEF LockInv
  <2>2. CASE Upcoming(q) = Upcoming(Rank0)
    BY <1>1, <2>2, SavebarIsNext DEF GatherInv, HasGathered
  <2>3. CASE entered[q] = entered[Rank0] /\ inside[q]
    <3>1. After(Upcoming(q)) = <<"savebar", s, 0>> /\ pc[q] \in Collective
      BY <1>1, <2>3 DEF LockInv
    <3>2. QED
      BY <2>3, <3>1, SavebarIsAfter DEF GatherInv, HasGathered
  <2>4. QED
    BY <1>1, <2>1, <2>2, <2>3 DEF LockInv
<1>3. gathered = [r \in Rank |-> gathered[r]]
  BY DEF TypeInv, TypeOK
<1>4. QED
  BY <1>2, <1>3

\* Files carry runs up to this one; those of this run, steps behind rank 0.
FileInv ==
    /\ run >= 1
    /\ \A s \in Steps, i \in Part :
          file[s][i].run <= run /\ (file[s][i].run = run => s <= Past(Rank0))

LEMMA FilesStay ==
    ASSUME NEW r \in Rank, RankStep(r)
    PROVE  run' = run /\ (~Write(r) => file' = file)
<1>1. Enter(r) \/ EnterNorm(r) \/ EnterGather(r) => UNCHANGED <<run, file>>
  BY DEF Enter, EnterNorm, EnterGather, Post, disk
<1>2. Fetch(r) \/ LeaveMicro(r) \/ LeaveNorm(r) \/ OptimizerStep(r) => UNCHANGED <<run, file>>
  BY DEF Fetch, LeaveMicro, LeaveNorm, OptimizerStep, Leave, disk
<1>3. LeaveLoss(r) \/ LeaveVal(r) \/ ValMean(r) \/ LeaveValBarrier(r) => UNCHANGED <<run, file>>
  BY DEF LeaveLoss, LeaveVal, ValMean, LeaveValBarrier, Leave, disk
<1>4. LeaveGather(r) \/ Mkdir(r) \/ Upload(r) \/ LeaveSaveBarrier(r) => UNCHANGED <<run, file>>
  BY DEF LeaveGather, Mkdir, Upload, LeaveSaveBarrier, Leave, disk
<1>5. Write(r) => run' = run
  BY DEF Write
<1>6. QED
  BY <1>1, <1>2, <1>3, <1>4, <1>5 DEF RankStep

LEMMA WriteEffect ==
    ASSUME TypeInv, NEW r \in Rank, Write(r)
    PROVE  /\ step[r] \in Steps
           /\ \A s \in Steps, i \in Part :
                 file'[s][i] = IF s = step[r] /\ i = NParts - left[r] + 1
                               THEN Stamp ELSE file[s][i]
<1>1. step[r] \in Steps
  BY StepTypes DEF Write
<1>2. file' = [file EXCEPT ![step[r]] =
                  [file[step[r]] EXCEPT ![NParts - left[r] + 1] = Stamp]]
  BY DEF Write
<1>3. file \in [Steps -> [Part -> [run : Nat, weights : [Rank -> SUBSET Steps]]]]
  BY DEF TypeInv, TypeOK
<1>4. QED
  BY <1>1, <1>2, <1>3

\* Rank 0 moves on.
LEMMA PastGrows ==
    ASSUME TypeInv, NEW r \in Rank, RankStep(r), NEW q \in Rank
    PROVE  Past(q) \in Int /\ Past(q)' \in Int /\ Past(q) <= Past(q)'
<1>1. Past(q) \in Int
  BY StepTypes DEF Past
<1>2. CASE ~OptimizerStep(r)
  BY <1>1, <1>2, PastStays
<1>3. CASE OptimizerStep(r)
  BY <1>3, StepTypes DEF OptimizerStep, Past, Goto, TypeInv, TypeOK
<1>4. QED
  BY <1>1, <1>2, <1>3

LEMMA FileKept ==
    ASSUME IInv, SaverInv, FileInv, NEW r \in Rank, RankStep(r)
    PROVE  FileInv'
<1>1. Past(Rank0) <= Past(Rank0)' /\ Past(Rank0) \in Int /\ Past(Rank0)' \in Int
  BY PastGrows, ConstantTypes DEF IInv
<1>2. Steps \subseteq Nat /\ run' = run /\ run \in Nat
  BY ConstantTypes, FilesStay DEF IInv, TypeInv, TypeOK
<1>3. CASE ~Write(r)
  <2>1. file' = file
    BY <1>3, FilesStay
  <2>2. QED
    BY <1>1, <1>2, <2>1 DEF FileInv
<1>4. CASE Write(r)
  <2>1. r = Rank0 /\ pc'[r] \in {"write", "upload", "savebar"} /\ step' = step
    BY <1>4 DEF Write, SaverInv, Saving, Goto, IInv, TypeInv, TypeOK
  <2>2. Past(Rank0)' = step[r]
    BY <2>1 DEF Past
  <2>3. step[r] \in Nat /\ Stamp.run = run
    BY StepTypes DEF IInv, Stamp
  <2>4. QED
    BY <1>1, <1>2, <1>4, <2>2, <2>3, WriteEffect DEF FileInv, IInv
<1>5. QED
  BY <1>3, <1>4

LEMMA CheckpointKept ==
    ASSUME IInv, SaverInv, GatherInv, FileInv, CheckpointIsOneModel,
           NEW r \in Rank, RankStep(r)
    PROVE  CheckpointIsOneModel'
<1>1. CASE Write(r)
  <2>1. r = Rank0 /\ pc[Rank0] = "write" /\ UNCHANGED <<run, finite>>
    BY <1>1 DEF Write, SaverInv, Saving
  <2>2. Stamp.weights = [q \in Rank |-> finite \cap (1 .. step[r])]
    BY <2>1, AllGathered DEF Stamp
  <2>3. ASSUME NEW s \in Steps, NEW i \in Part, file'[s][i].run = run
        PROVE  file'[s][i].weights = [q \in Rank |-> finite \cap (1 .. s)]
    <3>1. file'[s][i] = IF s = step[r] /\ i = NParts - left[r] + 1
                        THEN Stamp ELSE file[s][i]
      BY <1>1, WriteEffect DEF IInv
    <3>2. QED
      BY <2>2, <2>3, <3>1 DEF CheckpointIsOneModel
  <2>4. QED
    BY <2>1, <2>3 DEF CheckpointIsOneModel
<1>2. CASE ~Write(r) /\ finite' = finite
  <2>1. UNCHANGED <<run, file>>
    BY <1>2, FilesStay
  <2>2. QED
    BY <1>2, <2>1 DEF CheckpointIsOneModel
<1>3. CASE EnterNorm(r) /\ finite' # finite
  <2>1. /\ UNCHANGED <<run, file>> /\ finite' = finite \cup {step[r]}
        /\ pc[Rank0] = "norm" /\ step[Rank0] = step[r]
    BY <1>3, LastAtNorm, ConstantTypes DEF EnterNorm, Post, disk
  <2>2. Past(Rank0) = step[r] - 1 /\ step[r] \in Nat
    BY <2>1, StepTypes DEF Past, IInv
  <2>3. ASSUME NEW s \in Steps, NEW i \in Part, file[s][i].run = run
        PROVE  finite' \cap (1 .. s) = finite \cap (1 .. s)
    <3>1. s <= step[r] - 1 /\ s \in Nat
      BY <2>2, <2>3, ConstantTypes DEF FileInv
    <3>2. QED
      BY <2>1, <2>2, <3>1
  <2>4. QED
    BY <2>1, <2>3 DEF CheckpointIsOneModel
<1>4. QED
  BY <1>1, <1>2, <1>3, FiniteStays DEF EnterNorm, Write

-----------------------------------------------------------------------------
(* The theorems.                                                           *)

ModelInv ==
    /\ IInv /\ ShardsAgree /\ GradInv
    /\ SaverInv /\ GatherInv /\ FileInv /\ CheckpointIsOneModel

LEMMA InitModelInv == Init => ModelInv
<1> SUFFICES ASSUME Init PROVE ModelInv
  OBVIOUS
<1>1. ShardsAgree
  BY DEF Init, ShardsAgree, Past
<1>2. GradInv /\ SaverInv /\ GatherInv
  BY DEF Init, GradInv, SaverInv, GatherInv, HasGathered, Saving
<1>3. FileInv /\ CheckpointIsOneModel
  BY DEF Init, FileInv, CheckpointIsOneModel, NoFile
<1>4. QED
  BY <1>1, <1>2, <1>3, InitIInv DEF ModelInv

LEMMA NextModelInv == ModelInv /\ [Next]_vars => ModelInv'
<1> SUFFICES ASSUME ModelInv, [Next]_vars PROVE ModelInv'
  OBVIOUS
<1> USE DEF ModelInv
<1>1. IInv'
  BY NextIInv
<1>2. ASSUME NEW r \in Rank, RankStep(r) PROVE ModelInv'
  BY <1>1, <1>2, ShardsKept, GradKept, SaverKept, GatherKept, FileKept, CheckpointKept
<1>3. CASE Crash \/ UNCHANGED vars
  <2>1. UNCHANGED <<pc, step, left, inside, grads, params, sched, finite, gathered,
                    run, file>>
    BY <1>3 DEF Crash, vars, local, disk
  <2>2. \A q \in Rank : Past(q)' = Past(q) /\ HasGathered(q)' = HasGathered(q)
    BY <2>1 DEF Past, HasGathered
  <2>3. ShardsAgree' /\ GradInv' /\ SaverInv'
    BY <2>1, <2>2 DEF ShardsAgree, GradInv, SaverInv
  <2>4. GatherInv' /\ CheckpointIsOneModel'
    BY <2>1, <2>2 DEF GatherInv, CheckpointIsOneModel
  <2>5. FileInv'
    BY <2>1, <2>2, ConstantTypes DEF FileInv
  <2>6. QED
    BY <1>1, <2>3, <2>4, <2>5
<1>4. CASE Restart
  <2>1. /\ pc' = [q \in Rank |-> "fetch"] /\ step' = [q \in Rank |-> 0]
        /\ params' = [q \in Rank |-> {}] /\ sched' = [q \in Rank |-> 0]
        /\ finite' = {} /\ run' = run + 1 /\ file' = file
    BY <1>4 DEF Restart, Fresh, disk
  <2>2. ShardsAgree' /\ GradInv' /\ SaverInv' /\ GatherInv'
    BY <2>1 DEF ShardsAgree, Past, GradInv, SaverInv, GatherInv, HasGathered, Saving
  <2>3. \A s \in Steps, i \in Part : file[s][i].run \in Nat /\ file[s][i].run <= run
    BY DEF FileInv, IInv, TypeInv, TypeOK
  <2>4. run \in Nat
    BY DEF IInv, TypeInv, TypeOK
  <2>5. FileInv' /\ CheckpointIsOneModel'
    BY <2>1, <2>3, <2>4 DEF FileInv, CheckpointIsOneModel
  <2>6. QED
    BY <1>1, <2>2, <2>5
<1>5. QED
  BY <1>2, <1>3, <1>4 DEF Next, Over

LEMMA ModelInvariant == Spec => []ModelInv
<1>1. QED
  BY InitModelInv, NextModelInv, PTL DEF Spec

\* The shards are one model: every rank holds the finite updates it has
\* passed, and the learning-rate schedule counts all of them.
THEOREM ShardsAlwaysAgree == Spec => []ShardsAgree
<1>1. ModelInv => ShardsAgree
  BY DEF ModelInv
<1>2. QED
  BY <1>1, ModelInvariant, PTL

\* optimizer.step() applies the gradients of all micro batches of its step
\* and no others.
THEOREM GradientsAreOfThisStep == Spec => []GradientsOfThisStep
<1>1. ModelInv => GradientsOfThisStep
  BY DEF ModelInv, GradInv, GradientsOfThisStep
<1>2. QED
  BY <1>1, ModelInvariant, PTL

\* A file of a checkpoint of step s, written by this run, holds the shards
\* of all ranks as they were after step s.
THEOREM CheckpointsAreOneModel == Spec => []CheckpointIsOneModel
<1>1. ModelInv => CheckpointIsOneModel
  BY DEF ModelInv
<1>2. QED
  BY <1>1, ModelInvariant, PTL

-----------------------------------------------------------------------------
(* How far the ranks are.                                                  *)

\* The last step that is over for a rank whose upcoming collective is u.
Reached(u) == IF u[1] = "end" THEN u[2] ELSE u[2] - 1

\* Two ranks are at the same collective, or one is in it and the other past it.
LEMMA NearRanks ==
    ASSUME IInv, NEW p \in Rank, NEW q \in Rank
    PROVE  \/ Upcoming(p) = Upcoming(q)
           \/ inside[q] /\ Upcoming(p) = After(Upcoming(q))
           \/ inside[p] /\ Upcoming(q) = After(Upcoming(p))
<1>1. entered[p] \in Nat /\ entered[q] \in Nat
  BY StepTypes DEF IInv
<1>2. entered[p] <= entered[q] + 1 /\ entered[q] <= entered[p] + 1
  BY DEF IInv, LockInv
<1>3. \/ entered[p] = entered[q]
      \/ entered[p] = entered[q] + 1
      \/ entered[q] = entered[p] + 1
  BY <1>1, <1>2
<1>4. CASE entered[p] = entered[q]
  BY <1>4 DEF IInv, LockInv
<1>5. CASE entered[p] = entered[q] + 1
  BY <1>5 DEF IInv, LockInv
<1>6. CASE entered[q] = entered[p] + 1
  BY <1>6 DEF IInv, LockInv
<1>7. QED
  BY <1>3, <1>4, <1>5, <1>6

LEMMA PassedIsReached ==
    ASSUME TypeInv, NEW q \in Rank, NEW s \in Steps,
           s < step[q] \/ (s = step[q] /\ pc[q] \in {"fetch", "done"})
    PROVE  s <= Reached(Upcoming(q))
<1>1. s \in Nat /\ step[q] \in Nat
  BY ConstantTypes, StepTypes
<1>2. QED
  BY <1>1 DEF Reached, Upcoming, Collective

\* A step is over when its last collective is left: one that is due to be
\* saved ends with the barrier of save_checkpoint.
LEMMA ReachedAfter ==
    ASSUME TypeInv, NEW q \in Rank, pc[q] \in Collective, NEW s \in Steps
    PROVE  /\ s <= Reached(Upcoming(q)) => s <= Reached(After(Upcoming(q)))
           /\ s <= Reached(After(Upcoming(q))) /\ SaveDue(s)
                 => \/ s <= Reached(Upcoming(q))
                    \/ s = step[q] /\ pc[q] = "savebar"
<1>1. Upcoming(q) = <<pc[q], step[q], left[q]>>
  BY DEF Upcoming, Collective
<1>2. s \in Nat /\ step[q] \in Nat
  BY ConstantTypes, StepTypes
<1>3. QED
  BY <1>1, <1>2 DEF Reached, After, AfterStep, AfterValidation, Collective

-----------------------------------------------------------------------------
(* What rank 0 has saved.                                                  *)

Saved(s) == s \in dirs /\ \A i \in Part : file[s][i].run = run

LEMMA SavedIsWritten ==
    ASSUME ModelInv, NEW s \in Steps, Saved(s)
    PROVE  Written(s)
<1>1. \A i \in Part : file[s][i] \in [run : Nat, weights : [Rank -> SUBSET Steps]]
  BY DEF ModelInv, IInv, TypeInv, TypeOK
<1>2. \A i \in Part : /\ file[s][i].run = run
                      /\ file[s][i].weights = [r \in Rank |-> finite \cap (1 .. s)]
  BY DEF Saved, ModelInv, CheckpointIsOneModel
<1>3. \A i, j \in Part : file[s][i] = file[s][j]
  BY <1>1, <1>2
<1>4. 1 \in Part
  BY ConstantTypes DEF Part
<1>5. QED
  BY <1>3, <1>4 DEF Saved, Written, Whole

\* Rank 0 has written the files before the next one, is at the barrier when
\* all are written, and beyond it with every checkpoint that was due.
WriteInv ==
    /\ pc[Rank0] = "write" =>
          /\ left[Rank0] \in 1 .. NParts /\ step[Rank0] \in dirs
          /\ \A i \in 1 .. NParts - left[Rank0] : file[step[Rank0]][i].run = run
    /\ pc[Rank0] \in {"upload", "savebar"} => Saved(step[Rank0])
    /\ \A s \in Steps : SaveDue(s) /\ s <= Reached(Upcoming(Rank0)) => Saved(s)

\* Nothing a rank does makes a file older.
LEMMA SavedStays ==
    ASSUME TypeInv, NEW r \in Rank, RankStep(r)
    PROVE  /\ run' = run /\ dirs \subseteq dirs'
           /\ \A s \in Steps, i \in Part :
                 file[s][i].run = run => file'[s][i].run = run
<1>1. run' = run
  BY FilesStay
<1>2. dirs \subseteq dirs'
  <2>1. Enter(r) \/ EnterNorm(r) \/ EnterGather(r) => dirs' = dirs
    BY DEF Enter, EnterNorm, EnterGather, Post, disk
  <2>2. Fetch(r) \/ LeaveMicro(r) \/ LeaveNorm(r) \/ OptimizerStep(r) => dirs' = dirs
    BY DEF Fetch, LeaveMicro, LeaveNorm, OptimizerStep, Leave, disk
  <2>3. LeaveLoss(r) \/ LeaveVal(r) \/ ValMean(r) \/ LeaveValBarrier(r) => dirs' = dirs
    BY DEF LeaveLoss, LeaveVal, ValMean, LeaveValBarrier, Leave, disk
  <2>4. LeaveGather(r) \/ Write(r) \/ Upload(r) \/ LeaveSaveBarrier(r) => dirs' = dirs
    BY DEF LeaveGather, Write, Upload, LeaveSaveBarrier, Leave, disk
  <2>5. Mkdir(r) => dirs \subseteq dirs'
    BY DEF Mkdir
  <2>6. QED
    BY <2>1, <2>2, <2>3, <2>4, <2>5 DEF RankStep
<1>3. CASE Write(r)
  BY <1>1, <1>2, <1>3, WriteEffect DEF Stamp
<1>4. CASE ~Write(r)
  BY <1>1, <1>2, <1>4, FilesStay
<1>5. QED
  BY <1>3, <1>4

\* The other ranks, seen from rank 0: it is where it was.
LEMMA OthersStay ==
    ASSUME IInv, NEW r \in Rank, RankStep(r), NEW q \in Rank, q # r
    PROVE  /\ pc'[q] = pc[q] /\ step'[q] = step[q] /\ left'[q] = left[q]
           /\ Upcoming(q)' = Upcoming(q)
<1>1. Enters(r) \/ Works(r) \/ Leaves(r)
  BY EnterKind, WorkKind, LeaveKind DEF RankStep
<1>2. pc'[q] = pc[q] /\ step'[q] = step[q] /\ left'[q] = left[q]
  BY <1>1 DEF Enters, Works, Leaves, Others
<1>3. QED
  BY <1>2 DEF Upcoming

\* A step of a rank moves it on by at most one collective.
LEMMA ReachedNext ==
    ASSUME IInv, NEW r \in Rank, RankStep(r), NEW s \in Steps, SaveDue(s),
           s <= Reached(Upcoming(r))'
    PROVE  s <= Reached(Upcoming(r)) \/ (s = step[r] /\ pc[r] = "savebar")
<1>1. Enters(r) \/ Works(r) \/ Leaves(r)
  BY EnterKind, WorkKind, LeaveKind DEF RankStep
<1>2. CASE Enters(r) \/ Works(r)
  <2>1. Upcoming(r)' = Upcoming(r)
    BY <1>2 DEF Enters, Works, Upcoming
  <2>2. QED
    BY <2>1 DEF Reached
<1>3. CASE Leaves(r)
  <2>1. Upcoming(r)' = After(Upcoming(r)) /\ pc[r] \in Collective
    BY <1>3 DEF Leaves, IInv, LockInv
  <2>2. s <= Reached(After(Upcoming(r)))
    BY <2>1 DEF Reached
  <2>3. QED
    BY <2>1, <2>2, ReachedAfter DEF IInv
<1>4. QED
  BY <1>1, <1>2, <1>3

\* Where rank 0 comes to the stages that follow the gather.
LEMMA WriterKept ==
    ASSUME ModelInv, WriteInv, RankStep(Rank0), Rank0 \in Rank
    PROVE  /\ pc'[Rank0] = "write" =>
                 /\ left'[Rank0] \in 1 .. NParts /\ step'[Rank0] \in dirs'
                 /\ \A i \in 1 .. NParts - left'[Rank0] :
                       file'[step'[Rank0]][i].run = run'
           /\ pc'[Rank0] \in {"upload", "savebar"} => Saved(step[Rank0])' /\ step' = step
<1> DEFINE r == Rank0
<1> USE DEF ModelInv, IInv, TypeInv, TypeOK
<1>0. /\ NParts \in Nat \ {0} /\ Part = 1 .. NParts
      /\ run' = run /\ dirs \subseteq dirs'
      /\ \A s \in Steps, i \in Part : file[s][i].run = run => file'[s][i].run = run
  BY ConstantTypes, SavedStays DEF Part
<1>1. CASE Enter(r) \/ EnterNorm(r) \/ EnterGather(r)
  <2>1. UNCHANGED <<pc, step, left>> /\ pc[r] # "write" /\ pc[r] # "upload"
    BY <1>1 DEF Enter, EnterNorm, EnterGather, Post, Collective
  <2>2. pc[r] = "savebar" => step[r] \in Steps /\ Saved(step[r])
    BY StepTypes DEF WriteInv
  <2>3. QED
    BY <1>0, <2>1, <2>2 DEF Saved
<1>2. CASE Fetch(r) \/ LeaveMicro(r) \/ LeaveNorm(r) \/ OptimizerStep(r)
  BY <1>2 DEF Fetch, LeaveMicro, LeaveNorm, OptimizerStep, Goto
<1>3. CASE LeaveLoss(r) \/ LeaveVal(r) \/ ValMean(r) \/ LeaveValBarrier(r)
  BY <1>3 DEF LeaveLoss, LeaveVal, ValMean, LeaveValBarrier, Goto
<1>4. CASE LeaveGather(r) \/ LeaveSaveBarrier(r)
  BY <1>4 DEF LeaveGather, LeaveSaveBarrier, Goto
<1>5. CASE Mkdir(r)
  <2>1. pc'[r] = "write" /\ left'[r] = NParts /\ step' = step /\ step[r] \in dirs'
    BY <1>5 DEF Mkdir, Goto
  <2>2. NParts \in 1 .. NParts /\ 1 .. NParts - NParts = {}
    BY <1>0
  <2>3. QED
    BY <2>1, <2>2
<1>6. CASE Write(r)
  <2>1. /\ pc[r] = "write" /\ step' = step /\ left[r] \in 1 .. NParts /\ step[r] \in dirs
        /\ \A i \in 1 .. NParts - left[r] : file[step[r]][i].run = run
        /\ IF left[r] > 1 THEN pc'[r] = "write" /\ left'[r] = left[r] - 1
                          ELSE pc'[r] \in {"upload", "savebar"}
    BY <1>6 DEF Write, WriteInv, Goto
  <2>2. \A i \in 1 .. NParts - left[r] + 1 : file'[step[r]][i].run = run
    <3>1. NParts - left[r] + 1 \in Part
      BY <1>0, <2>1
    <3>2. step[r] \in Steps /\ file'[step[r]][NParts - left[r] + 1] = Stamp
      BY <1>6, <3>1, WriteEffect
    <3>3. file'[step[r]][NParts - left[r] + 1].run = run
      BY <3>2 DEF Stamp
    <3>4. \A i \in 1 .. NParts - left[r] : i \in Part /\ file'[step[r]][i].run = run
      BY <1>0, <1>6, <2>1, WriteEffect
    <3>5. \A i \in 1 .. NParts - left[r] + 1 :
             i = NParts - left[r] + 1 \/ i \in 1 .. NParts - left[r]
      BY <1>0, <2>1
    <3>6. QED
      BY <3>3, <3>4, <3>5
  <2>3. CASE left[r] > 1
    <3>1. NParts - (left[r] - 1) = NParts - left[r] + 1 /\ left[r] - 1 \in 1 .. NParts
      BY <1>0, <2>1, <2>3
    <3>2. pc'[r] = "write" /\ left'[r] = left[r] - 1
      BY <2>1, <2>3
    <3>3. \A i \in 1 .. NParts - left'[r] : file'[step[r]][i].run = run
      BY <2>2, <3>1, <3>2
    <3>4. left'[r] \in 1 .. NParts
      BY <3>1, <3>2
    <3>5. QED
      BY <1>0, <2>1, <3>2, <3>3, <3>4
  <2>4. CASE ~(left[r] > 1)
    <3>1. NParts - left[r] + 1 = NParts
      BY <1>0, <2>1, <2>4
    <3>2. QED
      BY <1>0, <2>1, <2>2, <2>4, <3>1 DEF Saved
  <2>5. QED
    BY <2>3, <2>4
<1>7. CASE Upload(r)
  <2>1. pc[r] = "upload" /\ pc'[r] = "savebar" /\ step' = step
    BY <1>7 DEF Upload, Goto
  <2>2. step[r] \in Steps /\ Saved(step[r])
    BY <2>1, StepTypes DEF WriteInv
  <2>3. QED
    BY <1>0, <2>1, <2>2 DEF Saved
<1>8. QED
  BY <1>1, <1>2, <1>3, <1>4, <1>5, <1>6, <1>7 DEF RankStep

LEMMA WriteKept ==
    ASSUME ModelInv, WriteInv, NEW r \in Rank, RankStep(r)
    PROVE  WriteInv'
<1>1. \A s \in Steps : Saved(s) => Saved(s)'
  BY SavedStays DEF Saved, ModelInv, IInv
<1>2. Rank0 \in Rank
  BY ConstantTypes
<1>3. CASE r = Rank0
  <2>1. ASSUME NEW s \in Steps, SaveDue(s), s <= Reached(Upcoming(Rank0))'
        PROVE  Saved(s)'
    BY <1>1, <1>3, <2>1, ReachedNext DEF WriteInv, ModelInv
  <2>2. Reached(Upcoming(Rank0))' = Reached(Upcoming(Rank0)')
    BY DEF Reached
  <2>3. QED
    BY <1>2, <1>3, <2>1, <2>2, WriterKept DEF WriteInv, Saved, SaveDue, IsLast
<1>4. CASE r # Rank0
  <2>1. /\ pc'[Rank0] = pc[Rank0] /\ step'[Rank0] = step[Rank0]
        /\ left'[Rank0] = left[Rank0] /\ Upcoming(Rank0)' = Upcoming(Rank0)
    BY <1>2, <1>4, OthersStay DEF ModelInv
  <2>2. /\ run' = run /\ dirs \subseteq dirs'
        /\ \A s \in Steps, i \in Part : file[s][i].run = run => file'[s][i].run = run
    BY SavedStays DEF ModelInv, IInv
  <2>3. pc[Rank0] \in {"write", "upload", "savebar"} => step[Rank0] \in Steps
    BY <1>2, StepTypes DEF ModelInv, IInv
  <2>4. pc[Rank0] = "write" => 1 .. NParts - left[Rank0] \subseteq Part
    BY ConstantTypes DEF WriteInv, Part
  <2>5. pc'[Rank0] = "write" =>
            /\ left'[Rank0] \in 1 .. NParts /\ step'[Rank0] \in dirs'
            /\ \A i \in 1 .. NParts - left'[Rank0] : file'[step'[Rank0]][i].run = run'
    BY <2>1, <2>2, <2>3, <2>4 DEF WriteInv
  <2>6. pc'[Rank0] \in {"upload", "savebar"} => Saved(step[Rank0])'
    BY <1>1, <2>1, <2>3 DEF WriteInv
  <2>7. \A s \in Steps : SaveDue(s) /\ s <= Reached(Upcoming(Rank0)') => Saved(s)'
    BY <1>1, <2>1 DEF WriteInv
  <2>8. QED
    BY <2>1, <2>5, <2>6, <2>7 DEF WriteInv, Saved, Reached
<1>5. QED
  BY <1>3, <1>4

SaveInv == ModelInv /\ WriteInv

LEMMA InitSaveInv == Init => SaveInv
<1> SUFFICES ASSUME Init PROVE SaveInv
  OBVIOUS
<1>1. pc[Rank0] = "fetch" /\ step[Rank0] = 0
  BY ConstantTypes DEF Init
<1>2. Reached(Upcoming(Rank0)) = 0
  BY <1>1 DEF Reached, Upcoming, Collective
<1>3. QED
  BY <1>1, <1>2, InitModelInv, ConstantTypes DEF SaveInv, WriteInv

LEMMA NextSaveInv == SaveInv /\ [Next]_vars => SaveInv'
<1> SUFFICES ASSUME SaveInv, [Next]_vars PROVE WriteInv'
  BY NextModelInv DEF SaveInv
<1>1. ASSUME NEW r \in Rank, RankStep(r) PROVE WriteInv'
  BY <1>1, WriteKept DEF SaveInv
<1>2. CASE Crash \/ UNCHANGED vars
  <2>1. UNCHANGED <<pc, step, left, run, dirs, file>>
    BY <1>2 DEF Crash, vars, local, disk
  <2>2. QED
    BY <2>1 DEF SaveInv, WriteInv, Saved, Reached, Upcoming
<1>3. CASE Restart
  <2>1. pc'[Rank0] = "fetch" /\ step'[Rank0] = 0
    BY <1>3, ConstantTypes DEF Restart, Fresh
  <2>2. Reached(Upcoming(Rank0))' = 0
    BY <2>1 DEF Reached, Upcoming, Collective
  <2>3. QED
    BY <2>1, <2>2, ConstantTypes DEF WriteInv, Reached
<1>4. QED
  BY <1>1, <1>2, <1>3 DEF Next, Over

LEMMA SaveInvariant == Spec => []SaveInv
<1>1. QED
  BY InitSaveInv, NextSaveInv, PTL DEF Spec

-----------------------------------------------------------------------------
(* The theorems.                                                           *)

\* Whatever happens, no rank is beyond a step whose checkpoint is due and not
\* complete: the barrier that ends save_checkpoint holds all of them back.
THEOREM NobodyPasses == Spec => []NobodyPassesAnUnsavedStep
<1>1. ASSUME SaveInv, NEW q \in Rank, NEW s \in Steps, SaveDue(s),
             s < step[q] \/ (s = step[q] /\ pc[q] \in {"fetch", "done"})
      PROVE  Written(s)
  <2> USE DEF SaveInv, ModelInv
  <2>1. IInv /\ TypeInv /\ Rank0 \in Rank
    BY <1>1, ConstantTypes DEF IInv
  <2>2. s <= Reached(Upcoming(q))
    BY <1>1, <2>1, PassedIsReached
  <2>3. CASE s <= Reached(Upcoming(Rank0))
    BY <1>1, <2>3, SavedIsWritten DEF WriteInv
  <2>4. CASE s = step[Rank0] /\ pc[Rank0] = "savebar"
    BY <1>1, <2>4, SavedIsWritten DEF WriteInv
  <2>5. CASE Upcoming(q) = Upcoming(Rank0)
    BY <2>2, <2>3, <2>5
  <2>6. CASE inside[Rank0] /\ Upcoming(q) = After(Upcoming(Rank0))
    <3>1. pc[Rank0] \in Collective
      BY <2>1, <2>6 DEF IInv, LockInv
    <3>2. QED
      BY <1>1, <2>1, <2>2, <2>3, <2>4, <2>6, <3>1, ReachedAfter
  <2>7. CASE inside[q] /\ Upcoming(Rank0) = After(Upcoming(q))
    <3>1. pc[q] \in Collective
      BY <2>1, <2>7 DEF IInv, LockInv
    <3>2. QED
      BY <2>1, <2>2, <2>3, <2>7, <3>1, ReachedAfter
  <2>8. QED
    BY <2>1, <2>5, <2>6, <2>7, NearRanks
<1>2. SaveInv => NobodyPassesAnUnsavedStep
  BY <1>1 DEF NobodyPassesAnUnsavedStep
<1>3. QED
  BY <1>2, SaveInvariant, PTL

\* What a run wrote it leaves as it is: writing the file again would write
\* the same model.
LEMMA FileIsFinal ==
    ASSUME ModelInv, [Next]_vars, NEW s \in Steps, NEW i \in Part,
           run' = run, file[s][i].run = run
    PROVE  file'[s][i] = file[s][i]
<1>1. CASE \E r \in Rank : Write(r)
  <2>1. PICK r \in Rank : Write(r)
    BY <1>1
  <2>2. r = Rank0 /\ pc[Rank0] = "write"
    BY <2>1 DEF Write, ModelInv, SaverInv, Saving
  <2>3. Stamp = [run |-> run, weights |-> [q \in Rank |-> finite \cap (1 .. step[r])]]
    BY <2>2, AllGathered DEF ModelInv, Stamp
  <2>4. file[s][i] \in [run : Nat, weights : [Rank -> SUBSET Steps]]
    BY DEF ModelInv, IInv, TypeInv, TypeOK
  <2>5. file[s][i].weights = [q \in Rank |-> finite \cap (1 .. s)]
    BY DEF ModelInv, CheckpointIsOneModel
  <2>6. file[s][i] = [run |-> run, weights |-> [q \in Rank |-> finite \cap (1 .. s)]]
    BY <2>4, <2>5
  <2>7. file'[s][i] = IF s = step[r] /\ i = NParts - left[r] + 1
                      THEN Stamp ELSE file[s][i]
    BY <2>1, WriteEffect DEF ModelInv, IInv
  <2>8. QED
    BY <2>3, <2>6, <2>7
<1>2. CASE ~\E r \in Rank : Write(r)
  <2>1. \A r \in Rank : RankStep(r) => file' = file
    BY <1>2, FilesStay
  <2>2. Crash \/ Restart \/ UNCHANGED vars => file' = file
    BY DEF Crash, Restart, vars, disk
  <2>3. QED
    BY <2>1, <2>2 DEF Next, Over
<1>3. QED
  BY <1>1, <1>2

\* No step of a run changes a file that run wrote.
THEOREM FilesAreWrittenOnce == Spec => WrittenOnce
<1>1. ModelInv /\ [Next]_vars =>
          [\A s \in Steps, i \in Part :
              run' = run /\ file[s][i].run = run => file'[s][i] = file[s][i]]_vars
  BY FileIsFinal
<1>2. QED
  BY <1>1, ModelInvariant, PTL DEF Spec, WrittenOnce

-----------------------------------------------------------------------------
(* The copy in HDFS.                                                       *)

\* What is there is of this run or an earlier one.
RemoteInv ==
    /\ RemoteFollowsLocal
    /\ \A s \in Steps, i \in Part : remote[s][i].run <= run

LEMMA RemoteStays ==
    ASSUME NEW r \in Rank, RankStep(r), ~Upload(r)
    PROVE  remote' = remote
<1>1. Enter(r) \/ EnterNorm(r) \/ EnterGather(r) => remote' = remote
  BY DEF Enter, EnterNorm, EnterGather, Post, disk
<1>2. Fetch(r) \/ LeaveMicro(r) \/ LeaveNorm(r) \/ OptimizerStep(r) => remote' = remote
  BY DEF Fetch, LeaveMicro, LeaveNorm, OptimizerStep, Leave, disk
<1>3. LeaveLoss(r) \/ LeaveVal(r) \/ ValMean(r) \/ LeaveValBarrier(r) => remote' = remote
  BY DEF LeaveLoss, LeaveVal, ValMean, LeaveValBarrier, Leave, disk
<1>4. LeaveGather(r) \/ Mkdir(r) \/ Write(r) \/ LeaveSaveBarrier(r) => remote' = remote
  BY DEF LeaveGather, Mkdir, Write, LeaveSaveBarrier, Leave, disk
<1>5. QED
  BY <1>1, <1>2, <1>3, <1>4 DEF RankStep

LEMMA UploadEffect ==
    ASSUME TypeInv, NEW r \in Rank, Upload(r)
    PROVE  /\ UNCHANGED <<run, dirs, file>>
           /\ \A s \in Steps, i \in Part :
                 \/ remote'[s][i] = remote[s][i]
                 \/ s = step[r] /\ remote'[s][i] = file[s][i]
<1>1. UNCHANGED <<run, dirs, file>>
  BY DEF Upload
<1>2. PICK copied \in SUBSET Part :
          remote' = [remote EXCEPT ![step[r]] =
              [i \in Part |-> IF i \in copied THEN file[step[r]][i] ELSE remote[step[r]][i]]]
  BY DEF Upload
<1>3. remote \in [Steps -> [Part -> [run : Nat, weights : [Rank -> SUBSET Steps]]]]
  BY DEF TypeInv, TypeOK
<1>4. QED
  BY <1>1, <1>2, <1>3

\* What was written to the end in this run stays so.
LEMMA WrittenStays ==
    ASSUME ModelInv, [Next]_vars, run' = run, NEW s \in Steps, Written(s),
           dirs \subseteq dirs'
    PROVE  Written(s)' /\ \A i \in Part : file'[s][i] = file[s][i]
<1>1. 1 \in Part
  BY ConstantTypes DEF Part
<1>2. \A i \in Part : file[s][i].run = run
  BY <1>1 DEF Written, Whole
<1>3. \A i \in Part : file'[s][i] = file[s][i]
  BY <1>2, FileIsFinal
<1>4. QED
  BY <1>1, <1>3 DEF Written, Whole

LEMMA RemoteKept == SaveInv /\ RemoteInv /\ [Next]_vars => RemoteInv'
<1> SUFFICES ASSUME SaveInv, RemoteInv, [Next]_vars PROVE RemoteInv'
  OBVIOUS
<1>0. ModelInv /\ TypeInv
  BY DEF SaveInv, ModelInv, IInv
<1>1. ASSUME run' = run, dirs \subseteq dirs', remote' = remote PROVE RemoteInv'
  <2>1. ASSUME NEW s \in Steps, NEW i \in Part, remote'[s][i].run = run'
        PROVE  Written(s)' /\ remote'[s][i] = file'[s][i]
    <3>1. Written(s) /\ remote[s][i] = file[s][i]
      BY <1>1, <2>1 DEF RemoteInv, RemoteFollowsLocal
    <3>2. QED
      BY <1>0, <1>1, <3>1, WrittenStays
  <2>2. QED
    BY <1>1, <2>1 DEF RemoteInv, RemoteFollowsLocal, Written, Whole
<1>2. ASSUME NEW r \in Rank, RankStep(r), ~Upload(r) PROVE RemoteInv'
  BY <1>0, <1>1, <1>2, RemoteStays, SavedStays
<1>3. ASSUME NEW r \in Rank, Upload(r) PROVE RemoteInv'
  <2>1. r = Rank0 /\ pc[Rank0] = "upload"
    BY <1>0, <1>3 DEF Upload, ModelInv, SaverInv, Saving
  <2>2. step[r] \in Steps
    BY <1>0, <2>1, StepTypes
  <2>3. Written(step[r])
    BY <1>0, <2>1, <2>2, SavedIsWritten DEF SaveInv, WriteInv
  <2>4. UNCHANGED <<run, dirs, file>>
    BY <1>0, <1>3, UploadEffect
  <2>5. \A s \in Steps, i \in Part :
           \/ remote'[s][i] = remote[s][i]
           \/ s = step[r] /\ remote'[s][i] = file[s][i]
    BY <1>0, <1>3, UploadEffect
  <2>6. \A s \in Steps, i \in Part : file[s][i].run <= run
    BY <1>0 DEF ModelInv, FileInv
  <2>7. \A s \in Steps : Written(s)' <=> Written(s)
    BY <2>4 DEF Written, Whole
  <2>8. RemoteFollowsLocal'
    BY <2>3, <2>4, <2>5, <2>7 DEF RemoteInv, RemoteFollowsLocal
  <2>9. QED
    BY <2>4, <2>5, <2>6, <2>8 DEF RemoteInv
<1>4. CASE Crash \/ UNCHANGED vars
  BY <1>1, <1>4 DEF Crash, vars, disk
<1>5. CASE Restart
  <2>1. run' = run + 1 /\ remote' = remote /\ run \in Nat
    BY <1>0, <1>5 DEF Restart, disk, TypeInv, TypeOK
  <2>2. remote \in [Steps -> [Part -> [run : Nat, weights : [Rank -> SUBSET Steps]]]]
    BY <1>0 DEF TypeInv, TypeOK
  <2>3. \A s \in Steps, i \in Part : remote'[s][i].run \in Nat /\ remote'[s][i].run <= run
    BY <2>1, <2>2 DEF RemoteInv
  <2>4. \A s \in Steps, i \in Part : remote'[s][i].run # run' /\ remote'[s][i].run <= run'
    BY <2>1, <2>3
  <2>5. QED
    BY <2>4 DEF RemoteInv, RemoteFollowsLocal
<1>6. QED
  BY <1>2, <1>3, <1>4, <1>5 DEF Next, Over, RankStep

\* Nothing of this run is in HDFS that is not in the local directory, and
\* only of checkpoints that are complete there.
THEOREM CopiesFollowCheckpoints == Spec => []RemoteFollowsLocal
<1>1. Init => RemoteInv
  <2>1. ASSUME Init, NEW s \in Steps, NEW i \in Part PROVE remote[s][i].run = 0 /\ run = 1
    BY <2>1 DEF Init, NoFile
  <2>2. QED
    BY <2>1 DEF RemoteInv, RemoteFollowsLocal
<1>2. QED
  BY <1>1, RemoteKept, SaveInvariant, PTL DEF Spec, RemoteInv

-----------------------------------------------------------------------------
(* The evaluation script finds the final model of a finished job.          *)

\* The loop is left after the step the limit names: no rank is at a later
\* step, and no directory of a later step is made.
Reachable(s) == s = 1 \/ s - 1 < Limit

LimitInv ==
    /\ \A r \in Rank : /\ pc[r] # "fetch" /\ step[r] \in Steps => Reachable(step[r])
                       /\ pc[r] = "fetch" /\ step[r] \in Steps => ~IsLast(step[r])
    /\ \A s \in dirs : Reachable(s)

LEMMA LimitType == Limit \in Nat
  BY ConfigAssumption DEF Limit

LEMMA LimitKept ==
    ASSUME IInv, LimitInv, NEW r \in Rank, RankStep(r)
    PROVE  LimitInv'
<1> USE DEF IInv, TypeInv, TypeOK
<1> DEFINE Fine(q) ==
        /\ pc'[q] # "fetch" /\ step'[q] \in Steps => Reachable(step'[q])
        /\ pc'[q] = "fetch" /\ step'[q] \in Steps => ~IsLast(step'[q])
<1>1. \A q \in Rank \ {r} : Fine(q)
  BY OthersStay DEF LimitInv
<1>2. /\ pc[r] \notin {"fetch", "done"} => step[r] \in Steps /\ Reachable(step[r])
      /\ \A s \in dirs : Reachable(s)
  BY StepTypes DEF LimitInv
<1>3. ASSUME dirs' = dirs, Fine(r) PROVE LimitInv'
  BY <1>1, <1>2, <1>3 DEF LimitInv, Reachable, IsLast
<1>4. CASE Enter(r) \/ EnterNorm(r) \/ EnterGather(r)
  BY <1>3, <1>4 DEF Enter, EnterNorm, EnterGather, Post, disk, LimitInv
<1>5. CASE Fetch(r)
  <2>1. step[r] \in Steps => step[r] < Limit
    BY <1>5, LimitType, StepTypes DEF Fetch, LimitInv, IsLast
  <2>2. step[r] \in Nat /\ (step[r] \in Steps \/ step[r] = 0)
    BY StepTypes
  <2>3. /\ pc'[r] # "fetch" /\ dirs' = dirs
        /\ step'[r] = step[r] + 1 \/ (step'[r] = step[r] /\ step[r] + 1 \notin Steps)
    BY <1>5 DEF Fetch, Goto, disk
  <2>4. Fine(r)
    BY <2>1, <2>2, <2>3, LimitType DEF Reachable
  <2>5. QED
    BY <1>3, <2>3, <2>4
<1> USE DEF Goto, SaveDue, ValDue
<1>6. CASE LeaveMicro(r) \/ LeaveNorm(r) \/ OptimizerStep(r)
  BY <1>2, <1>3, <1>6 DEF LeaveMicro, LeaveNorm, OptimizerStep, Leave, disk
<1>7. CASE LeaveLoss(r) \/ LeaveVal(r) \/ ValMean(r) \/ LeaveValBarrier(r)
  BY <1>2, <1>3, <1>7 DEF LeaveLoss, LeaveVal, ValMean, LeaveValBarrier, Leave, disk
<1>8. CASE LeaveGather(r) \/ Write(r) \/ Upload(r) \/ LeaveSaveBarrier(r)
  BY <1>2, <1>3, <1>8 DEF LeaveGather, Write, Upload, LeaveSaveBarrier, Leave, disk
<1>9. CASE Mkdir(r)
  <2>1. dirs' = dirs \cup {step[r]} /\ Fine(r) /\ Reachable(step[r])
    BY <1>2, <1>9 DEF Mkdir
  <2>2. QED
    BY <1>1, <1>2, <2>1 DEF LimitInv, Reachable, IsLast
<1>10. QED
  BY <1>4, <1>5, <1>6, <1>7, <1>8, <1>9 DEF RankStep

EvalInv == SaveInv /\ LimitInv

LEMMA EvalInvariant == Spec => []EvalInv
<1>1. Init => LimitInv
  BY ConstantTypes DEF Init, LimitInv
<1>2. ASSUME SaveInv, LimitInv, [Next]_vars PROVE LimitInv'
  <2>1. ASSUME NEW r \in Rank, RankStep(r) PROVE LimitInv'
    BY <1>2, <2>1, LimitKept DEF SaveInv, ModelInv
  <2>2. CASE Crash \/ UNCHANGED vars
    BY <1>2, <2>2 DEF Crash, vars, local, disk, LimitInv, Reachable, IsLast
  <2>3. CASE Restart
    <3>1. /\ pc' = [q \in Rank |-> "fetch"] /\ step' = [q \in Rank |-> 0] /\ dirs' = dirs
      BY <2>3 DEF Restart, Fresh, disk
    <3>2. 0 \notin Steps
      BY ConstantTypes
    <3>3. QED
      BY <1>2, <3>1, <3>2 DEF LimitInv, Reachable
  <2>4. QED
    BY <1>2, <2>1, <2>2, <2>3 DEF Next, Over
<1>3. EvalInv /\ [Next]_vars => EvalInv'
  BY <1>2, NextSaveInv DEF EvalInv
<1>4. QED
  BY <1>1, <1>3, InitSaveInv, PTL DEF Spec, EvalInv

\* When all ranks have ended after the last step, resolve_model_path picks
\* the directory of that step, and it holds the model they ended with.
THEOREM FinalModelIsEvaluated == Spec => []FinishedJobIsEvaluated
<1> DEFINE last == step[Rank0]
<1>1. ASSUME EvalInv, \A r \in Rank : pc[r] = "done" /\ step[r] \in Steps /\ IsLast(step[r])
      PROVE  /\ ResolveModelPath = last /\ Written(ResolveModelPath)
             /\ file[ResolveModelPath][1].weights = params
  <2> USE <1>1 DEF EvalInv, SaveInv, ModelInv, IInv
  <2>1. /\ Rank0 \in Rank /\ last \in Steps /\ last \in Nat /\ last >= 1 /\ last >= Limit
        /\ 1 \in Part /\ Steps \subseteq Nat /\ dirs \subseteq Steps
    BY ConstantTypes, StepTypes DEF IsLast, Part, TypeInv, TypeOK
  <2>2. last <= Reached(Upcoming(Rank0))
    BY <2>1, PassedIsReached
  <2>3. Saved(last) /\ Written(last)
    BY <2>1, <2>2, SavedIsWritten DEF WriteInv, SaveDue
  <2>4. \A s \in dirs : s <= last
    BY <2>1, LimitType DEF LimitInv, Reachable
  <2>5. Max(dirs) = last
    <3>1. last \in dirs
      BY <2>3 DEF Saved
    <3>2. \A m \in dirs : (\A y \in dirs : m >= y) => m = last
      BY <2>1, <2>4, <3>1
    <3>3. \A y \in dirs : last >= y
      BY <2>1, <2>4
    <3>4. QED
      BY <3>1, <3>2, <3>3 DEF Max
  <2>6. file[last][1].run = run /\ run >= 1
    BY <2>1, <2>3 DEF Saved, FileInv
  <2>7. NoFile.run = 0
    BY DEF NoFile
  <2>8. ResolveModelPath = last
    BY <2>1, <2>3, <2>5, <2>6, <2>7 DEF ResolveModelPath, HasConfig, Saved
  <2>9. ASSUME NEW q \in Rank PROVE params[q] = finite \cap (1 .. last)
    <3>1. Upcoming(q) = <<"end", step[q], 0>> /\ Upcoming(Rank0) = <<"end", last, 0>>
      BY <2>1 DEF Upcoming, Collective
    <3>2. ~inside[q] /\ ~inside[Rank0]
      BY <2>1 DEF LockInv, Collective
    <3>3. step[q] = last
      BY <2>1, <3>1, <3>2, NearRanks
    <3>4. QED
      BY <3>3 DEF ShardsAgree, Past
  <2>10. params = [q \in Rank |-> finite \cap (1 .. last)]
    BY <2>9 DEF TypeInv, TypeOK
  <2>11. file[last][1].weights = [q \in Rank |-> finite \cap (1 .. last)]
    BY <2>1, <2>6 DEF CheckpointIsOneModel
  <2>12. QED
    BY <2>3, <2>8, <2>10, <2>11
<1>2. EvalInv => FinishedJobIsEvaluated
  BY <1>1 DEF FinishedJobIsEvaluated
<1>3. QED
  BY <1>2, EvalInvariant, PTL

-----------------------------------------------------------------------------
(* SFTTrainer implements SequentialFit: whatever the number of ranks, the  *)
(* job takes its steps and saves its checkpoints as one program would.     *)

\* Rank 0 gathers and writes only when a save is due, and the files of the
\* step it is at are of this run only when it has written them.
PhaseInv ==
    /\ pc[Rank0] \in {"gather", "savebar"} \cup Saving => SaveDue(step[Rank0])
    /\ \A i \in Part :
          /\ pc[Rank0] \notin {"fetch", "done", "upload", "savebar"}
          /\ pc[Rank0] = "write" => i > NParts - left[Rank0]
          => file[step[Rank0]][i].run # run

LEMMA PhaseKept ==
    ASSUME EvalInv, PhaseInv, NEW r \in Rank, RankStep(r)
    PROVE  PhaseInv'
<1> USE DEF EvalInv, SaveInv, ModelInv, IInv, TypeInv, TypeOK
<1>0. /\ Rank0 \in Rank /\ run' = run /\ (~Write(r) => file' = file)
      /\ Part = 1 .. NParts /\ NParts \in Nat
  BY ConstantTypes, FilesStay DEF Part
<1>1. CASE r # Rank0
  <2>1. ~Write(r)
    BY <1>1 DEF Write, SaverInv, Saving
  <2>2. /\ pc'[Rank0] = pc[Rank0] /\ step'[Rank0] = step[Rank0]
        /\ left'[Rank0] = left[Rank0]
    BY <1>0, <1>1, OthersStay
  <2>3. QED
    BY <1>0, <2>1, <2>2 DEF PhaseInv, SaveDue, IsLast
<1> USE DEF PhaseInv, Saving, Goto, SaveDue, IsLast
<1>2. CASE r = Rank0 /\ (Enter(r) \/ EnterNorm(r) \/ EnterGather(r))
  <2>1. UNCHANGED <<pc, step, left, file>>
    BY <1>2 DEF Enter, EnterNorm, EnterGather, Post, disk
  <2>2. QED
    BY <1>0, <2>1
<1>3. CASE r = Rank0 /\ Fetch(r)
  <2>1. pc[r] = "fetch" /\ file' = file
    BY <1>3 DEF Fetch, disk
  <2>2. CASE step[r] + 1 \in Steps /\ step'[r] = step[r] + 1 /\ pc'[r] = "micro"
    <3>1. \A i \in Part : file[step[r] + 1][i].run # run
      BY <1>3, <2>1, <2>2, StepTypes DEF FileInv, Past
    <3>2. QED
      BY <1>0, <1>3, <2>1, <2>2, <3>1
  <2>3. CASE pc'[r] = "done"
    BY <1>3, <2>3
  <2>4. QED
    BY <1>3, <2>2, <2>3 DEF Fetch
<1>4. CASE r = Rank0 /\ (LeaveMicro(r) \/ LeaveNorm(r) \/ OptimizerStep(r))
  <2>1. /\ pc[r] \in {"micro", "norm", "optim"} /\ pc'[r] \in {"micro", "norm", "optim", "loss"}
        /\ step' = step /\ file' = file
    BY <1>4 DEF LeaveMicro, LeaveNorm, OptimizerStep, Leave, disk
  <2>2. QED
    BY <1>0, <1>4, <2>1
<1>5. CASE r = Rank0 /\ (LeaveLoss(r) \/ LeaveVal(r) \/ ValMean(r) \/ LeaveValBarrier(r))
  <2>1. /\ pc[r] \in {"loss", "val", "valmean", "valbar"} /\ step' = step /\ file' = file
        /\ pc'[r] \in {"val", "valmean", "valbar", "EmptyStackError", "gather", "fetch"}
        /\ pc'[r] = "gather" => SaveDue(step[r])
    BY <1>5 DEF LeaveLoss, LeaveVal, ValMean, LeaveValBarrier, Leave, disk
  <2>2. QED
    BY <1>0, <1>5, <2>1
<1>6. CASE r = Rank0 /\ (LeaveGather(r) \/ Upload(r) \/ LeaveSaveBarrier(r))
  <2>1. /\ pc[r] \in {"gather", "upload", "savebar"} /\ step' = step /\ file' = file
        /\ pc'[r] \in {"mkdir", "savebar", "done", "fetch"}
        /\ pc'[r] = "mkdir" => pc[r] = "gather"
        /\ pc'[r] = "savebar" => pc[r] = "upload"
    BY <1>6 DEF LeaveGather, Upload, LeaveSaveBarrier, Leave, disk
  <2>2. QED
    BY <1>0, <1>6, <2>1
<1>7. CASE r = Rank0 /\ Mkdir(r)
  <2>1. pc[r] = "mkdir" /\ pc'[r] = "write" /\ step' = step /\ file' = file
    BY <1>7 DEF Mkdir
  <2>2. QED
    BY <1>0, <1>7, <2>1
<1>8. CASE r = Rank0 /\ Write(r)
  <2>1. /\ pc[r] = "write" /\ step' = step /\ left[r] \in 1 .. NParts
        /\ pc'[r] = "write" => left'[r] = left[r] - 1
        /\ pc'[r] \in {"write", "upload", "savebar"}
    BY <1>8 DEF Write, WriteInv
  <2>2. \A i \in Part : i > NParts - left[r] + 1 => file'[step[r]][i] = file[step[r]][i]
    <3>1. \A i \in Part : i > NParts - left[r] + 1 => i # NParts - left[r] + 1
      BY <1>0, <2>1
    <3>2. step[r] \in Steps /\ \A s \in Steps, i \in Part :
             file'[s][i] = IF s = step[r] /\ i = NParts - left[r] + 1
                           THEN Stamp ELSE file[s][i]
      BY <1>8, WriteEffect
    <3>3. QED
      BY <3>1, <3>2
  <2>3. \A i \in Part : i > NParts - (left[r] - 1) =>
            i > NParts - left[r] + 1 /\ i > NParts - left[r]
    BY <1>0, <2>1
  <2>4. QED
    BY <1>0, <1>8, <2>1, <2>2, <2>3
<1>9. QED
  BY <1>1, <1>2, <1>3, <1>4, <1>5, <1>6, <1>7, <1>8 DEF RankStep

RefineInv == EvalInv /\ PhaseInv

LEMMA RefineInvariant == Spec => []RefineInv
<1>1. Init => PhaseInv
  BY ConstantTypes DEF Init, PhaseInv, Saving
<1>2. ASSUME EvalInv, PhaseInv, [Next]_vars PROVE PhaseInv'
  <2>1. ASSUME NEW r \in Rank, RankStep(r) PROVE PhaseInv'
    BY <1>2, <2>1, PhaseKept
  <2>2. CASE Crash \/ UNCHANGED vars
    BY <1>2, <2>2 DEF Crash, vars, local, disk, PhaseInv, SaveDue, IsLast
  <2>3. CASE Restart
    BY <2>3, ConstantTypes DEF Restart, Fresh, PhaseInv, Saving
  <2>4. QED
    BY <1>2, <2>1, <2>2, <2>3 DEF Next, Over
<1>3. RefineInv /\ EvalInv' /\ [Next]_vars => RefineInv'
  BY <1>2 DEF RefineInv
<1>4. QED
  BY <1>1, <1>3, EvalInvariant, PTL DEF Spec, RefineInv

-----------------------------------------------------------------------------
(* The steps of rank 0 as steps of the sequential program.                  *)

\* A checkpoint with a first file of this run and a last one of another.
LEMMA TornDisk ==
    ASSUME NEW s \in Steps, NEW f, f[s][1].run # f[s][NParts].run,
           f[s][1].run # NoFile.run, 1 \in Part, NParts \in Part
    PROVE  ~(\A i \in Part : f[s][i] = NoFile) /\ ~Whole(s, f)
  BY DEF Whole

LEMMA OptimizerTrains ==
    ASSUME RefineInv, OptimizerStep(Rank0), Rank0 \in Rank
    PROVE  Sequential!Train
<1> DEFINE s == step[Rank0]
<1> USE DEF RefineInv, EvalInv, SaveInv, ModelInv, IInv
<1>1. /\ pc[Rank0] = "optim" /\ pc'[Rank0] = "loss" /\ step' = step /\ file' = file
      /\ params'[Rank0] \in {params[Rank0], params[Rank0] \cup {s}}
  BY DEF OptimizerStep, Goto, disk, TypeInv, TypeOK
<1>2. s \in Steps /\ s \in Nat /\ s >= 1
  BY <1>1, StepTypes
<1>3. Past(Rank0) = s - 1 /\ Past(Rank0)' = s /\ (s - 1) + 1 = s
  BY <1>1, <1>2 DEF Past
<1>4. Phase = "train" /\ Phase' = IF SaveDue(s) THEN "save" ELSE "train"
  BY <1>1, <1>2 DEF Phase, SaveDue, IsLast
<1>5. s - 1 > 0 => ~IsLast(s - 1)
  BY <1>1, <1>2, LimitType DEF LimitInv, Reachable, IsLast
<1>6. [t \in Steps |-> OnDisk(t)]' = [t \in Steps |-> OnDisk(t)]
  BY <1>1 DEF OnDisk, Whole
<1>7. QED
  BY <1>1, <1>2, <1>3, <1>4, <1>5, <1>6 DEF Sequential!Train

\* What rank 0 does elsewhere the sequential program does not see.
LEMMA OtherStutters ==
    ASSUME RefineInv, RankStep(Rank0), ~Write(Rank0), ~OptimizerStep(Rank0), Rank0 \in Rank
    PROVE  UNCHANGED Sequential!vars
<1> DEFINE r == Rank0
<1> USE DEF RefineInv, EvalInv, SaveInv, ModelInv, IInv
<1>1. Past(Rank0)' = Past(Rank0) /\ params' = params /\ file' = file
  BY PastStays, FilesStay
<1>2. [t \in Steps |-> OnDisk(t)]' = [t \in Steps |-> OnDisk(t)]
  BY <1>1 DEF OnDisk, Whole
<1>3. Phase' = Phase
  <2> USE DEF Phase, SaveDue, IsLast, Goto, TypeInv, TypeOK
  <2>1. CASE Enter(r) \/ EnterNorm(r) \/ EnterGather(r)
    BY <2>1 DEF Enter, EnterNorm, EnterGather, Post
  <2>2. CASE Fetch(r)
    BY <2>2 DEF Fetch
  <2>3. CASE LeaveMicro(r) \/ LeaveNorm(r)
    BY <2>3 DEF LeaveMicro, LeaveNorm, Leave
  <2>4. CASE LeaveLoss(r) \/ LeaveVal(r) \/ ValMean(r) \/ LeaveValBarrier(r)
    <3>1. /\ pc[r] \in {"loss", "val", "valmean", "valbar"} /\ step' = step
          /\ \/ pc'[r] \in {"val", "valmean", "valbar", "EmptyStackError", "gather"}
             \/ pc'[r] = "fetch" /\ ~SaveDue(step[r])
      BY <2>4 DEF LeaveLoss, LeaveVal, ValMean, LeaveValBarrier, Leave
    <3>2. QED
      BY <3>1
  <2>5. CASE LeaveGather(r) \/ Upload(r) \/ LeaveSaveBarrier(r)
    BY <2>5 DEF LeaveGather, Upload, LeaveSaveBarrier, Leave
  <2>6. CASE Mkdir(r)
    <3>1. pc[r] = "mkdir" /\ pc'[r] = "write" /\ left'[r] = NParts /\ step' = step
      BY <2>6 DEF Mkdir
    <3>2. ~(left'[r] < NParts)
      BY <3>1, ConstantTypes
    <3>3. QED
      BY <3>1, <3>2
  <2>7. QED
    BY <2>1, <2>2, <2>3, <2>4, <2>5, <2>6 DEF RankStep
<1>4. QED
  BY <1>1, <1>2, <1>3 DEF Sequential!vars

\* The first file begins a save, the last one ends it.
LEMMA WriteSaves ==
    ASSUME RefineInv, RefineInv', Write(Rank0), Rank0 \in Rank
    PROVE  Sequential!BeginSave \/ Sequential!EndSave \/ UNCHANGED Sequential!vars
<1> PICK s : s = step[Rank0]
  OBVIOUS
<1>0. RankStep(Rank0)
  BY DEF RankStep
<1>1. /\ EvalInv /\ PhaseInv /\ ModelInv /\ WriteInv /\ IInv /\ TypeInv
      /\ EvalInv' /\ PhaseInv' /\ ModelInv' /\ WriteInv' /\ TypeInv'
  BY DEF RefineInv, EvalInv, SaveInv, ModelInv, IInv
<1>2. /\ s \in Steps /\ s \in Nat /\ s >= 1 /\ NParts \in Nat /\ NParts >= 2
      /\ Part = 1 .. NParts /\ 1 \in Part /\ NParts \in Part
  BY <1>1, StepTypes, ConstantTypes DEF Write, Part
<1>3. /\ pc[Rank0] = "write" /\ UNCHANGED <<step, params, finite, run>>
      /\ left[Rank0] \in 1 .. NParts
      /\ left[Rank0] > 1 => pc'[Rank0] = "write" /\ left'[Rank0] = left[Rank0] - 1
      /\ ~(left[Rank0] > 1) => pc'[Rank0] \in {"upload", "savebar"}
  BY <1>1 DEF Write, WriteInv, Goto, TypeInv, TypeOK
<1>4. Past(Rank0) = s /\ Past(Rank0)' = s
  BY <1>3 DEF Past
<1>5. SaveDue(s) /\ s # 0
  BY <1>1, <1>2, <1>3 DEF PhaseInv, Saving
<1>6. \A t \in Steps, i \in Part : t # s => file'[t][i] = file[t][i]
  BY <1>1, WriteEffect
<1>7. \A t \in Steps : t # s => OnDisk(t)' = OnDisk(t)
  BY <1>2, <1>6 DEF OnDisk, Whole
<1>8. run \in Nat /\ run >= 1 /\ NoFile.run = 0
  BY <1>1 DEF ModelInv, FileInv, TypeInv, TypeOK, NoFile
<1>9. Phase = IF left[Rank0] < NParts THEN "saving" ELSE "save"
  BY <1>3, <1>5 DEF Phase
<1>10. left[Rank0] < NParts => OnDisk(s) = Sequential!Torn
  <2>1. ASSUME left[Rank0] < NParts PROVE OnDisk(s) = Sequential!Torn
    <3>1. 1 \in 1 .. NParts - left[Rank0] /\ NParts > NParts - left[Rank0]
      BY <1>2, <1>3, <2>1
    <3>2. file[s][1].run = run /\ file[s][NParts].run # run
      BY <1>1, <1>2, <1>3, <3>1 DEF WriteInv, PhaseInv
    <3>3. ~(\A i \in Part : file[s][i] = NoFile) /\ ~Whole(s, file)
      BY <1>2, <1>8, <3>2, TornDisk
    <3>4. QED
      BY <3>3 DEF OnDisk, Sequential!Torn
  <2>2. QED
    BY <2>1
<1>11. CASE left[Rank0] > 1
  <2>1. 1 \in 1 .. NParts - left'[Rank0] /\ NParts > NParts - left'[Rank0]
    BY <1>2, <1>3, <1>11
  <2>2. file'[s][1].run = run /\ file'[s][NParts].run # run
    BY <1>1, <1>2, <1>3, <1>11, <2>1 DEF WriteInv, PhaseInv
  <2>3. ~(\A i \in Part : file'[s][i] = NoFile) /\ ~Whole(s, file')
    BY <1>2, <1>8, <2>2, TornDisk
  <2>4. OnDisk(s)' = Sequential!Torn
    BY <1>3, <2>3 DEF OnDisk, Sequential!Torn, Whole
  <2>5. Phase' = "saving"
    <3>1. left'[Rank0] < NParts
      BY <1>2, <1>3, <1>11
    <3>2. QED
      BY <1>3, <1>5, <1>11, <3>1 DEF Phase, SaveDue, IsLast
  <2>6. CASE left[Rank0] < NParts
    <3>1. OnDisk(s)' = OnDisk(s) /\ Phase' = Phase
      BY <1>9, <1>10, <2>4, <2>5, <2>6
    <3>2. [t \in Steps |-> OnDisk(t)]' = [t \in Steps |-> OnDisk(t)]
      BY <1>7, <3>1
    <3>3. QED
      BY <1>3, <1>4, <3>1, <3>2 DEF Sequential!vars
  <2>7. CASE ~(left[Rank0] < NParts)
    <3>1. [t \in Steps |-> OnDisk(t)]' =
              [[t \in Steps |-> OnDisk(t)] EXCEPT ![s] = Sequential!Torn]
      BY <1>2, <1>7, <2>4
    <3>2. QED
      BY <1>3, <1>4, <1>9, <2>5, <2>7, <3>1 DEF Sequential!BeginSave
  <2>8. QED
    BY <2>6, <2>7
<1>12. CASE ~(left[Rank0] > 1)
  <2>1. left[Rank0] < NParts
    BY <1>2, <1>3, <1>12
  <2>2. Phase' = "train"
    BY <1>3, <1>5, <1>12 DEF Phase
  <2>3. \A i \in Part : file'[s][i].run = run
    BY <1>1, <1>3, <1>12 DEF WriteInv, Saved
  <2>4. \A i \in Part :
          /\ file'[s][i] \in [run : Nat, weights : [Rank -> SUBSET Steps]]
          /\ file'[s][i].weights = [q \in Rank |-> finite \cap (1 .. s)]
    <3>1. file' \in [Steps -> [Part -> [run : Nat, weights : [Rank -> SUBSET Steps]]]]
      BY <1>1 DEF TypeInv, TypeOK
    <3>2. CheckpointIsOneModel'
      BY <1>1 DEF ModelInv
    <3>3. s \in Steps /\ run' = run /\ finite' = finite
      BY <1>2, <1>3
    <3>4. \A i \in Part : file'[s][i].weights = [q \in Rank |-> finite \cap (1 .. s)]
      BY <2>3, <3>2, <3>3 DEF CheckpointIsOneModel
    <3>5. QED
      BY <3>1, <3>3, <3>4
  <2>5. \A i \in Part :
          file'[s][i] = [run |-> run, weights |-> [q \in Rank |-> finite \cap (1 .. s)]]
    BY <2>3, <2>4
  <2>6. Whole(s, file') /\ file'[s][1] # NoFile
    BY <1>2, <1>8, <2>3, <2>5 DEF Whole
  <2>7. OnDisk(s)' = [is |-> "whole", model |-> finite \cap (1 .. s)]
    <3>1. ~(\A i \in Part : file'[s][i] = NoFile)
      BY <1>2, <2>6
    <3>2. \A r \in Rank : file'[s][1].weights[r] = finite \cap (1 .. s)
      BY <1>2, <2>4
    <3>3. QED
      BY <2>6, <3>1, <3>2 DEF OnDisk, Whole
  <2>8. params[Rank0] = finite \cap (1 .. s)
    BY <1>1, <1>4 DEF ModelInv, ShardsAgree
  <2>9. [t \in Steps |-> OnDisk(t)]' =
            [[t \in Steps |-> OnDisk(t)] EXCEPT
                ![s] = [is |-> "whole", model |-> params[Rank0]]]
    BY <1>2, <1>7, <2>7, <2>8
  <2>10. QED
    BY <1>3, <1>4, <1>9, <2>1, <2>2, <2>9 DEF Sequential!EndSave
<1>13. QED
  BY <1>11, <1>12

LEMMA StepRefines ==
    ASSUME RefineInv, RefineInv', [Next]_vars
    PROVE  [Sequential!Next]_(Sequential!vars)
<1>0. Rank0 \in Rank /\ IInv /\ SaverInv
  BY ConstantTypes DEF RefineInv, EvalInv, SaveInv, ModelInv
<1>1. CASE RankStep(Rank0)
  BY <1>0, <1>1, OptimizerTrains, OtherStutters, WriteSaves DEF Sequential!Next
<1>2. ASSUME NEW r \in Rank, r # Rank0, RankStep(r)
      PROVE  UNCHANGED Sequential!vars
  <2>1. ~Write(r)
    BY <1>0, <1>2 DEF Write, SaverInv, Saving
  <2>2. /\ file' = file /\ pc'[Rank0] = pc[Rank0] /\ step'[Rank0] = step[Rank0]
        /\ left'[Rank0] = left[Rank0]
    BY <1>0, <1>2, <2>1, OthersStay, FilesStay
  <2>3. params'[Rank0] = params[Rank0]
    <3>1. CASE OptimizerStep(r)
      BY <1>0, <1>2, <3>1 DEF OptimizerStep, IInv, TypeInv, TypeOK
    <3>2. CASE ~OptimizerStep(r)
      BY <1>0, <1>2, <3>2, PastStays DEF IInv
    <3>3. QED
      BY <3>1, <3>2
  <2>4. Phase' = Phase /\ Past(Rank0)' = Past(Rank0)
    BY <2>2 DEF Phase, Past, SaveDue, IsLast
  <2>5. [t \in Steps |-> OnDisk(t)]' = [t \in Steps |-> OnDisk(t)]
    BY <2>2 DEF OnDisk, Whole
  <2>6. QED
    BY <2>3, <2>4, <2>5 DEF Sequential!vars
<1>3. CASE Restart
  <2>1. /\ pc'[Rank0] = "fetch" /\ step'[Rank0] = 0 /\ params'[Rank0] = {} /\ file' = file
    BY <1>0, <1>3 DEF Restart, Fresh, disk
  <2>2. Phase' = "train" /\ Past(Rank0)' = 0
    BY <2>1 DEF Phase, Past
  <2>3. [t \in Steps |-> OnDisk(t)]' = [t \in Steps |-> OnDisk(t)]
    BY <2>1 DEF OnDisk, Whole
  <2>4. QED
    BY <2>1, <2>2, <2>3 DEF Sequential!Again, Sequential!Next
<1>4. CASE Crash \/ UNCHANGED vars
  <2>1. UNCHANGED <<pc, step, left, params, file>>
    BY <1>4 DEF Crash, vars, local, disk
  <2>2. Phase' = Phase /\ Past(Rank0)' = Past(Rank0)
    BY <2>1 DEF Phase, Past, SaveDue, IsLast
  <2>3. [t \in Steps |-> OnDisk(t)]' = [t \in Steps |-> OnDisk(t)]
    BY <2>1 DEF OnDisk, Whole
  <2>4. QED
    BY <2>1, <2>2, <2>3 DEF Sequential!vars
<1>5. QED
  BY <1>1, <1>2, <1>3, <1>4 DEF Next, Over

\* The job implements the sequential program, seen through rank 0's progress,
\* its shard of the model and the files on the disk.
THEOREM JobIsSequential == Spec => ImplementsSequential
<1>1. Init => Sequential!Init
  BY ConstantTypes DEF Init, Sequential!Init, Past, Phase, OnDisk, Sequential!None
<1>2. RefineInv /\ RefineInv' /\ [Next]_vars => [Sequential!Next]_(Sequential!vars)
  BY StepRefines
<1>3. QED
  BY <1>1, <1>2, RefineInvariant, PTL DEF Spec, ImplementsSequential, Sequential!Spec

=============================================================================
