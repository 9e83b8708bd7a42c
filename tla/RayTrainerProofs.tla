-------------------------- MODULE RayTrainerProofs --------------------------
(***************************************************************************)
(* Theorems about RayTrainer, for any number of workers, files, steps and  *)
(* runs.  What they say of the tracker needs at least two checkpoints of   *)
(* every role to be kept; the bound on the checkpoints does not.           *)
(***************************************************************************)
EXTENDS RayTrainer, FiniteSetTheorems, TLAPS

\* With one checkpoint to keep, the old one is gone before the new one is there.
KeepsTwo == \A role \in Role : MaxKeep[role] # 1

Driver == {"data", "dataopen", "tracker", "trackeropen"}
Saving == {"rotate", "write"} \cup Driver
Running == {"train"} \cup Saving
Apart == {"load", "down", "failed"}

\* What a file holds, and the position in the data.
History == Seq(Nat)
Content == History \cup {None, Torn}
Position == 1..BatchesPerEpoch

\* A run that begins has one step more to go than the last one.
LastStep == TotalSteps + run - 1

TypeInv ==
    /\ pc \in Running \cup Apart \cup {"done"}
    /\ step \in Nat /\ pos \in 0..BatchesPerEpoch /\ run \in 1..MaxRuns
    /\ mode \in Modes /\ auto \in BOOLEAN
    /\ model \in [Role -> [Worker -> [File -> History]]]
    /\ file \in [Steps -> [Role -> [Worker -> [File -> Content]]]]
    /\ data \in [Steps -> Position \cup {None, Torn}]
    /\ saving \in 1..Len(Roles) /\ at \in [Worker -> 0..2 * NFiles]
    /\ kept \in [Role -> Seq(Nat)]
    /\ folder \subseteq 1..LastStep
    /\ tracker \in folder \cup {None, Torn}

\* Where the run is among the steps.
StepInv ==
    /\ pc \in Running => step \in 1..LastStep
    /\ pc \in Saving => pos >= 1
    /\ pc \in Saving \ {"rotate"} => step \in folder
    /\ pc = "load" =>
          /\ step = 0 /\ pos = 0 /\ model = [role \in Role |-> All(<<>>)]
          /\ folder \subseteq 1..(LastStep - 1)

\* What of the step's checkpoint has been written.
SaveInv ==
    /\ pc \in {"rotate", "write"} =>
          \A i \in 1..Len(Roles) : i < saving => file[step][Roles[i]] = model[Roles[i]]
    /\ pc = "write" =>
          \A w \in Worker, f \in File :
              2 * f <= at[w] => file[step][Now][w][f] = model[Now][w][f]
    /\ pc \in Driver => file[step] = model
    /\ pc \in {"tracker", "trackeropen"} => data[step] = pos
    /\ pc = "trackeropen" => tracker = Torn

\* The list of saved paths: in the order of the steps, none of which is ahead.
KeptInv ==
    /\ pc = "load" => kept = [role \in Role |-> <<>>]
    /\ \A role \in Role : \A i, j \in 1..Len(kept[role]) :
          i < j => kept[role][i] < kept[role][j]
    /\ pc \in Running => \A role \in Role : \A i \in 1..Len(kept[role]) :
          kept[role][i] <= step
    /\ pc = "train" => \A role \in Role : \A i \in 1..Len(kept[role]) :
          kept[role][i] < step
    /\ pc \in {"rotate", "write"} => \A k \in saving..Len(Roles) :
          \A i \in 1..Len(kept[Roles[k]]) : kept[Roles[k]][i] < step

\* The models in memory are one history, as long as the steps that are over.
OneHistory ==
    /\ \E h \in {model["actor"][w][1] : w \in Worker} :
          Len(h) = Done /\ model = [role \in Role |-> All(h)]
    /\ pos % BatchesPerEpoch = Done % BatchesPerEpoch

Tracked == IF tracker = None THEN 0 ELSE tracker

\* The tracker, as long as no operator interfered and two are kept.
TrackInv ==
    /\ pc \notin Apart => OneHistory
    /\ tracker \notin {None, Torn} => Whole(tracker)
    /\ tracker = Torn => pc \in {"trackeropen"} \cup Apart
    /\ pc = "load" => mode = "auto" \/ (mode = "disable" /\ tracker = None)
    /\ pc \in Running /\ tracker \notin {None, Torn} => tracker < step
    /\ pc \in Running \ {"trackeropen"} =>
          \A role \in Role : \A i \in 1..Len(kept[role]) :
              \/ kept[role][i] = step
              \/ tracker \notin {None, Torn} /\ kept[role][i] <= tracker
    /\ pc = "train" /\ SaveFreq > 0 =>
          Done - Tracked \in 0..(Done % SaveFreq)

\* The steps of which the role has anything on the disk, and those of them the
\* run has in its list or is writing.
Held(role) == {s \in Steps : file[s][role] # All(None)}
Listed(role) ==
    {kept[role][i] : i \in 1..Len(kept[role])}
        \cup (IF pc = "write" /\ role = Now THEN {step} ELSE {})

\* What is on the disk and not listed was left by earlier runs; a list has no
\* more entries than it may, and room for the one that is being written.
RoleCount(role) ==
    /\ Cardinality(Held(role)) <= run * MaxKeep[role]
    /\ pc \notin {"down", "failed"} =>
          /\ Cardinality(Held(role) \ Listed(role)) <= (run - 1) * MaxKeep[role]
          /\ Len(kept[role]) <= MaxKeep[role]
          /\ pc = "write" /\ role = Now => Len(kept[role]) < MaxKeep[role]

CountInv == \A role \in Role : MaxKeep[role] # NoLimit => RoleCount(role)

IInv == TypeInv /\ StepInv /\ SaveInv /\ KeptInv /\ (KeepsTwo /\ auto => TrackInv)

-----------------------------------------------------------------------------
(***************************************************************************)
(* Constants and arithmetic.                                               *)
(***************************************************************************)

LEMMA ConstantTypes ==
    /\ Worker # {} /\ NFiles \in Nat \ {0} /\ BatchesPerEpoch \in Nat \ {0}
    /\ TotalSteps \in Nat \ {0} /\ MaxRuns \in Nat \ {0} /\ SaveFreq \in Int
    /\ Len(Roles) \in {1, 2} /\ Roles[1] = "actor" /\ "actor" \in Role
    /\ \A i \in 1..Len(Roles) : Roles[i] \in Role
    /\ \A role \in Role : \E i \in 1..Len(Roles) : role = Roles[i]
    /\ \A i, j \in 1..Len(Roles) : Roles[i] = Roles[j] => i = j
    /\ <<>> \in History
  BY WorkerAssumption, CountAssumption DEF Roles, Role, History

LEMMA StepTypes ==
    ASSUME TypeInv, StepInv
    PROVE  /\ LastStep \in Nat /\ LastStep + 1 <= TotalSteps + MaxRuns
           /\ folder \subseteq Steps
           /\ pc \in Running => step \in Steps /\ step \in Nat \ {0}
<1>1. TotalSteps \in Nat \ {0} /\ run \in 1..MaxRuns /\ MaxRuns \in Nat
  BY ConstantTypes DEF TypeInv
<1>2. LastStep \in Nat /\ LastStep + 1 <= TotalSteps + MaxRuns
  BY <1>1 DEF LastStep
<1>3. \A s \in 1..LastStep : s \in Steps /\ s \in Nat \ {0}
  BY <1>1, <1>2 DEF Steps
<1> QED
  BY <1>2, <1>3 DEF TypeInv, StepInv

LEMMA Division ==
    ASSUME NEW a \in Nat, NEW b \in Nat \ {0}
    PROVE  a % b \in 0..b - 1 /\ a \div b \in Nat /\ a = (a \div b) * b + (a % b)
  OBVIOUS

LEMMA Remainder ==
    ASSUME NEW k \in Nat, NEW b \in Nat \ {0}, NEW x \in 0..b - 1
    PROVE  (k * b + x) % b = x
  OBVIOUS

\* The remainder of the next number depends on that of this one.
LEMMA NextRemainder ==
    ASSUME NEW a \in Nat, NEW b \in Nat \ {0}
    PROVE  /\ a % b = b - 1 => (a + 1) % b = 0
           /\ a % b # b - 1 => (a + 1) % b = (a % b) + 1
<1> DEFINE k == a \div b
           x == a % b
<1>1. x \in 0..b - 1 /\ k \in Nat /\ a = k * b + x
  BY Division
<1> HIDE DEF k, x
<1>2. CASE x = b - 1
  <2>1. a + 1 = (k + 1) * b + 0 /\ k + 1 \in Nat /\ 0 \in 0..b - 1
    BY <1>1, <1>2
  <2>2. ((k + 1) * b + 0) % b = 0
    BY <2>1, Remainder
  <2>3. (a + 1) % b = 0
    BY <2>1, <2>2
  <2> QED
    BY <1>2, <2>3 DEF x
<1>3. CASE x # b - 1
  <2>1. a + 1 = k * b + (x + 1) /\ x + 1 \in 0..b - 1
    BY <1>1, <1>3
  <2>2. (k * b + (x + 1)) % b = x + 1
    BY <1>1, <2>1, Remainder
  <2>3. (a + 1) % b = x + 1
    BY <2>1, <2>2
  <2> QED
    BY <1>3, <2>3 DEF x
<1> QED
  BY <1>2, <1>3

LEMMA WholePeriod ==
    ASSUME NEW b \in Nat \ {0}
    PROVE  0 % b = b % b
  OBVIOUS

\* Nothing a checkpoint consists of has changed.
LEMMA WholeStays ==
    ASSUME NEW s, Whole(s), file'[s] = file[s], data'[s] = data[s]
    PROVE  Whole(s)'
  BY DEF Whole

\* A sequence with one more element, or without its first ones.
LEMMA AppendOne ==
    ASSUME NEW S, NEW q \in Seq(S), NEW x \in S
    PROVE  /\ Append(q, x) \in Seq(S) /\ Len(Append(q, x)) = Len(q) + 1 /\ Len(q) \in Nat
           /\ \A i \in 1..Len(q) : Append(q, x)[i] = q[i]
           /\ Append(q, x)[Len(q) + 1] = x
  OBVIOUS

LEMMA Rest ==
    ASSUME NEW S, NEW q \in Seq(S), NEW n \in 0..Len(q)
    PROVE  /\ SubSeq(q, n + 1, Len(q)) \in Seq(S)
           /\ Len(SubSeq(q, n + 1, Len(q))) = Len(q) - n
           /\ \A i \in 1..Len(q) - n : SubSeq(q, n + 1, Len(q))[i] = q[n + i]
  OBVIOUS

LEMMA InitHolds == Init => IInv
<1> SUFFICES ASSUME Init PROVE IInv
  OBVIOUS
<1> USE DEF Init
<1>1. TypeInv
  BY ConstantTypes DEF TypeInv, All, Content, Apart
<1>2. StepInv
  BY DEF StepInv, Running, Saving, Driver
<1>3. SaveInv
  BY DEF SaveInv, Driver
<1>4. KeptInv
  BY DEF KeptInv, Running, Saving, Driver
<1>5. TrackInv
  BY NothingAssumption, CountAssumption DEF TrackInv, Running, Saving, Driver, Apart
<1> QED
  BY <1>1, <1>2, <1>3, <1>4, <1>5 DEF IInv

-----------------------------------------------------------------------------
(***************************************************************************)
(* Loading.                                                                *)
(***************************************************************************)

LEMMA ScratchKeeps ==
    ASSUME IInv, pc = "load", Scratch, KeepsTwo /\ auto => tracker = None
    PROVE  IInv'
<1> USE DEF IInv, Scratch, disk
<1>1. TypeInv'
  BY DEF TypeInv, LastStep, Running
<1>2. StepInv'
  BY ConstantTypes DEF TypeInv, StepInv, LastStep, Running, Saving, Driver
<1>3. SaveInv'
  BY DEF SaveInv, Driver
<1>4. KeptInv'
  BY DEF KeptInv, Running, Saving, Driver
<1>5. ASSUME KeepsTwo, auto' PROVE TrackInv'
  <2>1. tracker = None /\ tracker' = None /\ TrackInv /\ step = 0 /\ pos = 0
        /\ model = [role \in Role |-> All(<<>>)]
    BY <1>5 DEF StepInv
  <2>2. Done' = 0 /\ Tracked' = 0
    BY <2>1 DEF Done, Tracked
  <2>3. OneHistory'
    <3>1. \A w \in Worker : model["actor"][w][1] = <<>>
      BY <2>1, ConstantTypes DEF All, File
    <3>2. <<>> \in {model["actor"][w][1] : w \in Worker}
      BY <3>1, ConstantTypes
    <3> QED
      BY <2>1, <2>2, <3>2 DEF OneHistory, All
  <2>4. SaveFreq > 0 => Done' - Tracked' \in 0..(Done' % SaveFreq)
    BY <2>2, ConstantTypes, Division
  <2>5. kept' = [role \in Role |-> <<>>]
    BY DEF KeptInv
  <2> QED
    BY <2>1, <2>3, <2>4, <2>5, NothingAssumption DEF TrackInv, Apart, Running, Saving, Driver
<1> QED
  BY <1>1, <1>2, <1>3, <1>4, <1>5

LEMMA RaiseKeeps == ASSUME IInv, pc = "load", Raise PROVE IInv'
<1> USE DEF IInv, Raise, disk, memory
<1>1. TypeInv' /\ StepInv' /\ SaveInv' /\ KeptInv'
  BY DEF TypeInv, LastStep, StepInv, SaveInv, KeptInv, Running, Saving, Driver, Apart
<1>2. ASSUME KeepsTwo, auto' PROVE TrackInv'
  <2>1. tracker \notin {None, Torn} => Whole(tracker)'
    BY <1>2, WholeStays DEF TrackInv
  <2> QED
    BY <1>2, <2>1 DEF TrackInv, Apart, Running, Saving, Driver
<1> QED
  BY <1>1, <1>2

\* What can be loaded is of the type of the models.
LEMMA LoadableIsModel ==
    ASSUME TypeInv, NEW s \in Steps, Loadable(s)
    PROVE  file[s] \in [Role -> [Worker -> [File -> History]]]
<1>1. file[s] \in [Role -> [Worker -> [File -> Content]]]
  BY DEF TypeInv
<1>2. ASSUME NEW role \in Role PROVE file[s][role] \in [Worker -> [File -> History]]
  <2>1. file[s][role] \in [Worker -> [File -> Content]]
    BY <1>1
  <2>2. ASSUME NEW w \in Worker PROVE file[s][role][w] \in [File -> History]
    <3>1. file[s][role][w] \in [File -> Content]
      BY <2>1
    <3>2. \A f \in File : file[s][role][w][f] \in History
      BY <3>1 DEF Loadable, Content
    <3> QED
      BY <3>1, <3>2
  <2> QED
    BY <2>1, <2>2
<1> QED
  BY <1>1, <1>2

LEMMA ResumeKeeps ==
    ASSUME IInv, pc = "load", NEW s \in folder, Resume(s), KeepsTwo /\ auto => s = tracker
    PROVE  IInv'
<1> USE DEF IInv, Resume, disk
<1>1. s \in Steps /\ s \in 1..(LastStep - 1) /\ s \in Nat /\ LastStep \in Nat
  BY StepTypes DEF StepInv
<1>2. data[s] \in Position \cup {None} /\ pos' \in 0..BatchesPerEpoch
  BY <1>1, ConstantTypes DEF TypeInv, Position
<1>3. model' \in [Role -> [Worker -> [File -> History]]]
  BY <1>1, LoadableIsModel
<1>4. TypeInv'
  BY <1>1, <1>2, <1>3 DEF TypeInv, LastStep, Running
<1>5. StepInv'
  BY <1>1 DEF StepInv, LastStep, Running, Saving, Driver
<1>6. SaveInv'
  BY DEF SaveInv, Driver
<1>7. kept' = [role \in Role |-> <<>>]
  BY DEF KeptInv
<1>8. KeptInv'
  BY <1>7 DEF KeptInv, Running, Saving, Driver
<1>9. ASSUME KeepsTwo, auto' PROVE TrackInv'
  <2>1. s = tracker /\ TrackInv /\ tracker' = tracker /\ tracker \notin {None, Torn}
    BY <1>1, <1>9, NothingAssumption
  <2>2. Whole(s) /\ Whole(tracker)'
    BY <2>1, WholeStays DEF TrackInv
  <2>3. Done' = s /\ Tracked' = s
    BY <1>1, <2>1 DEF Done, Tracked
  <2>4. pos' = data[s] /\ pos' % BatchesPerEpoch = s % BatchesPerEpoch
    BY <2>2, NothingAssumption DEF Whole
  <2>5. OneHistory'
    BY <2>2, <2>3, <2>4 DEF OneHistory, Whole
  <2>6. SaveFreq > 0 => Done' - Tracked' \in 0..(Done' % SaveFreq)
    BY <1>1, <2>3, ConstantTypes, Division
  <2> QED
    BY <1>1, <1>7, <2>1, <2>2, <2>5, <2>6 DEF TrackInv, Apart, Running, Saving, Driver
<1> QED
  BY <1>4, <1>5, <1>6, <1>8, <1>9

LEMMA LoadKeeps == ASSUME IInv, LoadCheckpoint PROVE IInv'
<1>1. pc = "load"
  BY DEF LoadCheckpoint
<1>2. tracker \in folder \cup {None, Torn} /\ folder \subseteq Nat
  BY StepTypes DEF IInv, TypeInv, Steps
<1>3. KeepsTwo /\ auto => mode = "auto" \/ (mode = "disable" /\ tracker = None)
  BY <1>1 DEF IInv, TrackInv
<1>4. CASE mode = "disable" /\ Scratch
  BY <1>1, <1>3, <1>4, ScratchKeeps
<1>5. CASE Raise
  BY <1>1, <1>5, RaiseKeeps
<1>6. CASE tracker # Torn /\ LatestStep = None /\ Scratch
  <2>1. tracker = None
    BY <1>2, <1>6, NothingAssumption DEF LatestStep
  <2> QED
    BY <1>1, <1>6, <2>1, ScratchKeeps
<1>7. CASE LatestStep # None /\ Resume(LatestStep)
  <2>1. LatestStep = tracker /\ tracker \in folder
    BY <1>7 DEF LatestStep
  <2> QED
    BY <1>1, <1>7, <2>1, ResumeKeeps
<1>8. CASE mode = "resume_path" /\ tracker # Torn /\ \E s \in folder : Resume(s)
  <2>1. PICK s \in folder : Resume(s)
    BY <1>8
  <2>2. ~(KeepsTwo /\ auto)
    BY <1>3, <1>8
  <2> QED
    BY <1>1, <2>1, <2>2, ResumeKeeps
<1> QED
  BY <1>4, <1>5, <1>6, <1>7, <1>8 DEF LoadCheckpoint, LoadFails
-----------------------------------------------------------------------------
(***************************************************************************)
(* Training.                                                               *)
(***************************************************************************)

LEMMA UpdatedIsModel ==
    ASSUME TypeInv
    PROVE  Updated \in [Role -> [Worker -> [File -> History]]]
<1>1. run \in Nat
  BY ConstantTypes DEF TypeInv
<1>2. \A role \in Role, w \in Worker, f \in File :
          Append(model[role][w][f], run) \in History
  BY <1>1 DEF TypeInv, History
<1> HIDE DEF History
<1> QED
  BY <1>2 DEF Updated

\* The batch that follows brings history and position on by one.
LEMMA TrainOneHistory ==
    ASSUME TypeInv, StepInv, OneHistory, pc = "train",
           pos' = pos + 1, model' = Updated, Done' = step
    PROVE  OneHistory'
<1>1. step \in Nat \ {0} /\ run \in Nat /\ pos \in Nat /\ Done = step - 1 /\ Done \in Nat
  BY StepTypes, ConstantTypes DEF TypeInv, Done, Running
<1>2. PICK h \in {model["actor"][w][1] : w \in Worker} :
          Len(h) = Done /\ model = [role \in Role |-> All(h)]
  BY DEF OneHistory
<1>3. h \in Seq(Nat)
  BY <1>2, ConstantTypes DEF TypeInv, File, History
<1>4. Len(Append(h, run)) = Done'
  BY <1>1, <1>2, <1>3
<1>5. Updated = [role \in Role |-> All(Append(h, run))]
  BY <1>2 DEF Updated, All
<1>6. \A w \in Worker : model'["actor"][w][1] = Append(h, run)
  BY <1>5, ConstantTypes DEF All, File
<1>7. Append(h, run) \in {model'["actor"][w][1] : w \in Worker}
  BY <1>6, ConstantTypes
<1>8. pos' % BatchesPerEpoch = Done' % BatchesPerEpoch
  <2>1. pos % BatchesPerEpoch = Done % BatchesPerEpoch /\ Done' = Done + 1
    BY <1>1 DEF OneHistory
  <2>2. /\ pos % BatchesPerEpoch = BatchesPerEpoch - 1 => (pos + 1) % BatchesPerEpoch = 0
        /\ pos % BatchesPerEpoch # BatchesPerEpoch - 1 =>
              (pos + 1) % BatchesPerEpoch = (pos % BatchesPerEpoch) + 1
    BY <1>1, ConstantTypes, NextRemainder
  <2>3. /\ Done % BatchesPerEpoch = BatchesPerEpoch - 1 => (Done + 1) % BatchesPerEpoch = 0
        /\ Done % BatchesPerEpoch # BatchesPerEpoch - 1 =>
              (Done + 1) % BatchesPerEpoch = (Done % BatchesPerEpoch) + 1
    BY <1>1, ConstantTypes, NextRemainder
  <2> QED
    BY <2>1, <2>2, <2>3
<1> QED
  BY <1>4, <1>5, <1>7, <1>8 DEF OneHistory

\* A step that is not saved is in the middle of a period.
LEMMA UnsavedIsNearTracked ==
    ASSUME TypeInv, StepInv, pc = "train", SaveFreq > 0,
           Done - Tracked \in 0..(Done % SaveFreq), step % SaveFreq # 0,
           tracker \in Nat \cup {None}
    PROVE  step - Tracked \in 0..(step % SaveFreq)
<1>1. Done \in Nat /\ step = Done + 1 /\ SaveFreq \in Nat \ {0}
  BY StepTypes, ConstantTypes DEF Done, Running
<1>2. step % SaveFreq = (Done % SaveFreq) + 1 /\ Done % SaveFreq \in Nat
  <2>1. /\ Done % SaveFreq = SaveFreq - 1 => (Done + 1) % SaveFreq = 0
        /\ Done % SaveFreq # SaveFreq - 1 => (Done + 1) % SaveFreq = (Done % SaveFreq) + 1
    BY <1>1, NextRemainder
  <2>2. Done % SaveFreq \in 0..SaveFreq - 1
    BY <1>1, Division
  <2> QED
    BY <1>1, <2>1, <2>2
<1>3. Tracked \in Nat
  BY DEF Tracked
<1> HIDE DEF Tracked, Done
<1> QED
  BY <1>1, <1>2, <1>3

LEMMA TrainKeeps == ASSUME IInv, Train PROVE IInv'
<1> USE DEF disk
<1> DEFINE Due == \E esi \in Expiring : SaveDue(esi)
<1>1. pc = "train" /\ TypeInv /\ StepInv /\ KeptInv /\ SaveInv
  BY DEF IInv, Train
<1>2. step \in Nat \ {0} /\ step <= LastStep /\ step \in Steps /\ LastStep \in Nat
      /\ TotalSteps \in Nat /\ TotalSteps <= LastStep
  BY <1>1, StepTypes, ConstantTypes DEF Running, StepInv, TypeInv, LastStep
<1>3. /\ pos' = pos + 1 /\ model' = Updated
      /\ UNCHANGED <<epoch, at, kept, run, mode, auto, disk>>
      /\ \/ pc' = "rotate" /\ saving' = 1 /\ step' = step
         \/ /\ ~(SaveFreq > 0 /\ (IsLast \/ step % SaveFreq = 0))
            /\ NextStep /\ saving' = saving
  BY DEF Train, SaveDue
<1>4. CASE pc' = "rotate" /\ saving' = 1 /\ step' = step
  <2>1. TypeInv'
    BY <1>1, <1>3, <1>4, UpdatedIsModel, ConstantTypes DEF TypeInv, LastStep, Train, Running, Saving
  <2>2. StepInv'
    BY <1>1, <1>2, <1>3, <1>4 DEF StepInv, LastStep, TypeInv, Running, Saving, Driver
  <2>3. SaveInv'
    BY <1>4, ConstantTypes DEF SaveInv, Driver
  <2>4. KeptInv'
    <3>1. \A role \in Role : \A i \in 1..Len(kept[role]) :
              kept[role][i] < step /\ kept[role][i] <= step
      BY <1>1, <1>2 DEF KeptInv, TypeInv
    <3>2. \A k \in 1..Len(Roles) : Roles[k] \in Role
      BY ConstantTypes
    <3> QED
      BY <1>1, <1>3, <1>4, <3>1, <3>2 DEF KeptInv, Running, Saving, Driver
  <2>5. ASSUME KeepsTwo, auto' PROVE TrackInv'
    <3>1. TrackInv /\ OneHistory
      BY <1>1, <1>3, <2>5 DEF IInv, TrackInv, Apart
    <3>2. Done' = step
      BY <1>4 DEF Done
    <3>3. OneHistory'
      BY <1>1, <1>3, <3>1, <3>2, TrainOneHistory
    <3>4. tracker \notin {None, Torn} => Whole(tracker)'
      BY <1>3, <3>1, WholeStays DEF TrackInv
    <3> QED
      BY <1>1, <1>3, <1>4, <3>1, <3>3, <3>4 DEF TrackInv, Apart, Running, Saving, Driver
  <2> QED
    BY <2>1, <2>2, <2>3, <2>4, <2>5 DEF IInv
<1>5. CASE /\ ~(SaveFreq > 0 /\ (IsLast \/ step % SaveFreq = 0))
           /\ NextStep /\ saving' = saving
  <2>1. /\ pc' = "done" \/ (pc' = "train" /\ step < TotalSteps)
        /\ step' = step + 1
    BY <1>2, <1>5 DEF NextStep, IsLast
  <2>2. TypeInv'
    <3>1. model' \in [Role -> [Worker -> [File -> History]]]
      BY <1>1, <1>3, UpdatedIsModel
    <3>2. pos' \in 0..BatchesPerEpoch
      BY <1>1, ConstantTypes DEF TypeInv, Train
    <3>3. step' \in Nat
      BY <1>2, <2>1
    <3> QED
      BY <1>1, <1>3, <1>5, <2>1, <3>1, <3>2, <3>3 DEF TypeInv, LastStep, Running
  <2>3. StepInv'
    BY <1>1, <1>2, <1>3, <2>1 DEF StepInv, LastStep, Running, Saving, Driver
  <2>4. SaveInv'
    BY <2>1 DEF SaveInv, Driver
  <2>5. KeptInv'
    <3>1. \A role \in Role : \A i \in 1..Len(kept[role]) :
              kept[role][i] < step' /\ kept[role][i] <= step'
      BY <1>1, <1>2, <2>1 DEF KeptInv, TypeInv
    <3> QED
      BY <1>1, <1>3, <2>1, <3>1 DEF KeptInv, Running, Saving, Driver
  <2>6. ASSUME KeepsTwo, auto' PROVE TrackInv'
    <3>1. TrackInv /\ OneHistory
      BY <1>1, <1>3, <2>6 DEF IInv, TrackInv, Apart
    <3>2. Done' = step
      BY <1>2, <2>1 DEF Done
    <3>3. OneHistory'
      BY <1>1, <1>3, <3>1, <3>2, TrainOneHistory
    <3>4. tracker \notin {None, Torn} => Whole(tracker)'
      BY <1>3, <3>1, WholeStays DEF TrackInv
    <3>5. tracker \in folder \cup {None, Torn} /\ tracker # Torn /\ folder \subseteq Nat
      BY <1>1, <3>1, StepTypes DEF TrackInv, TypeInv, Apart, Steps
    <3>6. SaveFreq > 0 => Done' - Tracked' \in 0..(Done' % SaveFreq)
      <4>1. Tracked' = Tracked
        BY <1>3 DEF Tracked
      <4> HIDE DEF Tracked
      <4>2. SUFFICES ASSUME SaveFreq > 0 PROVE step - Tracked \in 0..(step % SaveFreq)
        BY <3>2, <4>1
      <4>3. step % SaveFreq # 0
        BY <1>5, <4>2
      <4>4. Done - Tracked \in 0..(Done % SaveFreq)
        BY <1>1, <3>1, <4>2 DEF TrackInv
      <4>5. tracker \in Nat \cup {None}
        BY <3>5
      <4> QED
        BY <1>1, <4>2, <4>3, <4>4, <4>5, UnsavedIsNearTracked
    <3>7. tracker' = tracker /\ kept' = kept
      BY <1>3
    <3>8. tracker \notin {None, Torn} => tracker < step'
      <4>1. tracker \notin {None, Torn} => tracker < step /\ tracker \in Nat
        BY <1>1, <3>1, <3>5 DEF TrackInv, Running
      <4> QED
        BY <1>2, <2>1, <4>1
    <3>9. \A role \in Role : \A i \in 1..Len(kept[role]) :
              tracker \notin {None, Torn} /\ kept[role][i] <= tracker
      BY <1>1, <1>2, <3>1 DEF TrackInv, KeptInv, TypeInv, Running
    <3> QED
      BY <2>1, <3>3, <3>4, <3>5, <3>6, <3>7, <3>8, <3>9 DEF TrackInv, Apart, Running, Saving, Driver
  <2> QED
    BY <2>2, <2>3, <2>4, <2>5, <2>6 DEF IInv
<1> QED
  BY <1>3, <1>4, <1>5

LEMMA EndOfEpochKeeps == ASSUME IInv, EndOfEpoch PROVE IInv'
<1> USE DEF disk
<1>1. /\ pc = "train" /\ pos = BatchesPerEpoch /\ pos' = 0
      /\ pc' \in {"train", "done"}
      /\ UNCHANGED <<step, model, saving, at, kept, run, mode, auto, disk>>
      /\ TypeInv /\ StepInv /\ KeptInv
  BY DEF IInv, EndOfEpoch
<1>2. TypeInv' /\ StepInv' /\ SaveInv' /\ KeptInv'
  BY <1>1, ConstantTypes
     DEF TypeInv, StepInv, SaveInv, KeptInv, LastStep, Running, Saving, Driver
<1>3. ASSUME KeepsTwo, auto' PROVE TrackInv'
  <2>1. TrackInv /\ OneHistory
    BY <1>1, <1>3 DEF IInv, TrackInv, Apart
  <2>2. Done' = Done /\ Tracked' = Tracked
    BY <1>1 DEF Done, Tracked
  <2>3. OneHistory'
    BY <1>1, <2>1, <2>2, ConstantTypes, WholePeriod DEF OneHistory
  <2>4. tracker \notin {None, Torn} => Whole(tracker)'
    BY <1>1, <2>1, WholeStays DEF TrackInv
  <2> QED
    BY <1>1, <2>1, <2>2, <2>3, <2>4 DEF TrackInv, Apart, Running, Saving, Driver
<1> QED
  BY <1>2, <1>3 DEF IInv

-----------------------------------------------------------------------------
(***************************************************************************)
(* Saving.                                                                 *)
(***************************************************************************)

LEMMA NowIsRole ==
    ASSUME TypeInv
    PROVE  Now \in Role /\ saving \in 1..Len(Roles) /\ kept[Now] \in Seq(Nat)
  BY ConstantTypes DEF TypeInv, Now

LEMMA SomeAreRemoved ==
    ASSUME TypeInv
    PROVE  /\ Excess(Now) \in 0..Len(kept[Now]) /\ Len(kept[Now]) \in Nat
           /\ KeepsTwo /\ Excess(Now) # 0 => Excess(Now) < Len(kept[Now])
<1>1. Now \in Role /\ Len(kept[Now]) \in Nat
  BY NowIsRole
<1>2. MaxKeep[Now] \in (Nat \ {0}) \cup {NoLimit} /\ (KeepsTwo => MaxKeep[Now] # 1)
  BY <1>1, KeepAssumption DEF KeepsTwo
<1> QED
  BY <1>1, <1>2 DEF Excess

\* What is removed is older than the step, and than what the tracker names.
LEMMA TrackedIsNotRemoved ==
    ASSUME IInv, pc = "rotate", NEW i \in 1..Excess(Now)
    PROVE  /\ kept[Now][i] # step
           /\ auto /\ KeepsTwo /\ tracker \notin {None, Torn} => kept[Now][i] # tracker
<1> DEFINE q == kept[Now]
           n == Len(kept[Now])
<1>1. /\ q \in Seq(Nat) /\ n \in Nat /\ i \in 1..n
      /\ KeepsTwo => i < n
      /\ step \in Nat /\ saving \in saving..Len(Roles) /\ Now \in Role
      /\ folder \subseteq Nat
  <2>1. q \in Seq(Nat) /\ n \in Nat /\ Now \in Role /\ saving \in saving..Len(Roles)
    BY NowIsRole, ConstantTypes DEF IInv
  <2>2. i \in 1..n /\ (KeepsTwo => i < n)
    BY <2>1, SomeAreRemoved DEF IInv
  <2>3. step \in Nat /\ folder \subseteq Nat
    BY StepTypes DEF IInv, TypeInv, Steps
  <2> QED
    BY <2>1, <2>2, <2>3
<1>2. \A j \in 1..n : q[j] < step /\ q[j] \in Nat
  BY <1>1 DEF IInv, KeptInv, Now
<1>3. ASSUME auto, KeepsTwo, tracker \notin {None, Torn} PROVE q[i] # tracker
  <2>1. n \in 1..n /\ i < n
    BY <1>1, <1>3
  <2>2. q[i] < q[n] /\ q[n] \in Nat /\ q[i] \in Nat
    BY <1>1, <1>2, <2>1 DEF IInv, KeptInv
  <2>3. q[n] = step \/ q[n] <= tracker
    BY <1>1, <1>3, <2>1 DEF IInv, TrackInv, Running, Saving
  <2>4. tracker \in Nat
    BY <1>1, <1>3 DEF IInv, TypeInv
  <2>5. q[n] < step /\ step \in Nat
    BY <1>1, <1>2, <2>1
  <2> HIDE DEF q, n
  <2> QED
    BY <2>2, <2>3, <2>4, <2>5
<1> QED
  BY <1>1, <1>2, <1>3

\* Removing old checkpoints leaves the one the tracker names, and the step's own.
LEMMA RotateSparesTracked ==
    ASSUME IInv, Rotate
    PROVE  /\ step \in Steps => file'[step] = file[step]
           /\ auto /\ KeepsTwo /\ tracker \notin {None, Torn} => file'[tracker] = file[tracker]
<1> DEFINE gone == {kept[Now][i] : i \in 1..Excess(Now)}
<1>1. step \notin gone /\ (auto /\ KeepsTwo /\ tracker \notin {None, Torn} => tracker \notin gone)
  BY TrackedIsNotRemoved DEF Rotate
<1>2. \A s \in Steps : s \notin gone => file'[s] = file[s]
  BY DEF Rotate
<1>3. tracker \notin {None, Torn} => tracker \in Steps
  BY StepTypes DEF IInv, TypeInv
<1> QED
  BY <1>1, <1>2, <1>3

LEMMA RotateKeeps == ASSUME IInv, Rotate PROVE IInv'
<1> DEFINE gone == {kept[Now][i] : i \in 1..Excess(Now)}
           n == Excess(Now)
           q == kept[Now]
<1>1. /\ pc = "rotate" /\ pc' = "write" /\ TypeInv /\ StepInv /\ SaveInv /\ KeptInv
      /\ file' = [s \in Steps |->
                    IF s \in gone THEN [file[s] EXCEPT ![Now] = All(None)] ELSE file[s]]
      /\ kept' = [kept EXCEPT ![Now] = SubSeq(@, n + 1, Len(@))]
      /\ folder' = folder \cup {step} /\ at' = [w \in Worker |-> 0]
      /\ UNCHANGED <<step, epoch, pos, model, saving, run, mode, auto, data, tracker>>
  BY DEF IInv, Rotate
<1>2. /\ Now \in Role /\ q \in Seq(Nat) /\ n \in 0..Len(q) /\ Len(q) \in Nat
      /\ step \in 1..LastStep /\ step \in Steps /\ step \in Nat /\ LastStep \in Nat
      /\ folder \subseteq Steps
  BY <1>1, NowIsRole, SomeAreRemoved, StepTypes DEF StepInv, Running, Saving
<1>3. /\ file'[step] = file[step]
      /\ auto /\ KeepsTwo /\ tracker \notin {None, Torn} => file'[tracker] = file[tracker]
  BY <1>2, RotateSparesTracked
<1>5. /\ kept' \in [Role -> Seq(Nat)]
      /\ \A role \in Role : role # Now => kept'[role] = kept[role]
      /\ Len(kept'[Now]) = Len(q) - n
      /\ \A i \in 1..Len(kept'[Now]) : kept'[Now][i] = q[n + i] /\ n + i \in 1..Len(q)
  <2>1. kept'[Now] = SubSeq(q, n + 1, Len(q))
    BY <1>1, <1>2 DEF TypeInv
  <2>2. /\ kept'[Now] \in Seq(Nat) /\ Len(kept'[Now]) = Len(q) - n
        /\ \A i \in 1..Len(q) - n : kept'[Now][i] = q[n + i]
    BY <1>2, <2>1, Rest
  <2>3. \A role \in Role : role # Now => kept'[role] = kept[role]
    BY <1>1 DEF TypeInv
  <2>4. kept' \in [Role -> Seq(Nat)]
    BY <1>1, <1>2, <2>1, <2>2 DEF TypeInv
  <2> HIDE DEF n, q
  <2>5. \A i \in 1..Len(q) - n : n + i \in 1..Len(q)
    BY <1>2
  <2>6. \A i \in 1..Len(kept'[Now]) : kept'[Now][i] = q[n + i] /\ n + i \in 1..Len(q)
    BY <2>2, <2>5
  <2> QED
    BY <2>2, <2>3, <2>4, <2>6
<1>6. file' \in [Steps -> [Role -> [Worker -> [File -> Content]]]]
  <2>1. All(None) \in [Worker -> [File -> Content]]
    BY DEF All, Content
  <2>2. \A s \in Steps : [file[s] EXCEPT ![Now] = All(None)] \in [Role -> [Worker -> [File -> Content]]]
    BY <1>1, <2>1 DEF TypeInv
  <2> QED
    BY <1>1, <2>2 DEF TypeInv
<1> HIDE DEF gone, n, q
<1>7. TypeInv'
  <2>1. at' \in [Worker -> 0..2 * NFiles]
    BY <1>1, ConstantTypes
  <2> QED
    BY <1>1, <1>2, <1>5, <1>6, <2>1 DEF TypeInv, LastStep, Running, Saving
<1>8. StepInv'
  BY <1>1, <1>2 DEF StepInv, LastStep, Running, Saving, Driver
<1>9. SaveInv'
  <2>1. \A f \in File : ~(2 * f <= 0)
    BY ConstantTypes DEF File
  <2> QED
    BY <1>1, <1>2, <1>3, <2>1 DEF SaveInv, Driver, Now
\* What is kept now was kept before.
<1>10. ASSUME NEW role \in Role, NEW i \in 1..Len(kept'[role])
       PROVE  \E j \in 1..Len(kept[role]) : kept'[role][i] = kept[role][j]
  BY <1>5 DEF q
<1>11. KeptInv'
  <2>1. ASSUME NEW role \in Role, NEW i \in 1..Len(kept'[role]),
               NEW j \in 1..Len(kept'[role]), i < j
        PROVE  kept'[role][i] < kept'[role][j]
    <3>1. CASE role # Now
      BY <1>1, <1>5, <2>1, <3>1 DEF KeptInv
    <3>2. CASE role = Now
      <4>1. n + i \in 1..Len(q) /\ n + j \in 1..Len(q)
        BY <1>5, <3>2
      <4>2. i \in Nat /\ j \in Nat /\ n \in Nat
        BY <1>2, <1>5, <3>2
      <4>3. n + i < n + j
        BY <2>1, <4>2
      <4> QED
        BY <1>1, <1>2, <1>5, <3>2, <4>1, <4>3 DEF KeptInv, q
    <3> QED
      BY <3>1, <3>2
  <2>2. ASSUME NEW role \in Role, NEW i \in 1..Len(kept'[role])
        PROVE  kept'[role][i] <= step
    <3>1. PICK j \in 1..Len(kept[role]) : kept'[role][i] = kept[role][j]
      BY <1>10
    <3>2. kept[role][j] <= step
      BY <1>1 DEF KeptInv, Running, Saving
    <3> QED
      BY <3>1, <3>2
  <2>3. \A k \in saving..Len(Roles) : \A i \in 1..Len(kept'[Roles[k]]) : kept'[Roles[k]][i] < step
    <3>1. SUFFICES ASSUME NEW k \in saving..Len(Roles), NEW i \in 1..Len(kept'[Roles[k]])
                   PROVE  kept'[Roles[k]][i] < step
      OBVIOUS
    <3>2. Roles[k] \in Role
      BY <1>1, ConstantTypes DEF TypeInv
    <3>3. PICK j \in 1..Len(kept[Roles[k]]) : kept'[Roles[k]][i] = kept[Roles[k]][j]
      BY <1>10, <3>2
    <3> QED
      BY <1>1, <3>3 DEF KeptInv
  <2>4. pc' = "write" /\ step' = step /\ saving' = saving
    BY <1>1
  <2>5. \A role \in Role : \A i, j \in 1..Len(kept'[role]) :
            i < j => kept'[role][i] < kept'[role][j]
    BY <2>1
  <2> QED
    BY <2>2, <2>3, <2>4, <2>5 DEF KeptInv
<1>12. ASSUME KeepsTwo, auto' PROVE TrackInv'
  <2>1. TrackInv /\ auto
    BY <1>1, <1>12 DEF IInv
  <2>2. OneHistory'
    BY <1>1, <2>1 DEF TrackInv, OneHistory, Done, Apart
  <2>3. tracker \notin {None, Torn} => Whole(tracker)'
    <3>1. SUFFICES ASSUME tracker \notin {None, Torn} PROVE Whole(tracker)'
      OBVIOUS
    <3>2. file'[tracker] = file[tracker] /\ data'[tracker] = data[tracker]
      BY <1>1, <1>3, <1>12, <2>1, <3>1
    <3> QED
      BY <1>1, <2>1, <3>1, <3>2, WholeStays DEF TrackInv
  <2>4. ASSUME NEW role \in Role, NEW i \in 1..Len(kept'[role])
        PROVE  \/ kept'[role][i] = step
               \/ tracker \notin {None, Torn} /\ kept'[role][i] <= tracker
    <3>1. PICK j \in 1..Len(kept[role]) : kept'[role][i] = kept[role][j]
      BY <1>10
    <3>2. \/ kept[role][j] = step
          \/ tracker \notin {None, Torn} /\ kept[role][j] <= tracker
      BY <1>1, <2>1 DEF TrackInv, Running, Saving
    <3> QED
      BY <3>1, <3>2
  <2> QED
    BY <1>1, <2>1, <2>2, <2>3, <2>4 DEF TrackInv, Apart, Running, Saving, Driver
<1> QED
  BY <1>7, <1>8, <1>9, <1>11, <1>12 DEF IInv

\* The files of a worker are written one after the other.
LEMMA Halves ==
    ASSUME NEW a \in Nat, NEW g \in Nat
    PROVE  /\ a \div 2 \in Nat /\ a % 2 \in {0, 1} /\ a = 2 * (a \div 2) + (a % 2)
           /\ g # a \div 2 + 1 /\ 2 * g <= a + 1 => 2 * g <= a
           /\ 2 * (a \div 2 + 1) <= a + 1 => a % 2 = 1
           /\ \A n \in Nat : a < 2 * n => a \div 2 + 1 \in 1..n
<1> DEFINE h == a \div 2
           r == a % 2
<1>1. h \in Nat /\ r \in {0, 1} /\ a = 2 * h + r
  OBVIOUS
<1> HIDE DEF h, r
<1>2. g # h + 1 /\ 2 * g <= a + 1 => 2 * g <= a
  BY <1>1
<1>3. 2 * (h + 1) <= a + 1 => r = 1
  BY <1>1
<1>4. \A n \in Nat : a < 2 * n => h + 1 \in 1..n
  BY <1>1
<1> QED
  BY <1>1, <1>2, <1>3, <1>4 DEF h, r

\* The tracker names an earlier step than the one that is being written.
LEMMA WriteFileSparesTracked ==
    ASSUME IInv, NEW w \in Worker, WriteFile(w), KeepsTwo, auto, tracker \notin {None, Torn}
    PROVE  file'[tracker] = file[tracker]
<1>1. tracker \in Steps /\ tracker < step /\ step \in Steps
  BY StepTypes DEF IInv, TypeInv, TrackInv, WriteFile, Running, Saving
<1>2. tracker # step
  BY <1>1, StepTypes DEF IInv, TypeInv, Steps
<1>3. \A s \in Steps : s # step => file'[s] = file[s]
  BY DEF IInv, TypeInv, WriteFile
<1> QED
  BY <1>1, <1>2, <1>3

LEMMA WriteFileKeeps == ASSUME IInv, NEW w \in Worker, WriteFile(w) PROVE IInv'
<1> DEFINE f == at[w] \div 2 + 1
           x == IF at[w] % 2 = 0 THEN Torn ELSE model[Now][w][f]
<1>1. /\ pc = "write" /\ pc' = "write" /\ TypeInv /\ StepInv /\ SaveInv /\ KeptInv
      /\ at[w] < 2 * NFiles /\ at' = [at EXCEPT ![w] = @ + 1]
      /\ file' = [file EXCEPT ![step][Now][w][f] = x]
      /\ UNCHANGED <<pc, step, epoch, pos, model, saving, kept, run, mode, auto,
                     folder, data, tracker>>
  BY DEF IInv, WriteFile
<1>2. /\ Now \in Role /\ step \in Steps /\ step \in Nat /\ folder \subseteq Steps
      /\ saving \in 1..Len(Roles) /\ NFiles \in Nat
  BY <1>1, NowIsRole, StepTypes, ConstantTypes DEF StepInv, Running, Saving
<1>3. /\ at[w] \in Nat /\ f \in File /\ f \in Nat /\ at \in [Worker -> 0..2 * NFiles]
      /\ at' \in [Worker -> 0..2 * NFiles]
  <2>1. at \in [Worker -> 0..2 * NFiles] /\ at[w] \in Nat
    BY <1>1, <1>2 DEF TypeInv
  <2>2. \A n \in Nat : at[w] < 2 * n => at[w] \div 2 + 1 \in 1..n
    BY <2>1, Halves
  <2>3. f \in 1..NFiles
    BY <1>1, <1>2, <2>2
  <2> QED
    BY <1>1, <1>2, <2>1, <2>3 DEF File
<1>4. x \in Content
  BY <1>1, <1>2, <1>3 DEF TypeInv, Content
<1> HIDE DEF f, x
<1>5. file' \in [Steps -> [Role -> [Worker -> [File -> Content]]]]
  BY <1>1, <1>2, <1>3, <1>4 DEF TypeInv
<1>7. \A role \in Role : role # Now => file'[step][role] = file[step][role]
  BY <1>1, <1>2 DEF TypeInv
<1>8. /\ file'[step][Now][w][f] = x
      /\ \A v \in Worker, g \in File : v # w \/ g # f => file'[step][Now][v][g] = file[step][Now][v][g]
  BY <1>1, <1>2, <1>3 DEF TypeInv
<1>9. TypeInv'
  BY <1>1, <1>3, <1>5 DEF TypeInv, LastStep
<1>10. StepInv'
  BY <1>1 DEF StepInv, LastStep, Running, Saving, Driver
<1>11. SaveInv'
  <2>1. \A i \in 1..Len(Roles) : i < saving => file'[step][Roles[i]] = model[Roles[i]]
    <3>1. \A i \in 1..Len(Roles) : i < saving => Roles[i] # Now /\ Roles[i] \in Role
      BY <1>2, ConstantTypes DEF Now
    <3> QED
      BY <1>1, <1>7, <3>1 DEF SaveInv
  <2>2. ASSUME NEW v \in Worker, NEW g \in File, 2 * g <= at'[v]
        PROVE  file'[step][Now][v][g] = model[Now][v][g]
    <3>1. CASE v # w
      <4>1. at'[v] = at[v]
        BY <1>1, <1>3, <3>1
      <4> QED
        BY <1>1, <1>8, <2>2, <3>1, <4>1 DEF SaveInv
    <3>2. CASE v = w
      <4>1. 2 * g <= at[w] + 1 /\ g \in Nat
        BY <1>1, <1>2, <1>3, <2>2, <3>2 DEF File
      <4>2. CASE g # f
        <5>1. 2 * g <= at[w]
          BY <1>3, <4>1, <4>2, Halves DEF f
        <5> QED
          BY <1>1, <1>8, <3>2, <4>2, <5>1 DEF SaveInv
      <4>3. CASE g = f
        <5>1. at[w] % 2 = 1
          BY <1>3, <4>1, <4>3, Halves DEF f
        <5>2. x = model[Now][w][f]
          BY <5>1 DEF x
        <5> QED
          BY <1>8, <3>2, <4>3, <5>2
      <4> QED
        BY <4>2, <4>3
    <3> QED
      BY <3>1, <3>2
  <2>3. pc' = "write" /\ step' = step /\ saving' = saving /\ model' = model /\ Now' = Now
    BY <1>1 DEF Now
  <2> QED
    BY <2>1, <2>2, <2>3 DEF SaveInv, Driver
<1>12. KeptInv'
  BY <1>1 DEF KeptInv, Running, Saving, Driver
<1>13. ASSUME KeepsTwo, auto' PROVE TrackInv'
  <2>1. TrackInv /\ auto
    BY <1>1, <1>13 DEF IInv
  <2>2. OneHistory'
    BY <1>1, <2>1 DEF TrackInv, OneHistory, Done, Apart
  <2>3. tracker \notin {None, Torn} => Whole(tracker)'
    <3>1. SUFFICES ASSUME tracker \notin {None, Torn} PROVE Whole(tracker)'
      OBVIOUS
    <3>2. file'[tracker] = file[tracker] /\ data'[tracker] = data[tracker]
      BY <1>1, <1>13, <2>1, <3>1, WriteFileSparesTracked
    <3> QED
      BY <1>1, <2>1, <3>1, <3>2, WholeStays DEF TrackInv
  <2> QED
    BY <1>1, <2>1, <2>2, <2>3 DEF TrackInv, Apart, Running, Saving, Driver
<1> QED
  BY <1>9, <1>10, <1>11, <1>12, <1>13 DEF IInv

\* Files of the same type with the same contents are the same.
LEMMA SameFiles ==
    ASSUME NEW S, NEW p \in [Worker -> [File -> S]], NEW q \in [Worker -> [File -> S]],
           \A w \in Worker, f \in File : p[w][f] = q[w][f]
    PROVE  p = q
<1>1. \A w \in Worker : p[w] = q[w]
  OBVIOUS
<1> QED
  BY <1>1

LEMMA RoleSavedKeeps == ASSUME IInv, RoleSaved PROVE IInv'
<1> USE DEF disk
<1>1. /\ pc = "write" /\ TypeInv /\ StepInv /\ SaveInv /\ KeptInv
      /\ \A w \in Worker : at[w] = 2 * NFiles
      /\ kept' = [kept EXCEPT ![Now] = Append(@, step)]
      /\ \/ saving < Len(Roles) /\ saving' = saving + 1 /\ pc' = "rotate"
         \/ saving = Len(Roles) /\ saving' = saving /\ pc' = "data"
      /\ UNCHANGED <<step, epoch, pos, model, at, run, mode, auto, disk>>
  BY DEF IInv, RoleSaved
<1>2. /\ Now \in Role /\ saving \in 1..Len(Roles) /\ kept[Now] \in Seq(Nat)
      /\ step \in Steps /\ step \in Nat /\ Len(Roles) \in {1, 2}
  BY <1>1, NowIsRole, StepTypes, ConstantTypes DEF Running, Saving
<1>3. file[step][Now] = model[Now]
  <2>1. \A f \in File : 2 * f <= 2 * NFiles
    BY ConstantTypes DEF File
  <2>2. \A w \in Worker, f \in File : file[step][Now][w][f] = model[Now][w][f]
    BY <1>1, <2>1 DEF SaveInv
  <2>3. file[step][Now] \in [Worker -> [File -> Content]]
    BY <1>1, <1>2 DEF TypeInv
  <2>4. model[Now] \in [Worker -> [File -> Content]]
    BY <1>1, <1>2 DEF TypeInv, Content
  <2> QED
    BY <2>2, <2>3, <2>4, SameFiles
<1>4. /\ kept' \in [Role -> Seq(Nat)]
      /\ \A role \in Role : role # Now => kept'[role] = kept[role]
      /\ Len(kept'[Now]) = Len(kept[Now]) + 1 /\ Len(kept[Now]) \in Nat
      /\ \A i \in 1..Len(kept[Now]) : kept'[Now][i] = kept[Now][i]
      /\ kept'[Now][Len(kept[Now]) + 1] = step
  <2>1. kept'[Now] = Append(kept[Now], step)
    BY <1>1, <1>2 DEF TypeInv
  <2>2. /\ kept'[Now] \in Seq(Nat)
        /\ Len(kept'[Now]) = Len(kept[Now]) + 1 /\ Len(kept[Now]) \in Nat
        /\ \A i \in 1..Len(kept[Now]) : kept'[Now][i] = kept[Now][i]
        /\ kept'[Now][Len(kept[Now]) + 1] = step
    BY <1>2, <2>1, AppendOne
  <2>3. kept' \in [Role -> Seq(Nat)] /\ \A role \in Role : role # Now => kept'[role] = kept[role]
    BY <1>1, <1>2, <2>1, <2>2 DEF TypeInv
  <2> QED
    BY <2>2, <2>3
<1>5. TypeInv'
  BY <1>1, <1>2, <1>4 DEF TypeInv, LastStep, Running, Saving, Driver
<1>6. StepInv'
  BY <1>1 DEF StepInv, LastStep, Running, Saving, Driver
<1>7. SaveInv'
  <2>1. \A i \in 1..Len(Roles) : i <= saving => file[step][Roles[i]] = model[Roles[i]]
    BY <1>1, <1>2, <1>3 DEF SaveInv, Now
  <2>2. CASE pc' = "rotate" /\ saving' = saving + 1
    BY <1>1, <1>2, <2>1, <2>2 DEF SaveInv, Driver
  <2>3. CASE pc' = "data" /\ saving = Len(Roles)
    <3>1. \A role \in Role : file[step][role] = model[role]
      BY <1>2, <2>1, <2>3, ConstantTypes
    <3>2. file[step] \in [Role -> [Worker -> [File -> Content]]]
      BY <1>1, <1>2 DEF TypeInv
    <3>3. file[step] = model
      BY <1>1, <3>1, <3>2 DEF TypeInv
    <3> QED
      BY <1>1, <2>3, <3>3 DEF SaveInv, Driver
  <2> QED
    BY <1>1, <2>2, <2>3
\* What is kept now was kept before, or is the step.
<1>8. ASSUME NEW role \in Role, NEW i \in 1..Len(kept'[role])
      PROVE  \/ i \in 1..Len(kept[role]) /\ kept'[role][i] = kept[role][i]
             \/ role = Now /\ i = Len(kept[Now]) + 1 /\ kept'[role][i] = step
  BY <1>4
<1>9. KeptInv'
  <2>1. \A i \in 1..Len(kept[Now]) : kept[Now][i] < step
    BY <1>1, <1>2 DEF KeptInv, Now
  <2>2. ASSUME NEW role \in Role, NEW i \in 1..Len(kept'[role]),
               NEW j \in 1..Len(kept'[role]), i < j
        PROVE  kept'[role][i] < kept'[role][j]
    <3>1. i \in 1..Len(kept[role]) /\ kept'[role][i] = kept[role][i]
      <4>1. CASE role = Now
        BY <1>4, <1>8, <2>2, <4>1
      <4>2. CASE role # Now
        BY <1>4, <1>8, <4>2
      <4> QED
        BY <4>1, <4>2
    <3> QED
      BY <1>1, <1>8, <2>1, <2>2, <3>1 DEF KeptInv
  <2>3. \A role \in Role : \A i \in 1..Len(kept'[role]) : kept'[role][i] <= step
    BY <1>1, <1>2, <1>8 DEF KeptInv, Running, Saving
  <2>4. ASSUME pc' = "rotate", NEW k \in saving'..Len(Roles), NEW i \in 1..Len(kept'[Roles[k]])
        PROVE  kept'[Roles[k]][i] < step
    <3>1. k \in saving..Len(Roles) /\ k # saving /\ k \in 1..Len(Roles)
      BY <1>1, <1>2, <2>4
    <3>2. Roles[k] # Now /\ Roles[k] \in Role
      BY <1>2, <3>1, ConstantTypes DEF Now
    <3> QED
      BY <1>1, <1>4, <2>4, <3>1, <3>2 DEF KeptInv
  <2>5. pc' \in {"rotate", "data"} /\ step' = step
    BY <1>1
  <2>6. \A role \in Role : \A i, j \in 1..Len(kept'[role]) :
            i < j => kept'[role][i] < kept'[role][j]
    BY <2>2
  <2> QED
    BY <2>3, <2>4, <2>5, <2>6 DEF KeptInv
<1>10. ASSUME KeepsTwo, auto' PROVE TrackInv'
  <2>1. TrackInv /\ auto
    BY <1>1, <1>10 DEF IInv
  <2>2. OneHistory'
    BY <1>1, <2>1 DEF TrackInv, OneHistory, Done, Apart
  <2>3. tracker \notin {None, Torn} => Whole(tracker)'
    BY <1>1, <2>1, WholeStays DEF TrackInv
  <2>4. \A role \in Role : \A i \in 1..Len(kept'[role]) :
            \/ kept'[role][i] = step
            \/ tracker \notin {None, Torn} /\ kept'[role][i] <= tracker
    BY <1>1, <1>8, <2>1 DEF TrackInv, Running, Saving
  <2> QED
    BY <1>1, <2>1, <2>2, <2>3, <2>4 DEF TrackInv, Apart, Running, Saving, Driver
<1> QED
  BY <1>5, <1>6, <1>7, <1>9, <1>10 DEF IInv

LEMMA OpenDataKeeps == ASSUME IInv, OpenData PROVE IInv'
<1> USE DEF disk, memory
<1>1. /\ pc = "data" /\ pc' = "dataopen" /\ TypeInv /\ StepInv /\ SaveInv /\ KeptInv
      /\ data' = [data EXCEPT ![step] = Torn]
      /\ UNCHANGED <<memory, run, mode, auto, folder, file, tracker>>
  BY DEF IInv, OpenData
<1>2. step \in Steps /\ step \in Nat /\ folder \subseteq Steps
  BY <1>1, StepTypes DEF Running, Saving, Driver
<1>3. TypeInv'
  BY <1>1, <1>2 DEF TypeInv, LastStep, Running, Saving, Driver
<1>4. StepInv' /\ SaveInv' /\ KeptInv'
  BY <1>1 DEF StepInv, SaveInv, KeptInv, LastStep, Running, Saving, Driver
<1>5. ASSUME KeepsTwo, auto' PROVE TrackInv'
  <2>1. TrackInv /\ auto
    BY <1>1, <1>5 DEF IInv
  <2>2. OneHistory'
    BY <1>1, <2>1 DEF TrackInv, OneHistory, Done, Apart
  <2>3. tracker \notin {None, Torn} => Whole(tracker)'
    <3>1. SUFFICES ASSUME tracker \notin {None, Torn} PROVE Whole(tracker)'
      OBVIOUS
    <3>2. tracker \in Steps /\ tracker < step
      BY <1>1, <1>2, <2>1, <3>1 DEF TypeInv, TrackInv, Running, Saving, Driver
    <3>3. data'[tracker] = data[tracker]
      BY <1>1, <1>2, <3>2 DEF TypeInv, Steps
    <3> QED
      BY <1>1, <2>1, <3>1, <3>3, WholeStays DEF TrackInv
  <2> QED
    BY <1>1, <2>1, <2>2, <2>3 DEF TrackInv, Apart, Running, Saving, Driver
<1> QED
  BY <1>3, <1>4, <1>5 DEF IInv

LEMMA WriteDataKeeps == ASSUME IInv, WriteData PROVE IInv'
<1> USE DEF disk, memory
<1>1. /\ pc = "dataopen" /\ pc' = "tracker" /\ TypeInv /\ StepInv /\ SaveInv /\ KeptInv
      /\ data' = [data EXCEPT ![step] = pos]
      /\ UNCHANGED <<memory, run, mode, auto, folder, file, tracker>>
  BY DEF IInv, WriteData
<1>2. /\ step \in Steps /\ step \in Nat /\ folder \subseteq Steps /\ pos \in Position
      /\ data'[step] = pos
  BY <1>1, StepTypes, ConstantTypes DEF StepInv, TypeInv, Position, Running, Saving, Driver
<1>3. TypeInv'
  BY <1>1, <1>2 DEF TypeInv, LastStep, Running, Saving, Driver
<1>4. StepInv' /\ SaveInv' /\ KeptInv'
  BY <1>1, <1>2 DEF StepInv, SaveInv, KeptInv, LastStep, Running, Saving, Driver
<1>5. ASSUME KeepsTwo, auto' PROVE TrackInv'
  <2>1. TrackInv /\ auto
    BY <1>1, <1>5 DEF IInv
  <2>2. OneHistory'
    BY <1>1, <2>1 DEF TrackInv, OneHistory, Done, Apart
  <2>3. tracker \notin {None, Torn} => Whole(tracker)'
    <3>1. SUFFICES ASSUME tracker \notin {None, Torn} PROVE Whole(tracker)'
      OBVIOUS
    <3>2. tracker \in Steps /\ tracker < step
      BY <1>1, <1>2, <2>1, <3>1 DEF TypeInv, TrackInv, Running, Saving, Driver
    <3>3. data'[tracker] = data[tracker]
      BY <1>1, <1>2, <3>2 DEF TypeInv, Steps
    <3> QED
      BY <1>1, <2>1, <3>1, <3>3, WholeStays DEF TrackInv
  <2> QED
    BY <1>1, <2>1, <2>2, <2>3 DEF TrackInv, Apart, Running, Saving, Driver
<1> QED
  BY <1>3, <1>4, <1>5 DEF IInv

LEMMA OpenTrackerKeeps == ASSUME IInv, OpenTracker PROVE IInv'
<1> USE DEF disk, memory
<1>1. /\ pc = "tracker" /\ pc' = "trackeropen" /\ TypeInv /\ StepInv /\ SaveInv /\ KeptInv
      /\ tracker' = Torn
      /\ UNCHANGED <<memory, run, mode, auto, folder, file, data>>
  BY DEF IInv, OpenTracker
<1>2. TypeInv' /\ StepInv' /\ SaveInv' /\ KeptInv'
  BY <1>1 DEF TypeInv, StepInv, SaveInv, KeptInv, LastStep, Running, Saving, Driver
<1>3. ASSUME KeepsTwo, auto' PROVE TrackInv'
  <2>1. OneHistory'
    BY <1>1, <1>3 DEF IInv, TrackInv, OneHistory, Done, Apart
  <2> QED
    BY <1>1, <2>1 DEF TrackInv, Apart, Running, Saving, Driver
<1> QED
  BY <1>2, <1>3 DEF IInv

LEMMA WriteTrackerKeeps == ASSUME IInv, WriteTracker PROVE IInv'
<1>1. /\ pc = "trackeropen" /\ TypeInv /\ StepInv /\ SaveInv /\ KeptInv
      /\ tracker' = step /\ NextStep
      /\ UNCHANGED <<epoch, pos, model, saving, at, kept, run, mode, auto,
                     folder, file, data>>
  BY DEF IInv, WriteTracker
<1>2. /\ step \in Nat \ {0} /\ step <= LastStep /\ step \in Steps /\ LastStep \in Nat
      /\ TotalSteps \in Nat /\ TotalSteps <= LastStep /\ step \in folder
  BY <1>1, StepTypes, ConstantTypes DEF Running, Saving, Driver, StepInv, TypeInv, LastStep
<1>3. /\ pc' = "done" \/ (pc' = "train" /\ step < TotalSteps)
      /\ step' = step + 1
  BY <1>1, <1>2 DEF NextStep, IsLast
<1>4. TypeInv'
  BY <1>1, <1>2, <1>3 DEF TypeInv, LastStep, Running
<1>5. StepInv'
  BY <1>1, <1>2, <1>3 DEF StepInv, LastStep, Running, Saving, Driver
<1>6. SaveInv'
  BY <1>3 DEF SaveInv, Driver
<1>7. \A role \in Role : \A i \in 1..Len(kept[role]) :
          kept[role][i] <= step /\ kept[role][i] < step'
  <2>1. \A role \in Role : \A i \in 1..Len(kept[role]) : kept[role][i] <= step /\ kept[role][i] \in Nat
    BY <1>1 DEF KeptInv, TypeInv, Running, Saving, Driver
  <2> QED
    BY <1>2, <1>3, <2>1
<1>8. KeptInv'
  <2>1. \A role \in Role : \A i \in 1..Len(kept[role]) : kept[role][i] <= step'
    BY <1>1, <1>2, <1>3, <1>7 DEF TypeInv
  <2> QED
    BY <1>1, <1>3, <1>7, <2>1 DEF KeptInv, Running, Saving, Driver
<1>9. ASSUME KeepsTwo, auto' PROVE TrackInv'
  <2>1. TrackInv /\ auto /\ OneHistory
    BY <1>1, <1>9 DEF IInv, TrackInv, Apart
  <2>2. Done = step /\ Done' = step
    BY <1>1, <1>2, <1>3 DEF Done
  <2>3. OneHistory'
    BY <1>1, <2>1, <2>2 DEF OneHistory
  <2>4. Whole(tracker)'
    <3>1. PICK h \in {model["actor"][w][1] : w \in Worker} :
              Len(h) = step /\ model = [role \in Role |-> All(h)]
      BY <2>1, <2>2 DEF OneHistory
    <3>2. h \in Seq(Nat)
      BY <1>1, <3>1, ConstantTypes DEF TypeInv, File, History
    <3>3. file[step] = model /\ data[step] = pos /\ pos \in 1..BatchesPerEpoch
      BY <1>1, ConstantTypes DEF SaveInv, StepInv, TypeInv, Saving, Driver
    <3>4. pos % BatchesPerEpoch = step % BatchesPerEpoch
      BY <2>1, <2>2 DEF OneHistory
    <3>5. h \in {file[step]["actor"][w][1] : w \in Worker}
      BY <3>1, <3>3
    <3>6. file[step] = [role \in Role |-> All(h)]
      BY <3>1, <3>3
    <3>7. Whole(step)
      BY <3>1, <3>2, <3>3, <3>4, <3>5, <3>6 DEF Whole
    <3> QED
      BY <1>1, <3>7 DEF Whole
  <2>5. tracker' \notin {None, Torn} /\ Tracked' = step
    BY <1>1, <1>2, NothingAssumption DEF Tracked
  <2>6. SaveFreq > 0 => Done' - Tracked' \in 0..(Done' % SaveFreq)
    BY <1>2, <2>2, <2>5, ConstantTypes, Division
  <2> QED
    BY <1>1, <1>2, <1>3, <1>7, <2>3, <2>4, <2>5, <2>6 DEF TrackInv, Apart, Running, Saving, Driver
<1> QED
  BY <1>4, <1>5, <1>6, <1>8, <1>9 DEF IInv

-----------------------------------------------------------------------------
(***************************************************************************)
(* Crashes and restarts, and the invariant.                                *)
(***************************************************************************)

LEMMA CrashKeeps == ASSUME IInv, Crash PROVE IInv'
<1> USE DEF disk, memory
<1>1. /\ pc' = "down" /\ TypeInv /\ StepInv /\ SaveInv /\ KeptInv
      /\ UNCHANGED <<memory, run, mode, auto, disk>>
  BY DEF IInv, Crash
<1>2. TypeInv' /\ StepInv' /\ SaveInv' /\ KeptInv'
  BY <1>1 DEF TypeInv, StepInv, SaveInv, KeptInv, LastStep, Running, Saving, Driver, Apart
<1>3. ASSUME KeepsTwo, auto' PROVE TrackInv'
  <2>1. tracker \notin {None, Torn} => Whole(tracker)'
    BY <1>1, <1>3, WholeStays DEF IInv, TrackInv
  <2> QED
    BY <1>1, <2>1 DEF TrackInv, Apart, Running, Saving, Driver
<1> QED
  BY <1>2, <1>3 DEF IInv

LEMMA RestartKeeps == ASSUME IInv, Restart PROVE IInv'
<1> USE DEF disk
<1>1. /\ pc' = "load" /\ step' = 0 /\ pos' = 0 /\ run' = run + 1 /\ run < MaxRuns
      /\ model' = [role \in Role |-> All(<<>>)] /\ mode' \in Modes
      /\ saving' = 1 /\ at' = [w \in Worker |-> 0] /\ kept' = [role \in Role |-> <<>>]
      /\ auto' = (auto /\ mode' = "auto") /\ UNCHANGED disk
      /\ TypeInv
  BY DEF IInv, Restart
<1>2. LastStep' = LastStep + 1 /\ LastStep \in Nat
  BY <1>1, ConstantTypes DEF TypeInv, LastStep
<1>3. TypeInv'
  <2>1. model' \in [Role -> [Worker -> [File -> History]]]
    BY <1>1, ConstantTypes DEF All
  <2>2. run' \in 1..MaxRuns /\ folder' \subseteq 1..LastStep'
    BY <1>1, <1>2, ConstantTypes DEF TypeInv
  <2>3. at' \in [Worker -> 0..2 * NFiles] /\ kept' \in [Role -> Seq(Nat)] /\ saving' \in 1..Len(Roles)
    BY <1>1, ConstantTypes
  <2> QED
    BY <1>1, <2>1, <2>2, <2>3, ConstantTypes DEF TypeInv, Apart
<1>4. StepInv' /\ SaveInv'
  BY <1>1, <1>2 DEF TypeInv, StepInv, SaveInv, Running, Saving, Driver
<1>5. KeptInv'
  BY <1>1 DEF KeptInv, Running, Saving, Driver
<1>6. ASSUME KeepsTwo, auto' PROVE TrackInv'
  <2>1. tracker \notin {None, Torn} => Whole(tracker)'
    BY <1>1, <1>6, WholeStays DEF IInv, TrackInv
  <2> QED
    BY <1>1, <1>6, <2>1 DEF TrackInv, Apart, Running, Saving, Driver
<1> QED
  BY <1>3, <1>4, <1>5, <1>6 DEF IInv

LEMMA StutterKeeps == ASSUME IInv, UNCHANGED vars PROVE IInv'
<1> USE DEF vars
<1>1. TypeInv' /\ StepInv' /\ SaveInv' /\ KeptInv'
  BY DEF IInv, TypeInv, StepInv, SaveInv, KeptInv, LastStep, Now
<1>2. ASSUME KeepsTwo, auto' PROVE TrackInv'
  <2>1. TrackInv
    BY <1>2 DEF IInv
  <2>2. OneHistory' = OneHistory /\ Done' = Done /\ Tracked' = Tracked
    BY DEF OneHistory, Done, Tracked
  <2>3. tracker \notin {None, Torn} => Whole(tracker)'
    BY <2>1, WholeStays DEF TrackInv
  <2> QED
    BY <2>1, <2>2, <2>3 DEF TrackInv
<1> QED
  BY <1>1, <1>2 DEF IInv

LEMMA InvariantKept == ASSUME IInv, [Next]_vars PROVE IInv'
<1>1. CASE LoadCheckpoint
  BY <1>1, LoadKeeps
<1>2. CASE Train \/ EndOfEpoch
  BY <1>2, TrainKeeps, EndOfEpochKeeps
<1>3. CASE Rotate \/ RoleSaved \/ \E w \in Worker : WriteFile(w)
  BY <1>3, RotateKeeps, RoleSavedKeeps, WriteFileKeeps
<1>4. CASE OpenData \/ WriteData \/ OpenTracker \/ WriteTracker
  BY <1>4, OpenDataKeeps, WriteDataKeeps, OpenTrackerKeeps, WriteTrackerKeeps
<1>5. CASE Crash \/ Restart
  BY <1>5, CrashKeeps, RestartKeeps
<1>6. CASE Over \/ UNCHANGED vars
  BY <1>6, StutterKeeps DEF Over
<1> QED
  BY <1>1, <1>2, <1>3, <1>4, <1>5, <1>6 DEF Next, Work

LEMMA InvariantHolds == Spec => []IInv
<1>1. Init => IInv
  BY InitHolds
<1>2. IInv /\ [Next]_vars => IInv'
  BY InvariantKept
<1> QED
  BY <1>1, <1>2, PTL DEF Spec

-----------------------------------------------------------------------------
(***************************************************************************)
(* How many checkpoints there are.                                         *)
(***************************************************************************)

\* A list has at least as many entries as it names different things.
LEMMA EntriesBound ==
    ASSUME NEW q \in Seq(Nat)
    PROVE  LET T == {q[i] : i \in 1..Len(q)}
           IN  IsFiniteSet(T) /\ Cardinality(T) \in Nat /\ Cardinality(T) <= Len(q)
<1> DEFINE T == {q[i] : i \in 1..Len(q)}
<1>1. Len(q) \in Nat
  OBVIOUS
<1>2. [i \in 1..Len(q) |-> q[i]] \in Surjection(1..Len(q), T)
  BY DEF Surjection
<1>3. ExistsSurjection(1..Len(q), T)
  BY <1>2 DEF ExistsSurjection
<1>4. IsFiniteSet(T) /\ Cardinality(T) <= Len(q)
  BY <1>1, <1>3, FS_NatSurjection, FS_SurjCardinalityBound
<1>5. Cardinality(T) \in Nat
  BY <1>4, FS_CardinalityType
<1> QED
  BY <1>4, <1>5

\* If no more than (r - 1) * m elements of H are neither in the list q nor in
\* E, and these two have at most m, then H has at most r * m.
LEMMA ListedBound ==
    ASSUME NEW H, IsFiniteSet(H), NEW q \in Seq(Nat), NEW E, IsFiniteSet(E),
           NEW r \in Nat, NEW m \in Nat,
           Cardinality(H \ ({q[i] : i \in 1..Len(q)} \cup E)) <= (r - 1) * m,
           Len(q) + Cardinality(E) <= m
    PROVE  Cardinality(H) <= r * m
<1> DEFINE T == {q[i] : i \in 1..Len(q)}
           R == H \ (T \cup E)
           U == R \cup (T \cup E)
<1>1. IsFiniteSet(T) /\ Cardinality(T) \in Nat /\ Cardinality(T) <= Len(q)
  BY EntriesBound
<1>2. IsFiniteSet(R) /\ Cardinality(R) \in Nat
  <2>1. R \in SUBSET H
    OBVIOUS
  <2>2. IsFiniteSet(R)
    BY <2>1, FS_Subset
  <2> QED
    BY <2>2, FS_CardinalityType
<1>3. Cardinality(E) \in Nat /\ Cardinality(R) <= (r - 1) * m
  BY FS_CardinalityType
<1> HIDE DEF T
<1>4. /\ IsFiniteSet(T \cup E)
      /\ Cardinality(T \cup E) <= Cardinality(T) + Cardinality(E)
      /\ Cardinality(T \cup E) \in Nat
  <2>1. IsFiniteSet(T \cap E) /\ IsFiniteSet(T \cup E)
    BY <1>1, FS_Union, FS_Intersection
  <2>2. Cardinality(T \cap E) \in Nat /\ Cardinality(T \cup E) \in Nat
    BY <2>1, FS_CardinalityType
  <2>3. Cardinality(T \cup E) = Cardinality(T) + Cardinality(E) - Cardinality(T \cap E)
    BY <1>1, FS_Union
  <2> QED
    BY <1>1, <1>3, <2>1, <2>2, <2>3
<1> HIDE DEF R
<1>5. IsFiniteSet(U) /\ Cardinality(U) <= Cardinality(R) + Cardinality(T \cup E)
  <2>1. IsFiniteSet(R \cap (T \cup E)) /\ IsFiniteSet(R \cup (T \cup E))
    BY <1>2, <1>4, FS_Union, FS_Intersection
  <2>2. Cardinality(R \cap (T \cup E)) \in Nat /\ Cardinality(U) \in Nat
    BY <2>1, FS_CardinalityType
  <2>3. Cardinality(U) = Cardinality(R) + Cardinality(T \cup E) - Cardinality(R \cap (T \cup E))
    BY <1>2, <1>4, FS_Union
  <2> QED
    BY <1>2, <1>4, <2>1, <2>2, <2>3
<1>6. Cardinality(H) <= Cardinality(U) /\ Cardinality(H) \in Nat /\ Cardinality(U) \in Nat
  <2>1. H \in SUBSET U
    BY DEF R
  <2> QED
    BY <1>5, <2>1, FS_Subset, FS_CardinalityType
<1>7. Cardinality(H) <= (r - 1) * m + m
  BY <1>1, <1>2, <1>3, <1>4, <1>5, <1>6
<1> QED
  BY <1>7

LEMMA StepsAreFinite ==
    ASSUME NEW H, H \subseteq Steps
    PROVE  IsFiniteSet(H)
<1>1. IsFiniteSet(Steps)
  BY ConstantTypes, FS_Interval DEF Steps
<1> QED
  BY <1>1, FS_Subset

\* A set that has lost elements has lost no more than it had.
LEMMA FewerHeld ==
    ASSUME NEW H, IsFiniteSet(H), NEW G, G \subseteq H, NEW n \in Nat, Cardinality(H) <= n
    PROVE  Cardinality(G) <= n
<1>1. Cardinality(G) <= Cardinality(H) /\ IsFiniteSet(G)
  BY FS_Subset
<1>2. Cardinality(G) \in Nat /\ Cardinality(H) \in Nat
  BY <1>1, FS_CardinalityType
<1> QED
  BY <1>1, <1>2

\* Every step that only moves checkpoints from the files to the list keeps the
\* count.
LEMMA ListedKeepsCount ==
    ASSUME IInv, IInv', NEW role \in Role, MaxKeep[role] # NoLimit, RoleCount(role),
           pc \notin {"down", "failed"}, pc' \notin {"down", "failed"}, run' = run,
           Held(role)' \ Listed(role)' \subseteq Held(role) \ Listed(role),
           Len(kept'[role]) <= MaxKeep[role],
           pc' = "write" /\ role = Now' => Len(kept'[role]) < MaxKeep[role]
    PROVE  RoleCount(role)'
<1> DEFINE m == MaxKeep[role]
           q == kept'[role]
           E == IF pc' = "write" /\ role = Now' THEN {step'} ELSE {}
<1>1. m \in Nat \ {0} /\ run \in Nat \ {0} /\ q \in Seq(Nat) /\ Len(q) \in Nat
  BY KeepAssumption, ConstantTypes DEF IInv, TypeInv
<1>2. /\ IsFiniteSet(Held(role)) /\ IsFiniteSet(Held(role) \ Listed(role))
      /\ IsFiniteSet(Held(role)')
  <2>1. /\ Held(role) \subseteq Steps /\ Held(role)' \subseteq Steps
        /\ Held(role) \ Listed(role) \subseteq Steps
    BY DEF Held
  <2> QED
    BY <2>1, StepsAreFinite
<1>3. Cardinality(Held(role)' \ Listed(role)') <= (run - 1) * m
  <2>1. (run - 1) * m \in Nat
    BY <1>1
  <2>2. Cardinality(Held(role) \ Listed(role)) <= (run - 1) * m
    BY DEF RoleCount
  <2> QED
    BY <1>2, <2>1, <2>2, FewerHeld
<1>4. IsFiniteSet(E) /\ Len(q) + Cardinality(E) <= m
  <2>1. CASE pc' = "write" /\ role = Now'
    <3>1. Cardinality(E) = 1 /\ IsFiniteSet(E)
      BY <2>1, FS_Singleton
    <3> QED
      BY <1>1, <2>1, <3>1
  <2>2. CASE ~(pc' = "write" /\ role = Now')
    <3>1. Cardinality(E) = 0 /\ IsFiniteSet(E)
      BY <2>2, FS_EmptySet
    <3> QED
      BY <1>1, <3>1
  <2> QED
    BY <2>1, <2>2
<1>5. Listed(role)' = {q[i] : i \in 1..Len(q)} \cup E
  BY DEF Listed
<1> HIDE DEF m, q, E
<1>6. Cardinality(Held(role)') <= run * m
  BY <1>1, <1>2, <1>3, <1>4, <1>5, ListedBound
<1> QED
  BY <1>3, <1>6 DEF RoleCount, m, q

\* No checkpoint has changed, nor the list; nothing is being written.
LEMMA SameCount ==
    ASSUME IInv, IInv', NEW role \in Role, MaxKeep[role] # NoLimit, RoleCount(role),
           pc \notin {"down", "failed", "write"}, pc' \notin {"down", "failed", "write"},
           UNCHANGED <<run, kept, file>>
    PROVE  RoleCount(role)'
<1>1. Held(role)' = Held(role) /\ Listed(role)' = Listed(role)
  BY DEF Held, Listed
<1>2. Len(kept'[role]) <= MaxKeep[role]
  BY DEF RoleCount
<1> QED
  BY <1>1, <1>2, ListedKeepsCount

LEMMA RotateKeepsCount ==
    ASSUME IInv, IInv', NEW role \in Role, MaxKeep[role] # NoLimit, RoleCount(role), Rotate
    PROVE  RoleCount(role)'
<1> DEFINE gone == {kept[Now][i] : i \in 1..Excess(Now)}
           n == Excess(Now)
           q == kept[Now]
<1>1. /\ pc = "rotate" /\ pc' = "write" /\ Now' = Now /\ step' = step /\ run' = run
      /\ file' = [s \in Steps |->
                    IF s \in gone THEN [file[s] EXCEPT ![Now] = All(None)] ELSE file[s]]
      /\ kept' = [kept EXCEPT ![Now] = SubSeq(@, n + 1, Len(@))]
  BY DEF Rotate, Now
<1>2. /\ Now \in Role /\ q \in Seq(Nat) /\ n \in 0..Len(q) /\ Len(q) \in Nat
      /\ kept \in [Role -> Seq(Nat)] /\ \A s \in Steps : DOMAIN file[s] = Role
  BY NowIsRole, SomeAreRemoved DEF IInv, TypeInv
<1>3. /\ kept'[Now] = SubSeq(q, n + 1, Len(q)) /\ Len(kept'[Now]) = Len(q) - n
      /\ \A i \in 1..Len(q) - n : kept'[Now][i] = q[n + i]
      /\ role # Now => kept'[role] = kept[role]
  <2>1. kept'[Now] = SubSeq(q, n + 1, Len(q)) /\ (role # Now => kept'[role] = kept[role])
    BY <1>1, <1>2
  <2> QED
    BY <1>2, <2>1, Rest
<1>4. CASE role # Now
  <2>1. Held(role)' = Held(role)
    BY <1>1, <1>2, <1>4 DEF Held
  <2>2. Listed(role)' = Listed(role)
    BY <1>1, <1>3, <1>4 DEF Listed
  <2>3. Len(kept'[role]) <= MaxKeep[role]
    BY <1>1, <1>3, <1>4 DEF RoleCount
  <2> QED
    BY <1>1, <1>4, <2>1, <2>2, <2>3, ListedKeepsCount
<1>5. CASE role = Now
  <2>1. ASSUME NEW s \in Held(role)' \ Listed(role)'
        PROVE  s \in Held(role) \ Listed(role)
    <3>1. s \in Steps /\ file'[s][role] # All(None) /\ s # step
      BY <1>1, <1>5, <2>1 DEF Held, Listed
    <3>2. s \notin gone /\ file'[s] = file[s]
      BY <1>1, <1>2, <1>5, <3>1
    <3>3. ASSUME NEW i \in 1..Len(q) PROVE s # q[i]
      <4>1. CASE i \in 1..n
        BY <3>2, <4>1
      <4>2. CASE i \notin 1..n
        <5> HIDE DEF n, q
        <5>1. i - n \in 1..Len(q) - n /\ n + (i - n) = i
          BY <1>2, <4>2
        <5>2. kept'[Now][i - n] = q[i]
          BY <1>3, <5>1
        <5>3. q[i] \in Listed(role)'
          BY <1>3, <1>5, <5>1, <5>2 DEF Listed
        <5> QED
          BY <5>3
      <4> QED
        BY <4>1, <4>2
    <3> QED
      BY <1>1, <1>5, <3>1, <3>2, <3>3 DEF Held, Listed
  <2>2. Len(kept'[role]) < MaxKeep[role]
    <3>1. MaxKeep[role] \in Nat \ {0} /\ Len(q) <= MaxKeep[role]
      BY <1>1, <1>5, KeepAssumption DEF RoleCount
    <3> QED
      BY <1>2, <1>3, <1>5, <3>1 DEF Excess
  <2>3. MaxKeep[role] \in Nat /\ Len(kept'[role]) \in Nat
    BY <1>2, <1>3, <1>5, KeepAssumption
  <2>4. Held(role)' \ Listed(role)' \subseteq Held(role) \ Listed(role)
    BY <2>1
  <2>5. Len(kept'[role]) <= MaxKeep[role]
    BY <2>2, <2>3
  <2> QED
    BY <1>1, <2>2, <2>4, <2>5, ListedKeepsCount
<1> QED
  BY <1>4, <1>5

LEMMA WriteFileKeepsCount ==
    ASSUME IInv, IInv', NEW role \in Role, MaxKeep[role] # NoLimit, RoleCount(role),
           NEW w \in Worker, WriteFile(w)
    PROVE  RoleCount(role)'
<1>1. /\ pc = "write" /\ pc' = "write" /\ Now' = Now /\ step' = step /\ run' = run
      /\ kept' = kept /\ Listed(role)' = Listed(role)
  BY DEF WriteFile, Now, Listed
<1>2. /\ \A s \in Steps : s # step => file'[s][role] = file[s][role]
      /\ role # Now => \A s \in Steps : file'[s][role] = file[s][role]
  BY DEF IInv, TypeInv, WriteFile
<1>3. Held(role)' \ Listed(role)' \subseteq Held(role) \ Listed(role)
  BY <1>1, <1>2 DEF Held, Listed
<1>4. /\ Len(kept'[role]) <= MaxKeep[role]
      /\ role = Now => Len(kept'[role]) < MaxKeep[role]
  BY <1>1 DEF RoleCount
<1> QED
  BY <1>1, <1>3, <1>4, ListedKeepsCount

LEMMA RoleSavedKeepsCount ==
    ASSUME IInv, IInv', NEW role \in Role, MaxKeep[role] # NoLimit, RoleCount(role),
           RoleSaved
    PROVE  RoleCount(role)'
<1>1. /\ pc = "write" /\ pc' \in {"rotate", "data"} /\ step' = step /\ run' = run
      /\ kept' = [kept EXCEPT ![Now] = Append(@, step)] /\ file' = file
  BY DEF RoleSaved, disk
<1>2. /\ Now \in Role /\ kept[Now] \in Seq(Nat) /\ step \in Nat
      /\ kept \in [Role -> Seq(Nat)]
  BY NowIsRole DEF IInv, TypeInv
<1>3. /\ kept'[Now] = Append(kept[Now], step)
      /\ role # Now => kept'[role] = kept[role]
  BY <1>1, <1>2
<1>4. /\ Len(kept'[Now]) = Len(kept[Now]) + 1 /\ Len(kept[Now]) \in Nat
      /\ \A i \in 1..Len(kept[Now]) : kept'[Now][i] = kept[Now][i]
      /\ kept'[Now][Len(kept[Now]) + 1] = step
  BY <1>2, <1>3, AppendOne
<1>5. Listed(role) \subseteq Listed(role)'
  <2>1. CASE role # Now
    BY <1>3, <2>1 DEF Listed
  <2>2. CASE role = Now
    <3>1. \A i \in 1..Len(kept[Now]) : i \in 1..Len(kept'[Now])
      BY <1>4
    <3>2. Len(kept[Now]) + 1 \in 1..Len(kept'[Now])
      BY <1>4
    <3> QED
      BY <1>4, <2>2, <3>1, <3>2 DEF Listed
  <2> QED
    BY <2>1, <2>2
<1>6. Held(role)' \ Listed(role)' \subseteq Held(role) \ Listed(role)
  BY <1>1, <1>5 DEF Held
<1>7. Len(kept'[role]) <= MaxKeep[role]
  <2>1. MaxKeep[role] \in Nat
    BY KeepAssumption
  <2>2. CASE role # Now
    BY <1>1, <1>3, <2>2 DEF RoleCount
  <2>3. CASE role = Now
    BY <1>1, <1>4, <2>1, <2>3 DEF RoleCount
  <2> QED
    BY <2>2, <2>3
<1> QED
  BY <1>1, <1>6, <1>7, ListedKeepsCount

\* A run that begins has nothing listed, and one that ends needs no list.
LEMMA RestartKeepsCount ==
    ASSUME IInv, IInv', NEW role \in Role, MaxKeep[role] # NoLimit, RoleCount(role),
           Restart
    PROVE  RoleCount(role)'
<1>1. /\ run' = run + 1 /\ run \in Nat /\ kept'[role] = <<>> /\ file' = file
      /\ pc' = "load"
  BY ConstantTypes DEF IInv, TypeInv, Restart, disk
<1>2. Held(role)' = Held(role) /\ Listed(role)' = {}
  BY <1>1 DEF Held, Listed
<1>3. MaxKeep[role] \in Nat /\ Len(kept'[role]) = 0
  BY <1>1, KeepAssumption
<1>4. Held(role)' \ Listed(role)' = Held(role)
  BY <1>2
<1>5. Cardinality(Held(role)) <= run * MaxKeep[role]
  BY DEF RoleCount
<1>6. Cardinality(Held(role)) \in Nat
  BY StepsAreFinite, FS_CardinalityType DEF Held
<1>7. (run' - 1) * MaxKeep[role] = run * MaxKeep[role]
  BY <1>1, <1>3
<1>8. Cardinality(Held(role)) <= run' * MaxKeep[role]
  BY <1>1, <1>3, <1>5, <1>6
<1> QED
  BY <1>1, <1>2, <1>3, <1>4, <1>5, <1>7, <1>8 DEF RoleCount

LEMMA CountInit == Init => CountInv
<1>1. SUFFICES ASSUME Init, NEW role \in Role, MaxKeep[role] # NoLimit PROVE RoleCount(role)
  BY DEF CountInv
<1>2. Held(role) = {} /\ Held(role) \ Listed(role) = {} /\ Len(kept[role]) = 0
      /\ run = 1 /\ pc = "load"
  BY <1>1 DEF Init, Held
<1>3. Cardinality({}) = 0 /\ MaxKeep[role] \in Nat
  BY <1>1, FS_EmptySet, KeepAssumption
<1> QED
  BY <1>2, <1>3 DEF RoleCount

LEMMA CountKept == ASSUME IInv, IInv', CountInv, [Next]_vars PROVE CountInv'
<1> USE DEF memory, disk
<1>1. SUFFICES ASSUME NEW role \in Role, MaxKeep[role] # NoLimit, RoleCount(role)
               PROVE  RoleCount(role)'
  BY DEF CountInv
<1>2. ASSUME pc' \in {"down", "failed"}, file' = file, run' = run PROVE RoleCount(role)'
  BY <1>1, <1>2 DEF RoleCount, Held
<1>3. CASE LoadCheckpoint
  <2>1. CASE pc' = "failed"
    BY <1>2, <1>3, <2>1 DEF LoadCheckpoint, Scratch, Resume, LoadFails, Raise
  <2>2. CASE pc' # "failed"
    <3>1. pc = "load" /\ pc' = "train" /\ UNCHANGED <<run, kept, file>>
      BY <1>3, <2>2 DEF LoadCheckpoint, Scratch, Resume, LoadFails, Raise
    <3> QED
      BY <1>1, <3>1, SameCount
  <2> QED
    BY <2>1, <2>2
<1>4. CASE Train \/ EndOfEpoch
  <2>1. pc = "train" /\ pc' \in {"train", "rotate", "done"} /\ UNCHANGED <<run, kept, file>>
    BY <1>4 DEF Train, EndOfEpoch, NextStep
  <2> QED
    BY <1>1, <2>1, SameCount
<1>5. CASE OpenData \/ WriteData \/ OpenTracker \/ WriteTracker
  <2>1. /\ pc \in Driver /\ pc' \in Driver \cup {"train", "done"}
        /\ UNCHANGED <<run, kept, file>>
    BY <1>5 DEF OpenData, WriteData, OpenTracker, WriteTracker, NextStep, Driver
  <2> QED
    BY <1>1, <2>1, SameCount DEF Driver
<1>6. CASE Crash
  BY <1>2, <1>6 DEF Crash
<1>7. CASE UNCHANGED vars
  BY <1>1, <1>7 DEF vars, RoleCount, Held, Listed, Now
<1>8. CASE Over
  BY <1>7, <1>8 DEF Over
<1> QED
  BY <1>1, <1>3, <1>4, <1>5, <1>6, <1>7, <1>8, RotateKeepsCount, WriteFileKeepsCount,
     RoleSavedKeepsCount, RestartKeepsCount DEF Next, Work

-----------------------------------------------------------------------------
(***************************************************************************)
(* Theorems.                                                               *)
(***************************************************************************)

\* If two checkpoints of every role are kept, then whenever the job dies the
\* tracker names a step all of whose files, of both roles and all workers, and
\* whose position in the data can be loaded and belong together
\* (RayPPOTrainer._save_checkpoint, FSDPCheckpointManager.save_checkpoint).
THEOREM TrackerNamesAWholeStep ==
    ASSUME KeepsTwo
    PROVE  Spec => []TrackerIsLoadable
<1>1. IInv => TrackerIsLoadable
  BY DEF IInv, TrackInv, TrackerIsLoadable
<1> QED
  BY <1>1, InvariantHolds, PTL

\* A job that is running, resumed or not, is in a state of one that never died:
\* one history in all shards of both roles, as long as global_steps says, the
\* batch that is next in the data, and less than save_freq steps to lose
\* (RayPPOTrainer.fit, _load_checkpoint).
THEOREM AResumedJobContinues ==
    ASSUME KeepsTwo
    PROVE  Spec => []ResumedAsIfNeverDied
<1>1. ASSUME IInv PROVE ResumedAsIfNeverDied
  <2>1. SUFFICES ASSUME auto, pc \notin {"load", "down", "failed"}
                 PROVE  /\ OneHistory
                        /\ pc = "train" /\ SaveFreq > 0 =>
                              Done - Tracked \in 0..(SaveFreq - 1)
    BY DEF ResumedAsIfNeverDied, OneHistory, Tracked
  <2>2. OneHistory
    BY <1>1, <2>1 DEF IInv, TrackInv, Apart
  <2>3. ASSUME pc = "train", SaveFreq > 0 PROVE Done - Tracked \in 0..(SaveFreq - 1)
    <3>1. Done - Tracked \in 0..(Done % SaveFreq)
      BY <1>1, <2>1, <2>3 DEF IInv, TrackInv
    <3>2. Done \in Nat
      BY <1>1, <2>3, StepTypes DEF IInv, Done, Running
    <3>3. SaveFreq \in Nat \ {0}
      BY <2>3, ConstantTypes
    <3>4. Done % SaveFreq \in 0..SaveFreq - 1
      BY <3>2, <3>3, Division
    <3> HIDE DEF Done, Tracked
    <3> QED
      BY <3>1, <3>3, <3>4
  <2> QED
    BY <2>2, <2>3
<1> QED
  BY <1>1, InvariantHolds, PTL

\* With any number of checkpoints to keep, also one, every run leaves at most
\* max_ckpt_to_keep of them for each role, also while it writes the next: what
\* accumulates over restarts, the list being in memory only, is bounded by the
\* number of runs (previous_saved_paths in FSDPCheckpointManager).
THEOREM CheckpointsAreBounded == Spec => []KeptPerRun
<1>1. Init => IInv /\ CountInv
  BY InitHolds, CountInit
<1>2. (IInv /\ CountInv) /\ [Next]_vars => (IInv /\ CountInv)'
  BY InvariantKept, CountKept
<1>3. CountInv => KeptPerRun
  BY DEF CountInv, RoleCount, KeptPerRun, Held
<1> QED
  BY <1>1, <1>2, <1>3, PTL DEF Spec

\* The history of one worker's actor is that of all models of a running job.
LEMMA ModelIsTheHistory ==
    ASSUME IInv, KeepsTwo, auto, pc \notin Apart
    PROVE  /\ Model \in Seq(Nat) /\ Len(Model) = Done
           /\ model = [role \in Role |-> All(Model)]
<1>1. PICK h \in {model["actor"][w][1] : w \in Worker} :
          Len(h) = Done /\ model = [role \in Role |-> All(h)]
  BY DEF IInv, TrackInv, OneHistory
<1>2. h \in Seq(Nat)
  BY <1>1, ConstantTypes DEF IInv, TypeInv, File, History
<1>3. AWorker \in Worker
  BY ConstantTypes DEF AWorker
<1>4. model["actor"][AWorker][1] = h
  BY <1>1, <1>3, ConstantTypes DEF All, File
<1> QED
  BY <1>1, <1>2, <1>4 DEF Model, Apart

LEMMA InitImplementsJob == Init => Job!Init
  BY NothingAssumption DEF Init, Job!Init, Model, Committed

\* What is committed changes with the tracker only.
LEMMA CommittedStays ==
    ASSUME tracker' = tracker,
           tracker \notin {None, Torn} => file'[tracker] = file[tracker]
    PROVE  Committed' = Committed
  BY DEF Committed

LEMMA LoadStutters ==
    ASSUME IInv, LoadCheckpoint, KeepsTwo, auto
    PROVE  Model' = Model /\ Committed' = Committed
<1>1. pc = "load" /\ tracker' = tracker /\ file' = file
  BY DEF LoadCheckpoint, Scratch, Resume, LoadFails, Raise, disk
<1>2. Committed' = Committed /\ Model = Committed
  BY <1>1, CommittedStays DEF Model
<1>3. tracker \in folder \cup {None, Torn} /\ folder \subseteq Nat
      /\ (mode = "auto" \/ (mode = "disable" /\ tracker = None))
      /\ model = [role \in Role |-> All(<<>>)]
  BY <1>1, StepTypes DEF IInv, TypeInv, Steps, TrackInv, StepInv
<1>4. CASE Raise
  BY <1>2, <1>4 DEF Model, Raise
<1>5. CASE Scratch /\ tracker = None
  <2>1. model["actor"][AWorker][1] = <<>>
    BY <1>3, ConstantTypes DEF All, File, AWorker
  <2> QED
    BY <1>2, <1>5, <2>1 DEF Model, Committed, Scratch
<1>6. CASE Resume(tracker) /\ tracker \in folder
  <2>1. tracker \notin {None, Torn}
    BY <1>3, <1>6, NothingAssumption
  <2> QED
    BY <1>2, <1>6, <2>1 DEF Model, Committed, Resume
<1> QED
  BY <1>1, <1>3, <1>4, <1>5, <1>6, NothingAssumption DEF LoadCheckpoint, LoadFails, LatestStep

LEMMA TrainUpdates ==
    ASSUME IInv, Train, KeepsTwo, auto
    PROVE  Job!Update
<1>1. pc = "train" /\ pc' \notin Apart /\ model' = Updated /\ UNCHANGED <<run, auto, disk>>
  BY DEF Train, NextStep, Apart
<1>2. Model \in Seq(Nat) /\ model = [role \in Role |-> All(Model)]
  BY <1>1, ModelIsTheHistory DEF Apart
<1>3. Model # Torn
  BY <1>2, NothingAssumption
<1>4. Model' = Append(Model, run)
  <2>1. AWorker \in Worker
    BY ConstantTypes DEF AWorker
  <2>2. model'["actor"][AWorker][1] = Append(model["actor"][AWorker][1], run)
    <3>1. "actor" \in Role /\ 1 \in File
      BY ConstantTypes DEF File
    <3> QED
      BY <1>1, <2>1, <3>1 DEF Updated
  <2> QED
    BY <1>1, <2>2 DEF Model, Apart
<1>5. Committed' = Committed
  BY <1>1, CommittedStays DEF disk
<1> QED
  BY <1>1, <1>3, <1>4, <1>5 DEF Job!Update

LEMMA WriteTrackerCommits ==
    ASSUME IInv, WriteTracker
    PROVE  Job!EndCommit
<1>1. /\ pc = "trackeropen" /\ pc' \in {"train", "done"}
      /\ tracker = Torn /\ tracker' = step /\ file' = file /\ file[step] = model
      /\ UNCHANGED <<model, run, auto>>
  BY DEF WriteTracker, NextStep, IInv, SaveInv, Driver
<1>2. step \notin {None, Torn} /\ Torn # None
  BY NothingAssumption DEF IInv, TypeInv
<1>3. Committed = Torn /\ Committed' = model["actor"][AWorker][1]
  BY <1>1, <1>2 DEF Committed
<1>4. Model = model["actor"][AWorker][1] /\ Model' = model["actor"][AWorker][1]
  BY <1>1 DEF Model
<1> QED
  BY <1>1, <1>3, <1>4 DEF Job!EndCommit

\* Everything else a run does to its memory and its files.
LEMMA SavingStutters ==
    ASSUME KeepsTwo, IInv, auto,
           \/ EndOfEpoch \/ Rotate \/ RoleSaved \/ OpenData \/ WriteData
           \/ \E w \in Worker : WriteFile(w)
    PROVE  UNCHANGED <<Model, Committed, run, auto>>
<1> USE DEF disk, memory
<1>1. /\ pc \notin Apart /\ pc' \notin Apart
      /\ UNCHANGED <<model, run, auto, tracker>>
  BY DEF EndOfEpoch, Rotate, RoleSaved, OpenData, WriteData, WriteFile, Apart
<1>2. Model' = Model
  BY <1>1 DEF Model, Apart
<1>3. tracker \notin {None, Torn} => file'[tracker] = file[tracker]
  <2>1. CASE Rotate
    BY <2>1, RotateSparesTracked
  <2>2. CASE \E w \in Worker : WriteFile(w)
    BY <2>2, WriteFileSparesTracked
  <2>3. CASE EndOfEpoch \/ RoleSaved \/ OpenData \/ WriteData
    BY <2>3 DEF EndOfEpoch, RoleSaved, OpenData, WriteData
  <2> QED
    BY <2>1, <2>2, <2>3
<1> QED
  BY <1>1, <1>2, <1>3, CommittedStays

LEMMA StepImplementsJob ==
    ASSUME KeepsTwo, IInv, [Next]_vars
    PROVE  [Job!Next]_(Job!vars)
<1> USE DEF disk, memory, Job!Next, Job!vars
<1>1. CASE ~auto'
  BY <1>1 DEF Job!Interfere
<1>2. CASE auto' /\ UNCHANGED vars
  BY <1>2 DEF vars, Model, Committed
<1>3. CASE auto' /\ LoadCheckpoint
  <2>1. UNCHANGED <<run, auto>>
    BY <1>3 DEF LoadCheckpoint, Scratch, Resume, LoadFails, Raise
  <2> QED
    BY <1>3, <2>1, LoadStutters
<1>4. CASE auto' /\ Train
  <2>1. auto
    BY <1>4 DEF Train
  <2> QED
    BY <1>4, <2>1, TrainUpdates
<1>5. CASE auto' /\ WriteTracker
  <2>1. auto
    BY <1>5 DEF WriteTracker
  <2> QED
    BY <1>5, <2>1, WriteTrackerCommits
<1>6. CASE auto' /\ OpenTracker
  <2>1. /\ auto /\ pc \notin Apart /\ pc' \notin Apart /\ tracker' = Torn
        /\ UNCHANGED <<model, run, auto>>
    BY <1>6 DEF OpenTracker, Apart
  <2>2. Model' = Model /\ Committed' = Torn
    BY <2>1, NothingAssumption DEF Model, Committed, Apart
  <2> QED
    BY <2>1, <2>2 DEF Job!BeginCommit
<1>7. CASE auto' /\ \/ EndOfEpoch \/ Rotate \/ RoleSaved \/ OpenData \/ WriteData
                    \/ \E w \in Worker : WriteFile(w)
  <2>1. auto
    BY <1>7 DEF EndOfEpoch, Rotate, RoleSaved, OpenData, WriteData, WriteFile
  <2> QED
    BY <1>7, <2>1, SavingStutters
<1>8. CASE auto' /\ Crash
  <2>1. auto /\ pc' = "down" /\ UNCHANGED <<run, auto, tracker, file>>
    BY <1>8 DEF Crash
  <2>2. Committed' = Committed /\ Model' = Committed
    BY <2>1, CommittedStays DEF Model
  <2> QED
    BY <2>1, <2>2 DEF Job!Die
<1>9. CASE auto' /\ Restart
  <2>1. auto /\ auto' = auto /\ run' = run + 1 /\ pc' = "load" /\ UNCHANGED <<tracker, file>>
    BY <1>9 DEF Restart, IInv, TypeInv
  <2>2. Committed' = Committed /\ Model' = Committed
    BY <2>1, CommittedStays DEF Model
  <2> QED
    BY <2>1, <2>2 DEF Job!Again
<1> QED
  BY <1>1, <1>2, <1>3, <1>4, <1>5, <1>6, <1>7, <1>8, <1>9 DEF Next, Work, Over

\* The trainer, whose checkpoint of one step is many files of many processes
\* written one after the other, implements the job that carries on with
\* exactly the model it last committed.
THEOREM TrainerImplementsRecoverableJob ==
    ASSUME KeepsTwo
    PROVE  Spec => ImplementsRecoverableJob
<1>1. Init => Job!Init
  BY InitImplementsJob
<1>2. IInv /\ [Next]_vars => [Job!Next]_(Job!vars)
  BY StepImplementsJob
<1> QED
  BY <1>1, <1>2, InvariantHolds, PTL DEF Spec, Job!Spec, ImplementsRecoverableJob
=============================================================================
