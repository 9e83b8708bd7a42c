-------------------------- MODULE AgentLoopProofs ---------------------------
(***************************************************************************)
(* Theorems about AgentLoop and the limiter it uses, for any number of     *)
(* conversations, workers, servers and tools, and all lengths and limits.  *)
(***************************************************************************)
EXTENDS AgentLoop, FiniteSetTheorems, TLAPS

LEMMA CallsAreFinite == IsFiniteSet(Call)
<1>1. IsFiniteSet(1..MaxParallel)
  BY FS_Interval, LengthAssumption
<1> QED
  BY <1>1, FS_Product, ConvAssumption DEF Call

\* One more in a sequence, one fewer.
LEMMA AppendOne ==
    ASSUME NEW S, NEW q \in Seq(S), NEW x \in S
    PROVE  /\ Append(q, x) \in Seq(S) /\ Len(Append(q, x)) = Len(q) + 1
           /\ \A i \in 1..Len(q) : Append(q, x)[i] = q[i]
           /\ Append(q, x)[Len(q) + 1] = x
  OBVIOUS

LEMMA TailOne ==
    ASSUME NEW S, NEW q \in Seq(S), q # <<>>
    PROVE  /\ Tail(q) \in Seq(S) /\ Len(Tail(q)) = Len(q) - 1 /\ Len(q) \in Nat \ {0}
           /\ Head(q) = q[1] /\ q[1] \in S
           /\ \A i \in 1..Len(q) - 1 : Tail(q)[i] = q[i + 1]
  OBVIOUS

-----------------------------------------------------------------------------
(***************************************************************************)
(* The limiter.                                                            *)
(***************************************************************************)

\* The mailbox holds calls that ask for a token, each once.
Waiting ==
    /\ mailbox \in Seq(Call)
    /\ \A i \in 1..Len(mailbox) : stage[mailbox[i]] = "acquiring"
    /\ \A i, j \in 1..Len(mailbox) : mailbox[i] = mailbox[j] => i = j

Tokens ==
    /\ limit \in Nat /\ sem \in Nat /\ returning \in Nat
    /\ stage \in [Call -> Limiter!Stages]
    /\ sem + Cardinality(Limiter!Running) + returning = limit

LimiterInv == Waiting /\ Tokens

LEMMA RunningIsFinite ==
    IsFiniteSet(Limiter!Running) /\ Cardinality(Limiter!Running) \in Nat
<1>1. IsFiniteSet(Limiter!Running)
  BY CallsAreFinite, FS_Subset DEF Limiter!Running
<1> QED
  BY <1>1, FS_CardinalityType

\* The constructor of the first pool makes all tokens; there are none yet.
LEMMA StartPoolKeeps ==
    ASSUME LimiterInv, NEW p \in Pool, Limiter!StartPool(p)
    PROVE  LimiterInv'
<1>1. Waiting'
  BY DEF LimiterInv, Waiting, Limiter!StartPool
<1>2. Limiter!Running' = Limiter!Running
  BY DEF Limiter!StartPool, Limiter!Running
<1>3. RateLimit[p[2]] \in Nat /\ [q \in Pool |-> RateLimit[q[2]]][p] = RateLimit[p[2]]
  BY LengthAssumption DEF Pool
<1>4. limit' \in Nat /\ sem' \in Nat /\ sem' + Cardinality(Limiter!Running) + returning = limit'
  <2>1. /\ limit \in Nat /\ sem \in Nat /\ returning \in Nat
        /\ sem + Cardinality(Limiter!Running) + returning = limit
    BY DEF LimiterInv, Tokens
  <2>2. \/ limit = 0 /\ limit' = RateLimit[p[2]] /\ sem' = RateLimit[p[2]]
        \/ limit' = limit /\ sem' = sem
    BY <1>3, Zenon DEF Limiter!StartPool
  <2>3. Cardinality(Limiter!Running) \in Nat
    BY RunningIsFinite
  <2>4. RateLimit[p[2]] \in Nat
    BY <1>3
  <2>5. CASE limit = 0 /\ limit' = RateLimit[p[2]] /\ sem' = RateLimit[p[2]]
    <3>1. Cardinality(Limiter!Running) = 0 /\ returning = 0
      BY <2>1, <2>3, <2>5
    <3> QED
      BY <2>4, <2>5, <3>1
  <2>6. CASE limit' = limit /\ sem' = sem
    BY <2>1, <2>6
  <2> QED
    BY <2>2, <2>5, <2>6
<1> QED
  BY <1>1, <1>2, <1>4 DEF LimiterInv, Tokens, Limiter!StartPool

\* Calls are sent that were idle: none of them waits or runs.
LEMMA SendKeeps ==
    ASSUME LimiterInv, NEW K \in SUBSET Call, \A k \in K : stage[k] = "idle",
           NEW to, Limiter!Send(K, to)
    PROVE  LimiterInv'
<1> USE DEF Limiter!Send
<1>1. Waiting'
  <2>1. \A i \in 1..Len(mailbox) : mailbox[i] \in Call /\ mailbox[i] \notin K
    BY DEF LimiterInv, Waiting
  <2> QED
    BY <2>1 DEF LimiterInv, Waiting
<1>2. Limiter!Running' = Limiter!Running
  BY DEF Limiter!Running, LimiterInv, Tokens
<1>3. stage' \in [Call -> Limiter!Stages]
  BY DEF LimiterInv, Tokens, Limiter!Stages
<1> QED
  BY <1>1, <1>2, <1>3 DEF LimiterInv, Tokens

LEMMA EnterKeeps ==
    ASSUME LimiterInv, NEW k \in Call, Limiter!Enter(k)
    PROVE  LimiterInv'
<1> USE DEF Limiter!Enter
<1>1. Waiting'
  <2>1. mailbox' \in Seq(Call) /\ Len(mailbox') = Len(mailbox) + 1
        /\ (\A i \in 1..Len(mailbox) : mailbox'[i] = mailbox[i]) /\ mailbox'[Len(mailbox) + 1] = k
        /\ Len(mailbox) \in Nat
    BY AppendOne DEF LimiterInv, Waiting
  <2>2. \A i \in 1..Len(mailbox) : mailbox[i] # k /\ mailbox[i] \in Call
    BY DEF LimiterInv, Waiting
  <2>3. stage \in [Call -> Limiter!Stages]
    BY DEF LimiterInv, Tokens
  <2>4. \A i \in 1..Len(mailbox') : stage'[mailbox'[i]] = "acquiring"
    <3> SUFFICES ASSUME NEW i \in 1..Len(mailbox') PROVE stage'[mailbox'[i]] = "acquiring"
      OBVIOUS
    <3>1. CASE i \in 1..Len(mailbox)
      BY <3>1, <2>1, <2>2, <2>3 DEF LimiterInv, Waiting
    <3>2. CASE i = Len(mailbox) + 1
      BY <3>2, <2>1, <2>3
    <3> QED
      BY <2>1, <3>1, <3>2
  <2>5. \A i, j \in 1..Len(mailbox') : mailbox'[i] = mailbox'[j] => i = j
    <3> SUFFICES ASSUME NEW i \in 1..Len(mailbox'), NEW j \in 1..Len(mailbox'), mailbox'[i] = mailbox'[j]
                 PROVE i = j
      OBVIOUS
    <3>1. i \in 1..Len(mailbox) \/ i = Len(mailbox) + 1
      BY <2>1
    <3>2. j \in 1..Len(mailbox) \/ j = Len(mailbox) + 1
      BY <2>1
    <3>3. \A a, b \in 1..Len(mailbox) : mailbox[a] = mailbox[b] => a = b
      BY DEF LimiterInv, Waiting
    <3> QED
      BY <2>1, <2>2, <3>1, <3>2, <3>3
  <2> QED
    BY <2>1, <2>4, <2>5 DEF Waiting
<1>2. Limiter!Running' = Limiter!Running
  BY DEF Limiter!Running, LimiterInv, Tokens
<1>3. stage' \in [Call -> Limiter!Stages]
  BY DEF LimiterInv, Tokens, Limiter!Stages
<1> QED
  BY <1>1, <1>2, <1>3 DEF LimiterInv, Tokens

LEMMA AcquireKeeps ==
    ASSUME LimiterInv, Limiter!Acquire
    PROVE  LimiterInv'
<1> USE DEF Limiter!Acquire
<1>1. /\ Tail(mailbox) \in Seq(Call) /\ Len(Tail(mailbox)) = Len(mailbox) - 1
      /\ Len(mailbox) \in Nat \ {0} /\ Head(mailbox) = mailbox[1] /\ mailbox[1] \in Call
      /\ \A i \in 1..Len(mailbox) - 1 : Tail(mailbox)[i] = mailbox[i + 1]
  BY TailOne DEF LimiterInv, Waiting
<1>2. stage \in [Call -> Limiter!Stages] /\ stage[mailbox[1]] = "acquiring"
  BY <1>1 DEF LimiterInv, Waiting, Tokens
<1>3. Waiting'
  <2>1. \A i \in 1..Len(mailbox') :
            i + 1 \in 2..Len(mailbox) /\ mailbox'[i] = mailbox[i + 1] /\ mailbox[i + 1] \in Call
    BY <1>1 DEF LimiterInv, Waiting
  <2>2. \A i \in 2..Len(mailbox) : mailbox[i] # mailbox[1] /\ stage[mailbox[i]] = "acquiring"
    BY <1>1 DEF LimiterInv, Waiting
  <2>3. \A i \in 1..Len(mailbox') : stage'[mailbox'[i]] = "acquiring"
    BY <1>1, <1>2, <2>1, <2>2
  <2>4. \A i, j \in 1..Len(mailbox') : mailbox'[i] = mailbox'[j] => i = j
    <3> SUFFICES ASSUME NEW i \in 1..Len(mailbox'), NEW j \in 1..Len(mailbox'), mailbox'[i] = mailbox'[j]
                 PROVE i = j
      OBVIOUS
    <3>1. i + 1 \in 1..Len(mailbox) /\ j + 1 \in 1..Len(mailbox) /\ mailbox[i + 1] = mailbox[j + 1]
      BY <1>1, <2>1
    <3> QED
      BY <3>1 DEF LimiterInv, Waiting
  <2> QED
    BY <1>1, <2>3, <2>4 DEF Waiting
<1>4. Limiter!Running' = Limiter!Running \cup {mailbox[1]} /\ mailbox[1] \notin Limiter!Running
  BY <1>1, <1>2 DEF Limiter!Running
<1>5. Cardinality(Limiter!Running') = Cardinality(Limiter!Running) + 1
  BY <1>4, RunningIsFinite, FS_AddElement
<1>6. stage' \in [Call -> Limiter!Stages]
  BY <1>2 DEF Limiter!Stages
<1>7. sem' \in Nat /\ sem' = sem - 1 /\ limit' = limit /\ returning' = returning
  BY DEF LimiterInv, Tokens
<1>8. sem' + Cardinality(Limiter!Running') + returning' = limit'
  BY <1>5, <1>7, RunningIsFinite DEF LimiterInv, Tokens
<1> QED
  BY <1>3, <1>6, <1>7, <1>8 DEF LimiterInv, Tokens

LEMMA ReturnKeeps ==
    ASSUME LimiterInv, NEW k \in Call, NEW result \in {"ok", "failed"},
           Limiter!Return(k, result)
    PROVE  LimiterInv'
<1> USE DEF Limiter!Return
<1>1. Waiting'
  BY DEF LimiterInv, Waiting, Tokens
<1>2. Limiter!Running' = Limiter!Running \ {k} /\ k \in Limiter!Running
  BY DEF Limiter!Running, LimiterInv, Tokens
<1>3. Cardinality(Limiter!Running') = Cardinality(Limiter!Running) - 1
  BY <1>2, RunningIsFinite, FS_RemoveElement
<1>4. stage' \in [Call -> Limiter!Stages]
  BY DEF LimiterInv, Tokens, Limiter!Stages
<1> QED
  BY <1>1, <1>3, <1>4, RunningIsFinite DEF LimiterInv, Tokens

LEMMA CollectKeeps ==
    ASSUME LimiterInv, NEW k \in Call, Limiter!Collect(k)
    PROVE  LimiterInv'
<1> USE DEF Limiter!Collect
<1>1. Waiting'
  BY DEF LimiterInv, Waiting, Tokens
<1>2. Limiter!Running' = Limiter!Running
  BY DEF Limiter!Running, LimiterInv, Tokens
<1>3. stage' \in [Call -> Limiter!Stages]
  BY DEF LimiterInv, Tokens, Limiter!Stages
<1> QED
  BY <1>1, <1>2, <1>3 DEF LimiterInv, Tokens

LEMMA ReleaseKeeps ==
    ASSUME LimiterInv, Limiter!Release
    PROVE  LimiterInv'
<1> USE DEF Limiter!Release
<1>1. Waiting' /\ Limiter!Running' = Limiter!Running
  BY DEF LimiterInv, Waiting, Limiter!Running
<1> QED
  BY <1>1, RunningIsFinite DEF LimiterInv, Tokens

LEMMA ServeKeeps ==
    ASSUME LimiterInv, Limiter!Serve
    PROVE  LimiterInv'
  BY EnterKeeps, AcquireKeeps, ReturnKeeps, ReleaseKeeps DEF Limiter!Serve

-----------------------------------------------------------------------------
(***************************************************************************)
(* The tokens of a conversation.                                           *)
(***************************************************************************)

Origin == {"p", "g", "t"}
Bit == {0, 1}

\* After the prompt come the tokens the mask tells apart.
Content(n, ids, mask) ==
    /\ ids \in Seq(Origin) /\ mask \in Seq(Bit)
    /\ Len(ids) = n + Len(mask)
    /\ \A i \in 1..n : ids[i] = "p"
    /\ \A i \in 1..Len(mask) : mask[i] = (IF ids[n + i] = "g" THEN 1 ELSE 0)

\* A sequence of k times x.
LEMMA Repeated ==
    ASSUME NEW S, NEW x \in S, NEW k \in Nat
    PROVE  /\ [i \in 1..k |-> x] \in Seq(S) /\ Len([i \in 1..k |-> x]) = k
           /\ \A i \in 1..k : [j \in 1..k |-> x][i] = x
  OBVIOUS

LEMMA Joined ==
    ASSUME NEW S, NEW a \in Seq(S), NEW b \in Seq(S)
    PROVE  /\ a \o b \in Seq(S) /\ Len(a \o b) = Len(a) + Len(b)
           /\ Len(a) \in Nat /\ Len(b) \in Nat
           /\ \A i \in 1..Len(a) : (a \o b)[i] = a[i]
           /\ \A i \in 1..Len(b) : (a \o b)[Len(a) + i] = b[i]
  OBVIOUS

\* Tokens of one origin are appended, with their mask.
LEMMA ContentGrows ==
    ASSUME NEW n \in Nat, NEW ids, NEW mask, Content(n, ids, mask),
           NEW x \in {"g", "t"}, NEW b, b = (IF x = "g" THEN 1 ELSE 0), NEW k \in Nat \ {0}
    PROVE  /\ Content(n, ids \o [i \in 1..k |-> x], mask \o [i \in 1..k |-> b])
           /\ mask \o [i \in 1..k |-> b] # <<>>
<1> DEFINE X == [i \in 1..k |-> x]
           B == [i \in 1..k |-> b]
<1>1. /\ X \in Seq(Origin) /\ Len(X) = k /\ \A i \in 1..k : X[i] = x
      /\ B \in Seq(Bit) /\ Len(B) = k /\ \A i \in 1..k : B[i] = b
  BY DEF Origin, Bit
<1> HIDE DEF X, B
<1>2. ids \in Seq(Origin) /\ mask \in Seq(Bit)
  BY DEF Content
<1>10. ids \in Seq(Origin) /\ X \in Seq(Origin)
  BY <1>1, <1>2
<1>11. mask \in Seq(Bit) /\ B \in Seq(Bit)
  BY <1>1, <1>2
<1>3. /\ ids \o X \in Seq(Origin) /\ Len(ids \o X) = Len(ids) + k /\ Len(ids) \in Nat
      /\ \A i \in 1..Len(ids) : (ids \o X)[i] = ids[i]
      /\ \A i \in 1..k : (ids \o X)[Len(ids) + i] = x
  <2>1. /\ ids \o X \in Seq(Origin) /\ Len(ids \o X) = Len(ids) + Len(X)
        /\ Len(ids) \in Nat
        /\ \A i \in 1..Len(ids) : (ids \o X)[i] = ids[i]
        /\ \A i \in 1..Len(X) : (ids \o X)[Len(ids) + i] = X[i]
    BY <1>10, Joined
  <2> QED
    BY <1>1, <2>1
<1>4. /\ mask \o B \in Seq(Bit) /\ Len(mask \o B) = Len(mask) + k /\ Len(mask) \in Nat
      /\ \A i \in 1..Len(mask) : (mask \o B)[i] = mask[i]
      /\ \A i \in 1..k : (mask \o B)[Len(mask) + i] = b
  <2>1. /\ mask \o B \in Seq(Bit) /\ Len(mask \o B) = Len(mask) + Len(B)
        /\ Len(mask) \in Nat
        /\ \A i \in 1..Len(mask) : (mask \o B)[i] = mask[i]
        /\ \A i \in 1..Len(B) : (mask \o B)[Len(mask) + i] = B[i]
    BY <1>11, Joined
  <2> QED
    BY <1>1, <2>1
<1>5. Len(ids) = n + Len(mask)
  BY DEF Content
<1>6. \A i \in 1..n : (ids \o X)[i] = "p"
  BY <1>3, <1>4, <1>5 DEF Content
<1>7. \A i \in 1..Len(mask \o B) :
          (mask \o B)[i] = (IF (ids \o X)[n + i] = "g" THEN 1 ELSE 0)
  <2> SUFFICES ASSUME NEW i \in 1..Len(mask \o B)
               PROVE  (mask \o B)[i] = (IF (ids \o X)[n + i] = "g" THEN 1 ELSE 0)
    OBVIOUS
  <2>1. CASE i <= Len(mask)
    <3>1. i \in 1..Len(mask) /\ n + i \in 1..Len(ids)
      BY <1>3, <1>4, <1>5, <2>1
    <3>2. (mask \o B)[i] = mask[i] /\ (ids \o X)[n + i] = ids[n + i]
      BY <1>3, <1>4, <3>1
    <3> QED
      BY <3>1, <3>2 DEF Content
  <2>2. CASE ~(i <= Len(mask))
    <3>1. i - Len(mask) \in 1..k /\ i = Len(mask) + (i - Len(mask))
          /\ n + i = Len(ids) + (i - Len(mask))
      BY <1>3, <1>4, <1>5, <2>2
    <3>2. (mask \o B)[i] = b
      BY <1>4, <3>1
    <3>3. (ids \o X)[n + i] = x
      BY <1>3, <3>1
    <3> QED
      BY <3>2, <3>3
  <2> QED
    BY <2>1, <2>2
<1>8. Content(n, ids \o X, mask \o B)
  BY <1>3, <1>4, <1>5, <1>6, <1>7 DEF Content
<1>9. mask \o B # <<>>
  BY <1>4
<1> QED
  BY <1>8, <1>9 DEF X, B

\* A piece of a sequence.
LEMMA Piece ==
    ASSUME NEW S, NEW q \in Seq(S), NEW a \in Nat \ {0}, NEW b \in Nat, a <= b + 1, b <= Len(q)
    PROVE  /\ SubSeq(q, a, b) \in Seq(S) /\ Len(SubSeq(q, a, b)) = b - a + 1
           /\ \A i \in 1..b - a + 1 : SubSeq(q, a, b)[i] = q[a + i - 1]
  OBVIOUS

LEMMA LeastOfTwo ==
    ASSUME NEW a \in Nat, NEW b \in Nat
    PROVE  Min({a, b}) = (IF a <= b THEN a ELSE b)
<1> DEFINE P(x) == x \in {a, b} /\ \A y \in {a, b} : x <= y
<1>1. \E x : P(x)
  <2>1. CASE a <= b
    BY <2>1
  <2>2. CASE b <= a
    BY <2>2
  <2> QED
    BY <2>1, <2>2
<1>2. P(CHOOSE x : P(x))
  BY <1>1, Zenon
<1>3. Min({a, b}) = CHOOSE x : P(x)
  BY DEF Min
<1> QED
  BY <1>2, <1>3

\* How much of a sequence is kept.
Kept(q) == IF ResponseLength <= Len(q) THEN ResponseLength ELSE Len(q)

\* A sequence cut and padded to the length of the responses.
LEMMA CutAndPadded ==
    ASSUME NEW S, NEW q \in Seq(S), NEW x
    PROVE  /\ Len(Cut(q)) = Kept(q)
           /\ Len(Padded(Cut(q), ResponseLength, x)) = ResponseLength
           /\ \A i \in 1..Kept(q) : Padded(Cut(q), ResponseLength, x)[i] = q[i]
           /\ \A i \in Kept(q) + 1..ResponseLength : Padded(Cut(q), ResponseLength, x)[i] = x
<1> DEFINE n == Kept(q)
           pad == [i \in 1..ResponseLength - n |-> x]
<1>1. ResponseLength \in Nat \ {0} /\ Len(q) \in Nat /\ n \in Nat /\ n <= Len(q) /\ n <= ResponseLength
  BY LengthAssumption DEF Kept
<1>2. Cut(q) = SubSeq(q, 1, n)
  BY <1>1, LeastOfTwo DEF Cut, Kept
<1>3. Cut(q) \in Seq(S) /\ Len(Cut(q)) = n /\ \A i \in 1..n : Cut(q)[i] = q[i]
  BY <1>1, <1>2, Piece
<1>4. pad \in Seq({x}) /\ Len(pad) = ResponseLength - n
      /\ \A i \in 1..ResponseLength - n : pad[i] = x
  BY <1>1
<1>5. Padded(Cut(q), ResponseLength, x) = Cut(q) \o pad
  BY <1>3 DEF Padded
<1> HIDE DEF pad, n
<1>6. Cut(q) \in Seq(S \cup {x}) /\ pad \in Seq(S \cup {x})
  BY <1>3, <1>4
<1>7. /\ Cut(q) \o pad \in Seq(S \cup {x}) /\ Len(Cut(q) \o pad) = n + (ResponseLength - n)
      /\ \A i \in 1..n : (Cut(q) \o pad)[i] = Cut(q)[i]
      /\ \A i \in 1..ResponseLength - n : (Cut(q) \o pad)[n + i] = pad[i]
  <2>1. /\ Cut(q) \o pad \in Seq(S \cup {x})
        /\ Len(Cut(q) \o pad) = Len(Cut(q)) + Len(pad)
        /\ \A i \in 1..Len(Cut(q)) : (Cut(q) \o pad)[i] = Cut(q)[i]
        /\ \A i \in 1..Len(pad) : (Cut(q) \o pad)[Len(Cut(q)) + i] = pad[i]
    BY <1>6, Joined
  <2> QED
    BY <1>3, <1>4, <2>1
<1>8. \A i \in n + 1..ResponseLength : (Cut(q) \o pad)[i] = x
  <2> SUFFICES ASSUME NEW i \in n + 1..ResponseLength PROVE (Cut(q) \o pad)[i] = x
    OBVIOUS
  <2>1. i - n \in 1..ResponseLength - n /\ i = n + (i - n)
    BY <1>1
  <2> QED
    BY <1>4, <1>7, <2>1
<1>9. /\ Len(Cut(q)) = n
      /\ Len(Padded(Cut(q), ResponseLength, x)) = ResponseLength
      /\ \A i \in 1..n : Padded(Cut(q), ResponseLength, x)[i] = q[i]
      /\ \A i \in n + 1..ResponseLength : Padded(Cut(q), ResponseLength, x)[i] = x
  BY <1>1, <1>3, <1>5, <1>7, <1>8
<1> QED
  BY <1>9 DEF n

\* What OnlyGeneratedTokensTrain says of a row.
RowIsRight(c, r) ==
    /\ r.prompt = [i \in 1..PromptOf[c] |-> "p"]
    /\ Len(r.response) = ResponseLength /\ Len(r.mask) = ResponseLength
    /\ \A i \in 1..ResponseLength :
          /\ r.mask[i] = (IF r.response[i] = "g" THEN 1 ELSE 0)
          /\ r.response[i] =
                (IF PromptOf[c] + i <= Len(chat[c].ids)
                 THEN chat[c].ids[PromptOf[c] + i] ELSE "pad")

LEMMA RowsAreRight ==
    ASSUME NEW c \in Conv, Content(PromptOf[c], chat[c].ids, chat[c].mask), chat[c].mask # <<>>
    PROVE  RowIsRight(c, Row(chat[c]))
<1> DEFINE ids == chat[c].ids
           mask == chat[c].mask
           p == PromptOf[c]
           n == Len(mask)
           last == LastTokens(ids, n)
           m == IF ResponseLength <= n THEN ResponseLength ELSE n
           response == Padded(Cut(last), ResponseLength, "pad")
           padded == Padded(Cut(mask), ResponseLength, PadId)
           row1 == Row(chat[c])
<1>1. /\ p \in Nat \ {0} /\ ResponseLength \in Nat \ {0} /\ PadId \in Nat
  BY ConvAssumption, LengthAssumption
<1>2. /\ ids \in Seq(Origin) /\ mask \in Seq(Bit) /\ n \in Nat \ {0}
      /\ Len(ids) = p + n
      /\ \A i \in 1..p : ids[i] = "p"
      /\ \A i \in 1..n : mask[i] = (IF ids[p + i] = "g" THEN 1 ELSE 0)
  BY DEF Content
<1>3. last = SubSeq(ids, p + 1, p + n)
  <2>1. Len(ids) - n + 1 = p + 1 /\ Len(ids) = p + n /\ n # 0
    BY <1>1, <1>2
  <2> QED
    BY <2>1 DEF LastTokens
<1>4. last \in Seq(Origin) /\ Len(last) = n /\ \A i \in 1..n : last[i] = ids[p + i]
  <2>1. p + 1 \in Nat \ {0} /\ p + n \in Nat /\ p + 1 <= p + n + 1 /\ p + n <= Len(ids)
    BY <1>1, <1>2
  <2>2. /\ last \in Seq(Origin) /\ Len(last) = p + n - (p + 1) + 1
        /\ \A i \in 1..p + n - (p + 1) + 1 : last[i] = ids[p + 1 + i - 1]
    <3>1. ids \in Seq(Origin) /\ last = SubSeq(ids, p + 1, p + n)
      BY <1>2, <1>3
    <3>3. p \in Nat /\ n \in Nat
      BY <1>1, <1>2
    <3> HIDE DEF last, ids, p, n
    <3>2. \A a \in Nat \ {0}, b \in Nat : a <= b + 1 /\ b <= Len(ids) =>
              /\ SubSeq(ids, a, b) \in Seq(Origin) /\ Len(SubSeq(ids, a, b)) = b - a + 1
              /\ \A i \in 1..b - a + 1 : SubSeq(ids, a, b)[i] = ids[a + i - 1]
      BY <3>1, Piece
    <3> QED
      BY <2>1, <3>1, <3>2, <3>3
  <2>3. p + n - (p + 1) + 1 = n /\ \A i \in 1..n : p + 1 + i - 1 = p + i
    BY <1>1, <1>2
  <2> HIDE DEF last
  <2> QED
    BY <2>2, <2>3
<1>5. /\ row1.prompt = SubSeq(ids, 1, p) /\ row1.response = response
      /\ row1.mask = [i \in 1..ResponseLength |->
                        padded[i] * (IF i <= Len(Cut(last)) THEN 1 ELSE 0)]
  BY <1>1, <1>2 DEF Row
<1> HIDE DEF row1, response, padded, last
<1>6. row1.prompt = [i \in 1..p |-> "p"]
  <2>1. SubSeq(ids, 1, p) \in Seq(Origin) /\ Len(SubSeq(ids, 1, p)) = p
        /\ \A i \in 1..p : SubSeq(ids, 1, p)[i] = ids[i]
    BY <1>1, <1>2, Piece
  <2> QED
    BY <1>2, <1>5, <2>1
<1>7. /\ Len(Cut(last)) = m /\  Len(response) = ResponseLength
      /\ \A i \in 1..m : response[i] = last[i]
      /\ \A i \in m + 1..ResponseLength : response[i] = "pad"
  <2>1. n = Len(last)
    BY <1>4
  <2>2. /\ Len(Cut(last)) = Kept(last)
        /\  Len(response) = ResponseLength
        /\ \A i \in 1..Kept(last) : response[i] = last[i]
        /\ \A i \in Kept(last) + 1..ResponseLength : response[i] = "pad"
    <3>1. last \in Seq(Origin)
      BY <1>4
    <3>2. response = Padded(Cut(last), ResponseLength, "pad")
      BY DEF response
    <3> HIDE DEF response
    <3>3. /\ Len(Cut(last)) = Kept(last)
          /\ Len(Padded(Cut(last), ResponseLength, "pad")) = ResponseLength
          /\ \A i \in 1..Kept(last) : Padded(Cut(last), ResponseLength, "pad")[i] = last[i]
          /\ \A i \in Kept(last) + 1..ResponseLength : Padded(Cut(last), ResponseLength, "pad")[i] = "pad"
      BY <3>1, CutAndPadded, Zenon
    <3> QED
      BY <3>2, <3>3, Zenon
  <2> QED
    BY <2>1, <2>2 DEF Kept
<1>8. /\ \A i \in 1..m : padded[i] = mask[i]
      /\ \A i \in m + 1..ResponseLength : padded[i] = PadId
  <2>1. /\ Len(Cut(mask)) = Kept(mask)
        /\ Len(padded) = ResponseLength
        /\ \A i \in 1..Kept(mask) : padded[i] = mask[i]
        /\ \A i \in Kept(mask) + 1..ResponseLength : padded[i] = PadId
    <3>1. mask \in Seq(Bit)
      BY <1>2
    <3> HIDE DEF mask
    <3>2. padded = Padded(Cut(mask), ResponseLength, PadId)
      BY DEF padded
    <3> HIDE DEF padded
    <3>3. /\ Len(Cut(mask)) = Kept(mask)
          /\ Len(Padded(Cut(mask), ResponseLength, PadId)) = ResponseLength
          /\ \A i \in 1..Kept(mask) : Padded(Cut(mask), ResponseLength, PadId)[i] = mask[i]
          /\ \A i \in Kept(mask) + 1..ResponseLength : Padded(Cut(mask), ResponseLength, PadId)[i] = PadId
      BY <3>1, CutAndPadded, Zenon
    <3> QED
      BY <3>2, <3>3, Zenon
  <2> QED
    BY <2>1 DEF Kept
<1>9. ASSUME NEW i \in 1..ResponseLength
      PROVE  /\ row1.mask[i] = (IF row1.response[i] = "g" THEN 1 ELSE 0)
             /\ row1.response[i] = (IF p + i <= Len(ids) THEN ids[p + i] ELSE "pad")
  <2>1. row1.mask[i] = padded[i] * (IF i <= m THEN 1 ELSE 0)
    BY <1>5, <1>7
  <2>2. CASE i <= m
    <3>1. i \in 1..m /\ i \in 1..n /\ p + i <= Len(ids)
      BY <1>1, <1>2, <2>2
    <3>2. response[i] = ids[p + i] /\ padded[i] = mask[i] /\ mask[i] \in {0, 1}
      BY <1>2, <1>4, <1>7, <1>8, <3>1
    <3>3. row1.mask[i] = mask[i]
      BY <2>1, <2>2, <3>2
    <3> QED
      BY <1>2, <1>5, <3>1, <3>2, <3>3
  <2>3. CASE ~(i <= m)
    <3>1. i \in m + 1..ResponseLength /\ ~(p + i <= Len(ids)) /\ ~(i <= m)
      BY <1>1, <1>2, <2>3
    <3>2. response[i] = "pad" /\ padded[i] = PadId
      BY <1>7, <1>8, <3>1
    <3>3. row1.mask[i] = 0
      BY <1>1, <2>1, <3>1, <3>2
    <3> QED
      BY <1>5, <3>1, <3>2, <3>3
  <2> QED
    BY <2>2, <2>3
<1>10. Len(row1.mask) = ResponseLength
  BY <1>1, <1>5
<1> QED
  BY <1>5, <1>6, <1>7, <1>9, <1>10 DEF RowIsRight, row1

-----------------------------------------------------------------------------
(***************************************************************************)
(* The inductive invariant.                                                *)
(***************************************************************************)

Ids == Seq(Origin)
Masks == Seq(Bit)
Answers == Seq(Kinds)

Chat == [pc : {"new", "sent", "tools", "over", "raised"},
         ids : Ids, mask : Masks, user : Nat, assistant : Nat,
         server : Servers \cup {None}, kinds : Answers,
         left : SUBSET (1..MaxParallel), error : BOOLEAN]

\* What a task holds: the tokens and their mask agree, a request is sent only
\* while the response is short, and what is over has a response.
ChatOK(c, ch) ==
    /\ ch \in Chat
    /\ Content(PromptOf[c], ch.ids, ch.mask)
    /\ ch.pc \in {"new", "sent"} => Len(ch.mask) < ResponseLength
    /\ ch.pc \in {"tools", "over"} => ch.mask # <<>>

ChatInv == DOMAIN chat = Conv /\ \A c \in Conv : ChatOK(c, chat[c])

\* A call that is under way is one a task waits for.
CallsAreTheirs ==
    \A c \in Conv, i \in 1..MaxParallel :
        stage[<<c, i>>] # "idle" => chat[c].pc = "tools" /\ i \in chat[c].left

Phases ==
    /\ manager \in {"idle", "waiting", "done", "failed"}
    /\ manager = "idle" => \A c \in Conv : chat[c].pc = "new"
    /\ manager \in {"waiting", "failed"} => awake
    /\ manager = "done" => \A c \in Conv : chat[c].pc = "over"

Rows == \A c \in Conv : row[c] # None => chat[c].pc = "over" /\ row[c] = Row(chat[c])

IInv == ChatInv /\ CallsAreTheirs /\ Phases /\ Rows /\ LimiterInv

LEMMA InitHolds == Init => IInv
<1> SUFFICES ASSUME Init PROVE IInv
  OBVIOUS
<1> USE DEF Init
<1>1. ChatInv
  <2> SUFFICES ASSUME NEW c \in Conv PROVE ChatOK(c, Fresh(c))
    BY DEF ChatInv
  <2>1. /\ Fresh(c).pc = "new" /\ Fresh(c).mask = <<>>
        /\ Fresh(c).ids = [i \in 1..PromptOf[c] |-> "p"]
    BY DEF Fresh
  <2>2. PromptOf[c] \in Nat /\ ResponseLength \in Nat \ {0}
    BY ConvAssumption, LengthAssumption
  <2>3. Fresh(c).ids \in Seq(Origin) /\ Len(Fresh(c).ids) = PromptOf[c]
        /\ \A i \in 1..PromptOf[c] : Fresh(c).ids[i] = "p"
    BY <2>1, <2>2 DEF Origin
  <2>4. Content(PromptOf[c], Fresh(c).ids, Fresh(c).mask)
    BY <2>1, <2>2, <2>3 DEF Content
  <2>5. Fresh(c) \in Chat
      BY <2>3 DEF Fresh, Chat, Ids, Masks, Answers
  <2> QED
    BY <2>1, <2>2, <2>4, <2>5 DEF ChatOK
<1>2. CallsAreTheirs
  BY DEF CallsAreTheirs, Limiter!InitLimiter, Call
<1>3. Phases /\ Rows
  BY DEF Phases, Rows, Fresh
<1>4. LimiterInv
  <2>1. Limiter!Running = {}
    BY DEF Limiter!Running, Limiter!InitLimiter
  <2>2. Cardinality(Limiter!Running) = 0
    BY <2>1, FS_EmptySet
  <2>3. Tokens
    BY <2>2 DEF Tokens, Limiter!InitLimiter, Limiter!Stages
  <2>4. Waiting
    BY DEF Waiting, Limiter!InitLimiter
  <2> QED
    BY <2>3, <2>4 DEF LimiterInv
<1> QED
  BY <1>1, <1>2, <1>3, <1>4 DEF IInv

\* What a conversation keeps when only the task's place in the loop changes.
LEMMA Moved ==
    ASSUME NEW c \in Conv, NEW ch, ChatOK(c, ch),
           NEW pc \in {"new", "sent", "tools", "over", "raised"}, NEW new \in Chat,
           new.pc = pc, new.ids = ch.ids, new.mask = ch.mask,
           pc \in {"new", "sent"} => Len(ch.mask) < ResponseLength,
           pc \in {"tools", "over"} => ch.mask # <<>>
    PROVE  ChatOK(c, new)
  BY DEF ChatOK

\* One task makes a step, which leaves the outputs and the manager alone.
LEMMA TaskSteps ==
    ASSUME IInv, NEW c \in Conv, NEW new, ChatOK(c, new),
           chat' = [chat EXCEPT ![c] = new], UNCHANGED <<manager, awake, row>>,
           manager # "idle", chat[c].pc # "over"
    PROVE  ChatInv' /\ Phases' /\ Rows'
<1>1. /\ chat'[c] = new /\ DOMAIN chat' = Conv
      /\ \A d \in Conv : d # c => chat'[d] = chat[d]
  BY DEF IInv, ChatInv
<1>2. ChatInv'
  <2> SUFFICES ASSUME NEW d \in Conv PROVE ChatOK(d, chat'[d])
    BY <1>1 DEF ChatInv
  <2> QED
    BY <1>1 DEF IInv, ChatInv
<1>3. Phases'
  BY DEF IInv, Phases
<1>4. Rows'
  <2> SUFFICES ASSUME NEW d \in Conv, row[d] # None
               PROVE  chat'[d].pc = "over" /\ row[d] = Row(chat'[d])
    BY DEF Rows
  <2>1. d # c
    BY DEF IInv, Rows
  <2> QED
    BY <1>1, <2>1 DEF IInv, Rows
<1> QED
  BY <1>2, <1>3, <1>4

LEMMA LimiterRests ==
    ASSUME LimiterInv, UNCHANGED limiter
    PROVE  LimiterInv'
<1>1. Limiter!Running' = Limiter!Running
  BY DEF limiter, Limiter!Running
<1> QED
  BY <1>1 DEF LimiterInv, Waiting, Tokens, limiter

\* A task that waits for no call makes a step that makes none.
LEMMA NoCall ==
    ASSUME IInv, NEW c \in Conv, NEW new, chat' = [chat EXCEPT ![c] = new],
           stage' = stage, chat[c].pc # "tools" \/ chat[c].left = {}
    PROVE  CallsAreTheirs'
<1>1. \A d \in Conv : d # c => chat'[d] = chat[d]
  BY DEF IInv, ChatInv
<1>2. \A i \in 1..MaxParallel : stage[<<c, i>>] = "idle"
  BY DEF IInv, CallsAreTheirs
<1> QED
  BY <1>1, <1>2 DEF IInv, CallsAreTheirs

-----------------------------------------------------------------------------
(***************************************************************************)
(* The actions.                                                            *)
(***************************************************************************)

LEMMA BeginKeeps == ASSUME IInv, Begin PROVE IInv'
<1> USE DEF Begin, IInv
<1>1. LimiterInv'
  BY LimiterRests
<1>2. ChatInv' /\ CallsAreTheirs'
  BY DEF ChatInv, CallsAreTheirs, limiter
<1>3. Phases' /\ Rows'
  BY DEF Phases, Rows
<1> QED
  BY <1>1, <1>2, <1>3

LEMMA FinishKeeps == ASSUME IInv, Finish PROVE IInv'
<1> USE DEF Finish, IInv
<1>1. LimiterInv'
  BY LimiterRests
<1>2. ChatInv' /\ CallsAreTheirs'
  BY DEF ChatInv, CallsAreTheirs, limiter
<1>3. Phases' /\ Rows'
  BY DEF Phases, Rows
<1> QED
  BY <1>1, <1>2, <1>3

LEMMA FailKeeps == ASSUME IInv, Fail PROVE IInv'
<1> USE DEF Fail, IInv
<1>1. LimiterInv'
  BY LimiterRests
<1>2. ChatInv' /\ CallsAreTheirs'
  BY DEF ChatInv, CallsAreTheirs, limiter
<1>3. Phases' /\ Rows'
  BY DEF Phases, Rows
<1> QED
  BY <1>1, <1>2, <1>3

LEMMA PostprocessKeeps == ASSUME IInv, NEW w \in Worker, Postprocess(w) PROVE IInv'
<1> USE DEF Postprocess, IInv
<1>1. LimiterInv'
  BY LimiterRests
<1>2. ChatInv' /\ CallsAreTheirs' /\ Phases'
  BY DEF ChatInv, CallsAreTheirs, Phases, limiter
<1>3. Rows'
  BY DEF Rows, Of
<1> QED
  BY <1>1, <1>2, <1>3

\* A request is sent for what a task holds.
LEMMA RequestMoves ==
    ASSUME NEW c \in Conv, NEW ch, ChatOK(c, ch), Len(ch.mask) < ResponseLength,
           NEW s \in Servers
    PROVE  ChatOK(c, [ch EXCEPT !.pc = "sent", !.server = s])
<1> DEFINE new == [ch EXCEPT !.pc = "sent", !.server = s]
<1>1. ch \in Chat
  BY DEF ChatOK
<1>2. new \in Chat /\ new.pc = "sent" /\ new.ids = ch.ids /\ new.mask = ch.mask
  BY <1>1 DEF Chat
<1> HIDE DEF new
<1>3. ChatOK(c, new)
  BY <1>2, Moved
<1> QED
  BY <1>3 DEF new

LEMMA StartKeeps == ASSUME IInv, NEW c \in Conv, Start(c) PROVE IInv'
<1>1. PICK s \in Servers : chat' = [chat EXCEPT ![c] = [chat[c] EXCEPT !.pc = "sent", !.server = s]]
  BY DEF Start, Request
<1> DEFINE new == [chat[c] EXCEPT !.pc = "sent", !.server = s]
<1>2. ChatOK(c, chat[c]) /\ Len(chat[c].mask) < ResponseLength
  BY DEF Start, IInv, ChatInv, ChatOK
<1>3. ChatOK(c, new)
  BY <1>2, RequestMoves
<1>4. chat' = [chat EXCEPT ![c] = new]
  BY <1>1
<1> HIDE DEF new
<1>5. ChatInv' /\ Phases' /\ Rows'
  BY <1>3, <1>4, TaskSteps DEF Start
<1>6. CallsAreTheirs'
  BY <1>4, NoCall DEF Start, limiter
<1>7. LimiterInv'
  BY LimiterRests DEF Start, IInv
<1> QED
  BY <1>5, <1>6, <1>7 DEF IInv

LEMMA ServerRaisesKeeps == ASSUME IInv, NEW c \in Conv, ServerRaises(c) PROVE IInv'
<1> DEFINE new == [chat[c] EXCEPT !.pc = "raised"]
<1>1. ChatOK(c, chat[c])
  BY DEF IInv, ChatInv
<1>2. chat' = [chat EXCEPT ![c] = new]
  BY <1>1 DEF ServerRaises, IInv, ChatInv
<1>3. new \in Chat /\ new.pc = "raised" /\ new.ids = chat[c].ids /\ new.mask = chat[c].mask
  BY <1>1 DEF ChatOK, Chat
<1> HIDE DEF new
<1>4. ChatOK(c, new)
  BY <1>1, <1>3, Moved
<1>5. manager # "idle" /\ chat[c].pc = "sent"
  BY DEF ServerRaises, IInv, Phases
<1>6. ChatInv' /\ Phases' /\ Rows'
  BY <1>2, <1>4, <1>5, TaskSteps DEF ServerRaises
<1>7. CallsAreTheirs'
  BY <1>2, <1>5, NoCall DEF ServerRaises, limiter
<1>8. LimiterInv'
  BY LimiterRests DEF ServerRaises, IInv
<1> QED
  BY <1>6, <1>7, <1>8 DEF IInv

LEMMA StartToolsKeeps == ASSUME IInv, NEW c \in Conv, StartTools(c) PROVE IInv'
<1>1. PICK tool \in Tool : Limiter!StartPool(<<WorkerOf[c], tool>>)
  BY DEF StartTools
<1>2. <<WorkerOf[c], tool>> \in Pool
  BY ConvAssumption DEF Pool
<1>3. LimiterInv'
  BY <1>1, <1>2, StartPoolKeeps DEF IInv
<1>4. stage' = stage
  BY <1>1 DEF Limiter!StartPool
<1> QED
  BY <1>3, <1>4 DEF StartTools, LoopVars, IInv, ChatInv, CallsAreTheirs, Phases, Rows

\* A conversation has an answer more.
LEMMA AnswerGrows ==
    ASSUME IInv, NEW c \in Conv, NEW n \in Lengths(c)
    PROVE  /\ Answered(c, n) \in Chat
           /\ Content(PromptOf[c], Answered(c, n).ids, Answered(c, n).mask)
           /\ Answered(c, n).mask # <<>>
<1> DEFINE X == [i \in 1..n |-> "g"]
           B == [i \in 1..n |-> 1]
<1>1. chat[c] \in Chat /\ Content(PromptOf[c], chat[c].ids, chat[c].mask)
  BY DEF IInv, ChatInv, ChatOK
<1>2. n \in Nat \ {0} /\ PromptOf[c] \in Nat
  BY ConvAssumption DEF Lengths
<1>3. /\ Content(PromptOf[c], chat[c].ids \o X, chat[c].mask \o B)
      /\ chat[c].mask \o B # <<>>
  BY <1>1, <1>2, ContentGrows
<1> HIDE DEF X, B
<1>4. chat[c].ids \o X \in Seq(Origin) /\ chat[c].mask \o B \in Seq(Bit)
  BY <1>3 DEF Content
<1>5. Answered(c, n) = [chat[c] EXCEPT !.ids = chat[c].ids \o X,
                                       !.mask = chat[c].mask \o B,
                                       !.assistant = chat[c].assistant + 1]
  BY DEF Answered, X, B
<1>6. /\ Answered(c, n) \in Chat
      /\ Answered(c, n).ids = chat[c].ids \o X /\ Answered(c, n).mask = chat[c].mask \o B
  <2>1. chat[c].assistant + 1 \in Nat
    BY <1>1 DEF Chat
  <2> DEFINE a == chat[c].ids \o X
             b == chat[c].mask \o B
             k == chat[c].assistant + 1
  <2>2. chat[c] \in Chat /\ a \in Ids /\ b \in Masks /\ k \in Nat
    BY <1>1, <1>4, <2>1 DEF Ids, Masks
  <2>3. Answered(c, n) = [chat[c] EXCEPT !.ids = a, !.mask = b, !.assistant = k]
    BY <1>5
  <2> HIDE DEF a, b, k
  <2>4. /\ Answered(c, n) \in Chat
        /\ Answered(c, n).ids = a /\ Answered(c, n).mask = b
    BY <2>2, <2>3 DEF Chat
  <2> QED
    BY <2>4 DEF a, b
<1> QED
  BY <1>3, <1>6

LEMMA LastAnswerKeeps == ASSUME IInv, NEW c \in Conv, LastAnswer(c) PROVE IInv'
<1>1. PICK n \in Lengths(c) : chat' = [chat EXCEPT ![c] = [Answered(c, n) EXCEPT !.pc = "over"]]
  BY DEF LastAnswer
<1> DEFINE new == [Answered(c, n) EXCEPT !.pc = "over"]
<1>2. /\ Answered(c, n) \in Chat /\ Answered(c, n).mask # <<>>
      /\ Content(PromptOf[c], Answered(c, n).ids, Answered(c, n).mask)
  BY AnswerGrows
<1>3. /\ new \in Chat /\ new.pc = "over"
      /\ new.ids = Answered(c, n).ids /\ new.mask = Answered(c, n).mask
  BY <1>2 DEF Chat
<1>4. chat' = [chat EXCEPT ![c] = new]
  BY <1>1
<1> HIDE DEF new
<1>5. ChatOK(c, new)
  BY <1>2, <1>3 DEF ChatOK
<1>6. manager # "idle" /\ chat[c].pc = "sent"
  BY DEF LastAnswer, IInv, Phases
<1>7. ChatInv' /\ Phases' /\ Rows'
  BY <1>4, <1>5, <1>6, TaskSteps DEF LastAnswer
<1>8. CallsAreTheirs'
  BY <1>4, <1>6, NoCall DEF LastAnswer, limiter
<1>9. LimiterInv'
  BY LimiterRests DEF LastAnswer, IInv
<1> QED
  BY <1>7, <1>8, <1>9 DEF IInv

\* What an answer calls is sent to the pools; no call of the task was under
\* way before.
LEMMA CallToolsKeeps == ASSUME IInv, NEW c \in Conv, CallTools(c) PROVE IInv'
<1>1. PICK n \in Lengths(c), kinds \in UNION {[1..m -> Kinds] : m \in 1..MaxParallel} :
          LET pooled == {i \in DOMAIN kinds : kinds[i] \in Tool}
          IN  /\ ~LoopEnds(c, Answered(c, n))
              /\ chat' = [chat EXCEPT ![c] = [Answered(c, n) EXCEPT
                      !.pc = "tools", !.kinds = kinds, !.left = pooled,
                      !.error = \E i \in DOMAIN kinds : kinds[i] = "unknown"]]
              /\ Limiter!Send({<<c, i>> : i \in pooled},
                     [k \in {<<c, i>> : i \in pooled} |-> <<WorkerOf[c], kinds[k[2]]>>])
  BY DEF CallTools
<1> DEFINE pooled == {i \in DOMAIN kinds : kinds[i] \in Tool}
           calls == {<<c, i>> : i \in pooled}
           to == [k \in calls |-> <<WorkerOf[c], kinds[k[2]]>>]
           raises == \E i \in DOMAIN kinds : kinds[i] = "unknown"
           new == [Answered(c, n) EXCEPT !.pc = "tools", !.kinds = kinds,
                                         !.left = pooled, !.error = raises]
<1>2. /\ chat' = [chat EXCEPT ![c] = new]
      /\ Limiter!Send(calls, to)
  BY <1>1
<1>3. PICK m \in 1..MaxParallel : kinds \in [1..m -> Kinds]
  OBVIOUS
<1>4. pooled \subseteq 1..MaxParallel /\ kinds \in Answers /\ raises \in BOOLEAN
  <2>1. MaxParallel \in Nat /\ m \in Nat /\ m <= MaxParallel
    BY LengthAssumption
  <2>2. kinds \in Answers
    BY <1>3, <2>1 DEF Answers
  <2> QED
    BY <1>3, <2>1, <2>2
<1>5. calls \in SUBSET Call
  BY <1>4 DEF Call
<1>6. \A k \in calls : stage[k] = "idle"
  BY <1>4 DEF CallTools, IInv, CallsAreTheirs
<1>7. LimiterInv'
  BY <1>2, <1>5, <1>6, SendKeeps DEF IInv
<1>8. \A d \in Conv, i \in 1..MaxParallel :
          stage'[<<d, i>>] # "idle" =>
              (d = c /\ i \in pooled) \/ (d # c /\ stage[<<d, i>>] # "idle")
  <2> SUFFICES ASSUME NEW d \in Conv, NEW i \in 1..MaxParallel, stage'[<<d, i>>] # "idle"
               PROVE  (d = c /\ i \in pooled) \/ (d # c /\ stage[<<d, i>>] # "idle")
    OBVIOUS
  <2>1. <<d, i>> \in Call
    BY DEF Call
  <2>2. CASE <<d, i>> \in calls
    BY <2>2
  <2>3. CASE <<d, i>> \notin calls
    <3>1. stage'[<<d, i>>] = stage[<<d, i>>]
      BY <1>2, <2>1, <2>3 DEF Limiter!Send
    <3>2. d # c
      BY <3>1 DEF CallTools, IInv, CallsAreTheirs
    <3> QED
      BY <3>1, <3>2
  <2> QED
    BY <2>2, <2>3
<1>9. /\ Answered(c, n) \in Chat /\ Answered(c, n).mask # <<>>
      /\ Content(PromptOf[c], Answered(c, n).ids, Answered(c, n).mask)
  BY AnswerGrows
<1> HIDE DEF pooled, calls, to, raises
<1>10. /\ new \in Chat /\ new.pc = "tools" /\ new.left = pooled
       /\ new.ids = Answered(c, n).ids /\ new.mask = Answered(c, n).mask
  BY <1>4, <1>9 DEF Chat
<1> HIDE DEF new
<1>11. ChatOK(c, new)
  BY <1>9, <1>10 DEF ChatOK
<1>12. manager # "idle" /\ chat[c].pc = "sent"
  BY DEF CallTools, IInv, Phases
<1>13. ChatInv' /\ Phases' /\ Rows'
  BY <1>2, <1>11, <1>12, TaskSteps DEF CallTools
<1>14. CallsAreTheirs'
  BY <1>2, <1>8, <1>10 DEF IInv, ChatInv, CallsAreTheirs
<1> QED
  BY <1>7, <1>13, <1>14 DEF IInv

\* The call a task waited for is the one that becomes idle.
LEMMA ToolOverKeeps ==
    ASSUME IInv, NEW c \in Conv, NEW i \in 1..MaxParallel, ToolOver(c, i)
    PROVE  IInv'
<1> DEFINE error == chat[c].error \/ Raises(chat[c].kinds[i], stage[<<c, i>>])
           new == [chat[c] EXCEPT !.left = @ \ {i}, !.error = error]
<1>1. ChatOK(c, chat[c]) /\ chat[c].pc = "tools"
  BY DEF IInv, ChatInv, CallsAreTheirs, ToolOver, Limiter!Collect
<1>2. chat' = [chat EXCEPT ![c] = new]
  BY <1>1 DEF ToolOver, IInv, ChatInv, ChatOK, Chat
<1>3. error \in BOOLEAN
  BY DEF Raises
<1> HIDE DEF error
<1>4. /\ new \in Chat /\ new.pc = "tools" /\ new.left = chat[c].left \ {i}
      /\ new.ids = chat[c].ids /\ new.mask = chat[c].mask
  BY <1>1, <1>3 DEF ChatOK, Chat
<1> HIDE DEF new
<1>5. ChatOK(c, new)
  BY <1>1, <1>4, Moved DEF ChatOK
<1>6. manager # "idle"
  BY <1>1 DEF IInv, Phases
<1>7. ChatInv' /\ Phases' /\ Rows'
  BY <1>1, <1>2, <1>5, <1>6, TaskSteps DEF ToolOver
<1>8. <<c, i>> \in Call /\ Limiter!Collect(<<c, i>>)
  BY DEF Call, ToolOver
<1>9. LimiterInv'
  BY <1>8, CollectKeeps DEF IInv
<1>10. stage' = [stage EXCEPT ![<<c, i>>] = "idle"] /\ stage \in [Call -> Limiter!Stages]
  BY <1>8 DEF Limiter!Collect, IInv, LimiterInv, Tokens
<1>11. CallsAreTheirs'
  <2> SUFFICES ASSUME NEW d \in Conv, NEW j \in 1..MaxParallel, stage'[<<d, j>>] # "idle"
               PROVE  chat'[d].pc = "tools" /\ j \in chat'[d].left
    BY DEF CallsAreTheirs
  <2>1. <<d, j>> \in Call /\ <<d, j>> # <<c, i>> /\ stage[<<d, j>>] # "idle"
    BY <1>8, <1>10 DEF Call
  <2>2. chat[d].pc = "tools" /\ j \in chat[d].left
    BY <2>1 DEF IInv, CallsAreTheirs
  <2>3. CASE d = c
    BY <1>2, <1>4, <2>1, <2>2, <2>3 DEF IInv, ChatInv
  <2>4. CASE d # c
    BY <1>2, <2>2, <2>4 DEF IInv, ChatInv
  <2> QED
    BY <2>3, <2>4
<1> QED
  BY <1>7, <1>9, <1>11 DEF IInv

\* A conversation has the tokens of the tools' messages.
LEMMA ToolTokensGrow ==
    ASSUME IInv, NEW c \in Conv, NEW n \in 1..MaxToolTokens
    PROVE  /\ WithTools(c, n) \in Chat
           /\ Content(PromptOf[c], WithTools(c, n).ids, WithTools(c, n).mask)
           /\ WithTools(c, n).mask # <<>>
<1> DEFINE X == [i \in 1..n |-> "t"]
           B == [i \in 1..n |-> 0]
           a == chat[c].ids \o X
           b == chat[c].mask \o B
           k == chat[c].user + 1
<1>1. chat[c] \in Chat /\ Content(PromptOf[c], chat[c].ids, chat[c].mask)
  BY DEF IInv, ChatInv, ChatOK
<1>2. n \in Nat \ {0} /\ PromptOf[c] \in Nat
  BY ConvAssumption
<1>3. Content(PromptOf[c], a, b) /\ b # <<>>
  BY <1>1, <1>2, ContentGrows
<1>4. WithTools(c, n) = [chat[c] EXCEPT !.ids = a, !.mask = b, !.user = k, !.kinds = <<>>]
  BY DEF WithTools
<1> HIDE DEF a, b
<1>5. a \in Ids /\ b \in Masks /\ <<>> \in Answers
  BY <1>3 DEF Content, Ids, Masks, Answers
<1>6. k \in Nat
  BY <1>1 DEF Chat
<1> HIDE DEF k
<1>7. WithTools(c, n) \in Chat /\ WithTools(c, n).ids = a /\ WithTools(c, n).mask = b
  BY <1>1, <1>4, <1>5, <1>6 DEF Chat
<1> QED
  BY <1>3, <1>7

\* The loop is over: there is a response.
LEMMA OverKeeps ==
    ASSUME IInv, NEW c \in Conv, NEW ch \in Chat, Content(PromptOf[c], ch.ids, ch.mask),
           ch.mask # <<>>, chat' = [chat EXCEPT ![c] = [ch EXCEPT !.pc = "over", !.kinds = <<>>]],
           manager # "idle", chat[c].pc = "tools", UNCHANGED <<manager, awake, row>>
    PROVE  ChatInv' /\ Phases' /\ Rows'
<1> DEFINE new == [ch EXCEPT !.pc = "over", !.kinds = <<>>]
<1>1. /\ new \in Chat /\ new.pc = "over"
      /\ new.ids = ch.ids /\ new.mask = ch.mask
  <2>1. <<>> \in Answers
    BY DEF Answers
  <2> QED
    BY <2>1 DEF Chat
<1> HIDE DEF new
<1>2. ChatOK(c, new)
  BY <1>1 DEF ChatOK
<1>3. chat' = [chat EXCEPT ![c] = new]
  BY DEF new
<1> QED
  BY <1>2, <1>3, TaskSteps

LEMMA GatheredKeeps == ASSUME IInv, NEW c \in Conv, Gathered(c) PROVE IInv'
<1>1. /\ chat[c].pc = "tools" /\ chat[c].left = {} /\ manager # "idle"
      /\ UNCHANGED <<manager, awake, row>> /\ UNCHANGED limiter
  BY DEF Gathered, IInv, Phases
<1>2. ChatOK(c, chat[c])
  BY DEF IInv, ChatInv
<1>3. LimiterInv'
  BY <1>1, LimiterRests DEF IInv
<1>4. ASSUME NEW new, chat' = [chat EXCEPT ![c] = new]
      PROVE  CallsAreTheirs'
  BY <1>1, <1>4, NoCall DEF limiter
<1>5. CASE Over(c, chat[c])
  <2>1. ChatInv' /\ Phases' /\ Rows'
    BY <1>1, <1>2, <1>5, OverKeeps DEF Over, ChatOK
  <2>2. CallsAreTheirs'
    BY <1>4, <1>5 DEF Over
  <2> QED
    BY <1>3, <2>1, <2>2 DEF IInv
<1>6. ASSUME NEW n \in 1..MaxToolTokens, Over(c, WithTools(c, n))
      PROVE  IInv'
  <2>1. ChatInv' /\ Phases' /\ Rows'
    BY <1>1, <1>6, ToolTokensGrow, OverKeeps DEF Over
  <2>2. CallsAreTheirs'
    BY <1>4, <1>6 DEF Over
  <2> QED
    BY <1>3, <2>1, <2>2 DEF IInv
<1>7. ASSUME NEW n \in 1..MaxToolTokens, ~TurnEnds(WithTools(c, n)),
             NEW s \in Servers, Request(c, WithTools(c, n), s)
      PROVE  IInv'
  <2> DEFINE ch == WithTools(c, n)
             new == [ch EXCEPT !.pc = "sent", !.server = s]
  <2>1. /\ ch \in Chat /\ Content(PromptOf[c], ch.ids, ch.mask) /\ ch.mask # <<>>
        /\ ch.mask \in Seq(Bit)
    BY ToolTokensGrow DEF Content
  <2>2. Len(ch.mask) < ResponseLength
    <3>1. Len(ch.mask) \in Nat /\ ResponseLength \in Nat
      BY <2>1, LengthAssumption
    <3> QED
      BY <1>7, <3>1 DEF TurnEnds
  <2>3. chat' = [chat EXCEPT ![c] = new]
    BY <1>7 DEF Request
  <2> HIDE DEF ch
  <2>4. ChatOK(c, ch)
    BY <2>1, <2>2 DEF ChatOK
  <2>5. ChatOK(c, new)
    BY <2>2, <2>4, RequestMoves
  <2> HIDE DEF new
  <2>6. ChatInv' /\ Phases' /\ Rows'
    BY <1>1, <2>3, <2>5, TaskSteps
  <2>7. CallsAreTheirs'
    BY <1>4, <2>3
  <2> QED
    BY <1>3, <2>6, <2>7 DEF IInv
<1> QED
  BY <1>5, <1>6, <1>7 DEF Gathered

LEMMA InvariantKept == IInv /\ [Next]_vars => IInv'
<1> SUFFICES ASSUME IInv, [Next]_vars PROVE IInv'
  OBVIOUS
<1>1. CASE Begin
  BY <1>1, BeginKeeps
<1>2. CASE Finish
  BY <1>2, FinishKeeps
<1>3. CASE Fail
  BY <1>3, FailKeeps
<1>4. ASSUME NEW w \in Worker, Postprocess(w) PROVE IInv'
  BY <1>4, PostprocessKeeps
<1>5. ASSUME NEW c \in Conv, Converse(c) PROVE IInv'
  BY <1>5, StartKeeps, ServerRaisesKeeps, LastAnswerKeeps, CallToolsKeeps, GatheredKeeps,
     ToolOverKeeps DEF Converse
<1>6. ASSUME NEW c \in Conv, StartTools(c) PROVE IInv'
  BY <1>6, StartToolsKeeps
<1>7. CASE Limiter!Serve /\ UNCHANGED LoopVars
  <2>1. LimiterInv'
    BY <1>7, ServeKeeps DEF IInv
  <2>2. CallsAreTheirs'
    <3>1. \A c \in Conv, i \in 1..MaxParallel : stage[<<c, i>>] = "idle" => stage'[<<c, i>>] = "idle"
      <4>1. stage \in [Call -> Limiter!Stages] /\ Waiting
        BY DEF IInv, LimiterInv, Tokens
      <4>2. mailbox # <<>> => stage[Head(mailbox)] = "acquiring"
        BY <4>1, TailOne DEF Waiting
      <4>3. ASSUME NEW k \in Call, Limiter!Enter(k)
            PROVE  \A x \in Call : stage[x] = "idle" => stage'[x] = "idle"
        BY <4>1, <4>3 DEF Limiter!Enter
      <4>4. ASSUME NEW k \in Call, NEW r \in {"ok", "failed"}, Limiter!Return(k, r)
            PROVE  \A x \in Call : stage[x] = "idle" => stage'[x] = "idle"
        BY <4>1, <4>4 DEF Limiter!Return
      <4>5. ASSUME Limiter!Acquire
            PROVE  \A x \in Call : stage[x] = "idle" => stage'[x] = "idle"
        BY <4>1, <4>2, <4>5 DEF Limiter!Acquire
      <4>6. ASSUME Limiter!Release
            PROVE  \A x \in Call : stage[x] = "idle" => stage'[x] = "idle"
        BY <4>6 DEF Limiter!Release
      <4>7. \A x \in Call : stage[x] = "idle" => stage'[x] = "idle"
        BY <1>7, <4>3, <4>4, <4>5, <4>6 DEF Limiter!Serve
      <4> QED
        BY <4>7 DEF Call
    <3> QED
      BY <1>7, <3>1 DEF IInv, CallsAreTheirs, LoopVars
  <2> QED
    BY <1>7, <2>1, <2>2 DEF IInv, ChatInv, Phases, Rows, LoopVars
<1>8. CASE UNCHANGED vars
  <2>1. LimiterInv'
    BY <1>8, LimiterRests DEF IInv, vars, limiter
  <2> QED
    BY <1>8, <2>1 DEF IInv, ChatInv, CallsAreTheirs, Phases, Rows, vars
<1> QED
  BY <1>1, <1>2, <1>3, <1>4, <1>5, <1>6, <1>7, <1>8 DEF Next, Quiet

LEMMA InvariantHolds == Spec => []IInv
  BY InitHolds, InvariantKept, PTL DEF Spec

-----------------------------------------------------------------------------
(***************************************************************************)
(* The cache of a worker and the loads of its servers.                     *)
(***************************************************************************)

Pair == Conv \X Servers
Pairs == Seq(Pair)

\* No conversation has two entries.
Distinct(q) == \A i, j \in DOMAIN q : q[i][1] = q[j][1] => i = j

\* A cache that can hold all conversations of the worker.
HasRoom(w) == Cardinality(Of(w)) <= CacheSize

\* An entry is the server at which a conversation of the worker is.
Belongs(w) ==
    /\ Distinct(cache[w])
    /\ \A i \in DOMAIN cache[w] :
          cache[w][i][1] \in Of(w) /\ chat[cache[w][i][1]].server = cache[w][i][2]

\* Every conversation that has a server has its entry.
Remembered(w) == \A c \in Of(w) : chat[c].server # None => Entry(w, c) # {}

SessionInv ==
    /\ cache \in [Worker -> Pairs] /\ count \in [Worker -> [Servers -> Nat]]
    /\ \A w \in Worker : Belongs(w) /\ (HasRoom(w) => Remembered(w))
    /\ SessionsStayAndLevel

\* The entry of c is the last of r; the others were in q.
Placed(q, r, c, s) ==
    /\ r \in Pairs /\ Distinct(r)
    /\ \A i \in DOMAIN r :
          r[i] = <<c, s>> \/ \E j \in DOMAIN q : r[i] = q[j] /\ q[j][1] # c
    /\ \E i \in DOMAIN r : r[i] = <<c, s>>

\* Nobody's entry is gone.
AllStay(q, r) == \A j \in DOMAIN q : \E i \in DOMAIN r : r[i][1] = q[j][1]

LEMMA PlacedLast ==
    ASSUME NEW q \in Pairs, Distinct(q), NEW c \in Conv, NEW s \in Servers,
           NEW r \in Pairs, NEW m \in Nat, Len(r) = m + 1, r[m + 1] = <<c, s>>,
           NEW f \in [1..m -> DOMAIN q],
           \A j \in 1..m : r[j] = q[f[j]] /\ q[f[j]][1] # c,
           \A j, k \in 1..m : f[j] = f[k] => j = k
    PROVE  Placed(q, r, c, s)
<1>1. DOMAIN r = 1..m + 1
  BY DEF Pairs
<1>2. \A j \in 1..m + 1 : j = m + 1 \/ j \in 1..m
  OBVIOUS
<1>3. Distinct(r)
  <2>1. ASSUME NEW j \in 1..m + 1, NEW k \in 1..m + 1, r[j][1] = r[k][1] PROVE j = k
    <3>1. CASE j \in 1..m /\ k \in 1..m
      BY <2>1, <3>1 DEF Distinct
    <3>2. CASE j = m + 1 /\ k \in 1..m
      BY <2>1, <3>2
    <3>3. CASE j \in 1..m /\ k = m + 1
      BY <2>1, <3>3
    <3> QED
      BY <1>2, <3>1, <3>2, <3>3
  <2> QED
    BY <1>1, <2>1 DEF Distinct
<1>4. m + 1 \in DOMAIN r
  BY <1>1
<1>5. \A i \in DOMAIN r :
          r[i] = <<c, s>> \/ \E j \in DOMAIN q : r[i] = q[j] /\ q[j][1] # c
  BY <1>1, <1>2
<1> QED
  BY <1>3, <1>4, <1>5 DEF Placed

LEMMA RemovedAt ==
    ASSUME NEW P, NEW q \in Seq(P), NEW i \in 1..Len(q)
    PROVE  /\ RemoveAt(q, i) \in Seq(P) /\ Len(RemoveAt(q, i)) = Len(q) - 1
           /\ \A j \in 1..Len(q) - 1 :
                  RemoveAt(q, i)[j] = q[IF j < i THEN j ELSE j + 1]
<1> DEFINE a == SubSeq(q, 1, i - 1)
           b == SubSeq(q, i + 1, Len(q))
<1>1. a \in Seq(P) /\ Len(a) = i - 1 /\ \A j \in 1..i - 1 : a[j] = q[j]
  OBVIOUS
<1>2. /\ b \in Seq(P) /\ Len(b) = Len(q) - i
      /\ \A j \in 1..Len(q) - i : b[j] = q[i + j]
  OBVIOUS
<1> HIDE DEF a, b
<1>3. a \in Seq(P) /\ b \in Seq(P)
  BY <1>1, <1>2
<1>4. /\ a \o b \in Seq(P) /\ Len(a \o b) = Len(a) + Len(b)
      /\ \A j \in 1..Len(a) : (a \o b)[j] = a[j]
      /\ \A j \in 1..Len(b) : (a \o b)[Len(a) + j] = b[j]
  BY <1>3, Joined
<1>5. ASSUME NEW j \in 1..Len(q) - 1
      PROVE  (a \o b)[j] = q[IF j < i THEN j ELSE j + 1]
  <2>1. CASE j < i
    BY <1>1, <1>4, <2>1
  <2>2. CASE ~(j < i)
    <3>1. /\ j - (i - 1) \in 1..Len(b) /\ j = Len(a) + (j - (i - 1))
          /\ i + (j - (i - 1)) = j + 1 /\ j - (i - 1) \in 1..Len(q) - i
      BY <1>1, <1>2, <2>2
    <3>2. (a \o b)[j] = b[j - (i - 1)] /\ b[j - (i - 1)] = q[j + 1]
      BY <1>2, <1>4, <3>1
    <3> QED
      BY <2>2, <3>2
  <2> QED
    BY <2>1, <2>2
<1>6. RemoveAt(q, i) = a \o b
  BY DEF RemoveAt, a, b
<1>7. Len(a) + Len(b) = Len(q) - 1
  BY <1>1, <1>2
<1> QED
  BY <1>4, <1>5, <1>6, <1>7

LEMMA FoundMoves ==
    ASSUME NEW q \in Pairs, Distinct(q), NEW i \in DOMAIN q
    PROVE  /\ Placed(q, Append(RemoveAt(q, i), q[i]), q[i][1], q[i][2])
           /\ AllStay(q, Append(RemoveAt(q, i), q[i]))
<1> DEFINE m == Len(q) - 1
           o == RemoveAt(q, i)
           r == Append(o, q[i])
           f == [j \in 1..m |-> IF j < i THEN j ELSE j + 1]
<1>1. /\ q \in Seq(Pair) /\ DOMAIN q = 1..Len(q) /\ Len(q) \in Nat /\ m \in Nat
      /\ i \in 1..Len(q) /\ q[i] \in Pair
  BY DEF Pairs
<1>2. q \in Seq(Pair) /\ i \in 1..Len(q)
  BY <1>1
<1>3. /\ o \in Seq(Pair) /\ Len(o) = m
      /\ \A j \in 1..m : o[j] = q[IF j < i THEN j ELSE j + 1]
  BY <1>2, RemovedAt
<1> HIDE DEF o
<1>4. o \in Seq(Pair) /\ q[i] \in Pair
  BY <1>1, <1>3
<1>5. /\ r \in Seq(Pair) /\ Len(r) = Len(o) + 1 /\ r[Len(o) + 1] = q[i]
      /\ \A j \in 1..Len(o) : r[j] = o[j]
  BY <1>4, AppendOne
<1> HIDE DEF r
<1>6. f \in [1..m -> DOMAIN q]
  BY <1>1
<1>7. \A j, k \in 1..m : f[j] = f[k] => j = k
  BY <1>1
<1>8. \A j \in 1..m : f[j] # i
  BY <1>1
<1>9. \A j \in 1..m : r[j] = q[f[j]]
  BY <1>3, <1>5
<1>10. \A j \in DOMAIN q : j # i => \E k \in 1..m : f[k] = j
  <2> SUFFICES ASSUME NEW j \in DOMAIN q, j # i PROVE \E k \in 1..m : f[k] = j
    OBVIOUS
  <2>1. CASE j < i
    <3>1. j \in 1..m
      BY <1>1, <2>1
    <3> QED
      BY <2>1, <3>1
  <2>2. CASE ~(j < i)
    <3>1. j - 1 \in 1..m /\ ~(j - 1 < i) /\ (j - 1) + 1 = j
      BY <1>1, <2>2
    <3> QED
      BY <3>1
  <2> QED
    BY <2>1, <2>2
<1>11. Len(r) = m + 1 /\ r[m + 1] = q[i]
  BY <1>3, <1>5
<1> HIDE DEF f, m
<1>12. q[i][1] \in Conv /\ q[i][2] \in Servers /\ q[i] = <<q[i][1], q[i][2]>>
  BY <1>1 DEF Pair
<1>13. \A j \in 1..m : r[j] = q[f[j]] /\ q[f[j]][1] # q[i][1]
  BY <1>6, <1>8, <1>9 DEF Distinct
<1>14. /\ q \in Pairs /\ Distinct(q) /\ q[i][1] \in Conv /\ q[i][2] \in Servers
       /\ r \in Pairs /\ m \in Nat /\ Len(r) = m + 1 /\ r[m + 1] = <<q[i][1], q[i][2]>>
  BY <1>1, <1>5, <1>11, <1>12 DEF Pairs
<1>15. Placed(q, r, q[i][1], q[i][2])
  BY <1>6, <1>7, <1>13, <1>14, PlacedLast
<1>16. AllStay(q, r)
  <2> SUFFICES ASSUME NEW j \in DOMAIN q PROVE \E k \in DOMAIN r : r[k][1] = q[j][1]
    BY DEF AllStay
  <2>1. m + 1 \in DOMAIN r /\ \A k \in 1..m : k \in DOMAIN r
    BY <1>1, <1>5, <1>11
  <2> QED
    BY <1>9, <1>10, <1>11, <2>1
<1> QED
  BY <1>15, <1>16 DEF r, o

\* What Remember leaves of a cache, before it appends.
Spared(q) == IF Len(q) < CacheSize THEN q ELSE Tail(q)

LEMMA NewPlaced ==
    ASSUME NEW q \in Pairs, Distinct(q), NEW c \in Conv, NEW s \in Servers,
           \A i \in DOMAIN q : q[i][1] # c
    PROVE  /\ Placed(q, Append(Spared(q), <<c, s>>), c, s)
           /\ Len(q) < CacheSize => AllStay(q, Append(Spared(q), <<c, s>>))
<1> DEFINE m == Len(Spared(q))
           e == <<c, s>>
           r == Append(Spared(q), e)
<1>1. /\ q \in Seq(Pair) /\ DOMAIN q = 1..Len(q) /\ Len(q) \in Nat /\ e \in Pair
      /\ CacheSize \in Nat \ {0}
  BY LengthAssumption DEF Pairs, Pair
<1>2. \E gone \in {0, 1} :
        /\ gone = (IF Len(q) < CacheSize THEN 0 ELSE 1)
        /\ Spared(q) \in Seq(Pair) /\ m = Len(q) - gone /\ m \in Nat
        /\ \A j \in 1..m : Spared(q)[j] = q[j + gone]
  <2>1. CASE Len(q) < CacheSize
    <3>1. Spared(q) = q
      BY <2>1 DEF Spared
    <3> QED
      BY <1>1, <2>1, <3>1
  <2>2. CASE ~(Len(q) < CacheSize)
    <3>1. Spared(q) = Tail(q) /\ q \in Seq(Pair) /\ q # <<>>
      BY <1>1, <2>2 DEF Spared
    <3>2. /\ Spared(q) \in Seq(Pair) /\ m = Len(q) - 1 /\ m \in Nat
          /\ \A j \in 1..Len(q) - 1 : Spared(q)[j] = q[j + 1]
      BY <3>1, TailOne
    <3> QED
      BY <2>2, <3>2
  <2> QED
    BY <2>1, <2>2
<1>3. PICK gone \in {0, 1} :
        /\ gone = (IF Len(q) < CacheSize THEN 0 ELSE 1)
        /\ Spared(q) \in Seq(Pair) /\ m = Len(q) - gone /\ m \in Nat
        /\ \A j \in 1..m : Spared(q)[j] = q[j + gone]
  BY <1>2
<1> DEFINE f == [j \in 1..m |-> j + gone]
<1>4. Spared(q) \in Seq(Pair) /\ e \in Pair
  BY <1>1, <1>3
<1> HIDE DEF e
<1>5. /\ r \in Seq(Pair) /\ Len(r) = m + 1 /\ r[m + 1] = e
      /\ \A j \in 1..m : r[j] = Spared(q)[j]
  BY <1>4, AppendOne
<1> HIDE DEF r, m
<1>6. f \in [1..m -> DOMAIN q]
  <2>1. \A j \in 1..m : j + gone \in 1..Len(q)
    <3>1. (gone = 0 \/ gone = 1) /\ m = Len(q) - gone /\ Len(q) \in Nat
      BY <1>1, <1>3
    <3> QED
      BY <3>1
  <2>2. \A j \in 1..m : j + gone \in DOMAIN q
    BY <1>1, <2>1
  <2> QED
    BY <2>2
<1>7. \A j, k \in 1..m : f[j] = f[k] => j = k
  BY <1>3
<1>8. \A j \in 1..m : r[j] = q[f[j]]
  BY <1>3, <1>5
<1>9. ASSUME Len(q) < CacheSize PROVE AllStay(q, r)
  <2>1. m = Len(q) /\ gone = 0
    BY <1>1, <1>3, <1>9
  <2>2. \A j \in DOMAIN q : j \in 1..m /\ f[j] = j
    BY <1>1, <2>1
  <2>3. \A j \in DOMAIN q : j \in DOMAIN r /\ r[j] = q[j]
    <3>1. DOMAIN r = 1..m + 1 /\ m \in Nat
      BY <1>3, <1>5
    <3>2. \A j \in 1..m : j \in DOMAIN r
      BY <3>1
    <3> HIDE DEF f
    <3> QED
      BY <1>8, <2>2, <3>2
  <2> QED
    BY <2>3 DEF AllStay
<1> HIDE DEF f
<1>10. \A j \in 1..m : r[j] = q[f[j]] /\ q[f[j]][1] # c
  BY <1>6, <1>8
<1>11. r \in Pairs /\ m \in Nat /\ Len(r) = m + 1 /\ r[m + 1] = <<c, s>>
  BY <1>3, <1>5 DEF Pairs, e
<1>12. Placed(q, r, c, s)
  BY <1>6, <1>7, <1>10, <1>11, PlacedLast
<1> QED
  BY <1>9, <1>12 DEF r, e

\* A step that leaves cache, loads and everybody's server alone.
LEMMA SessionsStay ==
    ASSUME SessionInv, UNCHANGED <<count, cache>>,
           \A d \in Conv : chat'[d].server = chat[d].server
    PROVE  SessionInv'
<1>1. cache' = cache /\ count' = count
  OBVIOUS
<1>2. \A w \in Worker : \A d \in Of(w) : d \in Conv
  BY DEF Of
<1>3. ASSUME NEW w \in Worker PROVE Belongs(w)' /\ (HasRoom(w) => Remembered(w)')
  BY <1>1, <1>2 DEF SessionInv, Belongs, Remembered, Entry
<1>4. \A w \in Worker : \A s \in Servers :
        {d \in Of(w) : chat'[d].server = s} = {d \in Of(w) : chat[d].server = s}
  BY <1>2
<1>5. SessionsStayAndLevel'
  BY <1>1, <1>4 DEF SessionInv, SessionsStayAndLevel
<1> QED
  BY <1>1, <1>3, <1>5 DEF SessionInv, HasRoom, Of

LEMMA FiniteOf ==
    ASSUME NEW w
    PROVE  IsFiniteSet(Of(w)) /\ Cardinality(Of(w)) \in Nat
<1>1. IsFiniteSet(Of(w))
  BY ConvAssumption, FS_Subset DEF Of
<1> QED
  BY <1>1, FS_CardinalityType

\* A cache with room for all conversations is not full when one of them has
\* no entry.
LEMMA NotFull ==
    ASSUME SessionInv, NEW w \in Worker, HasRoom(w), NEW c \in Of(w), Entry(w, c) = {}
    PROVE  Len(cache[w]) < CacheSize
<1> DEFINE q == cache[w]
           n == Len(q)
           C == Of(w) \ {c}
           f == [i \in 1..n |-> q[i][1]]
<1>1. q \in Seq(Pair) /\ n \in Nat /\ DOMAIN q = 1..n
  BY DEF SessionInv, Pairs
<1>2. \A i \in 1..n : q[i][1] \in C
  BY <1>1 DEF SessionInv, Belongs, Entry
<1>3. \A i, j \in 1..n : q[i][1] = q[j][1] => i = j
  BY <1>1 DEF SessionInv, Belongs, Distinct
<1>4. /\ IsFiniteSet(Of(w)) /\ IsFiniteSet(C)
      /\ Cardinality(C) = Cardinality(Of(w)) - 1 /\ Cardinality(Of(w)) \in Nat
  BY FiniteOf, FS_RemoveElement
<1> HIDE DEF C, q
<1>5. f \in Injection(1..n, C)
  <2>1. f \in [1..n -> C] /\ \A i \in 1..n : f[i] = q[i][1]
    BY <1>2
  <2> HIDE DEF f
  <2> QED
    BY <1>3, <2>1 DEF Injection, IsInjective
<1>6. Cardinality(1..n) = n
  BY <1>1, FS_Interval
<1>7. Cardinality(1..n) <= Cardinality(C)
  <2> HIDE DEF f
  <2> QED
    BY <1>4, <1>5, FS_Injection
<1>8. Cardinality(Of(w)) <= CacheSize /\ CacheSize \in Nat
  BY LengthAssumption DEF HasRoom
<1>9. n < CacheSize
  BY <1>1, <1>4, <1>6, <1>7, <1>8
<1> QED
  BY <1>9 DEF q

\* The load of the top of the heap grows: the loads stay level.
LEMMA LeastKeepsLevel ==
    ASSUME NEW F \in [Servers -> Nat], NEW s \in Servers,
           \A t \in Servers : F[s] <= F[t],
           \A t, u \in Servers : F[t] <= F[u] + 1
    PROVE  \A t, u \in Servers : [F EXCEPT ![s] = @ + 1][t] <= [F EXCEPT ![s] = @ + 1][u] + 1
<1> DEFINE G == [F EXCEPT ![s] = @ + 1]
<1>1. \A t \in Servers : G[t] = (IF t = s THEN F[s] + 1 ELSE F[t]) /\ F[t] \in Nat
  OBVIOUS
<1> HIDE DEF G
<1>2. \A t, u \in Servers : G[t] <= G[u] + 1
  <2> SUFFICES ASSUME NEW t \in Servers, NEW u \in Servers PROVE G[t] <= G[u] + 1
    OBVIOUS
  <2>1. /\ F[t] \in Nat /\ F[u] \in Nat /\ F[s] \in Nat /\ F[s] <= F[u] /\ F[t] <= F[u] + 1
        /\ G[t] = (IF t = s THEN F[s] + 1 ELSE F[t])
        /\ G[u] = (IF u = s THEN F[s] + 1 ELSE F[u])
    BY <1>1
  <2> QED
    BY <2>1
<1> QED
  BY <1>2 DEF G

\* The entry of c is written, and c is at its server.
LEMMA EntriesFollow ==
    ASSUME SessionInv, NEW c \in Conv, NEW s \in Servers,
           cache' = [cache EXCEPT ![WorkerOf[c]] = cache'[WorkerOf[c]]],
           Placed(cache[WorkerOf[c]], cache'[WorkerOf[c]], c, s),
           HasRoom(WorkerOf[c]) => AllStay(cache[WorkerOf[c]], cache'[WorkerOf[c]]),
           chat'[c].server = s, \A d \in Conv \ {c} : chat'[d].server = chat[d].server
    PROVE  /\ cache' \in [Worker -> Pairs]
           /\ \A w \in Worker : Belongs(w)' /\ (HasRoom(w) => Remembered(w)')
<1> DEFINE w == WorkerOf[c]
           q == cache[w]
           r == cache'[w]
<1>1. /\ w \in Worker /\ c \in Of(w) /\ cache \in [Worker -> Pairs]
      /\ \A v \in Worker : \A d \in Of(v) : d \in Conv /\ WorkerOf[d] = v
  BY ConvAssumption DEF SessionInv, Of
<1>2. Placed(q, r, c, s) /\ r \in Pairs
  BY DEF Placed
<1>3. cache' \in [Worker -> Pairs] /\ \A v \in Worker \ {w} : cache'[v] = cache[v]
  BY <1>1, <1>2
<1>4. ASSUME NEW v \in Worker \ {w}
      PROVE  Belongs(v)' /\ (HasRoom(v) => Remembered(v)')
  <2>1. cache'[v] = cache[v] /\ \A d \in Of(v) : chat'[d].server = chat[d].server
    BY <1>1, <1>3
  <2>2. Belongs(v) /\ (HasRoom(v) => Remembered(v))
    BY DEF SessionInv
  <2>3. Belongs(v)'
    BY <2>1, <2>2 DEF Belongs
  <2>4. HasRoom(v) => Remembered(v)'
    BY <2>1, <2>2 DEF Remembered, Entry
  <2> QED
    BY <2>3, <2>4
<1> USE DEF w, q, r
<1>5. Belongs(w)'
  <2>1. Belongs(w) /\ Distinct(r)
    BY <1>1, <1>2 DEF SessionInv, Placed
  <2>2. ASSUME NEW i \in DOMAIN r
        PROVE  r[i][1] \in Of(w) /\ chat'[r[i][1]].server = r[i][2]
    <3>1. CASE r[i] = <<c, s>>
      BY <1>1, <3>1
    <3>2. ASSUME NEW j \in DOMAIN q, r[i] = q[j], q[j][1] # c
          PROVE  r[i][1] \in Of(w) /\ chat'[r[i][1]].server = r[i][2]
      BY <1>1, <2>1, <3>2 DEF Belongs
    <3> QED
      BY <1>2, <3>1, <3>2 DEF Placed
  <2> QED
    BY <2>1, <2>2 DEF Belongs
<1>6. ASSUME HasRoom(w), NEW d \in Of(w), chat'[d].server # None
      PROVE  Entry(w, d)' # {}
  <2>1. CASE d = c
    <3>1. PICK i \in DOMAIN r : r[i] = <<c, s>>
      BY <1>2 DEF Placed
    <3> QED
      BY <2>1, <3>1 DEF Entry
  <2>2. CASE d # c
    <3>1. PICK j \in DOMAIN q : q[j][1] = d
      BY <1>1, <1>6, <2>2 DEF SessionInv, Remembered, Entry
    <3>2. PICK i \in DOMAIN r : r[i][1] = d
      BY <1>6, <3>1 DEF AllStay
    <3> QED
      BY <3>2 DEF Entry
  <2> QED
    BY <2>1, <2>2
<1>7. HasRoom(w) => Remembered(w)'
  BY <1>6 DEF Remembered
<1> QED
  BY <1>3, <1>4, <1>5, <1>7

LEMMA RequestKeepsSessions ==
    ASSUME SessionInv, NEW c \in Conv, NEW s \in Servers, ChooseServer(c, s),
           chat'[c].server = s, \A d \in Conv \ {c} : chat'[d].server = chat[d].server
    PROVE  SessionInv'
<1> DEFINE w == WorkerOf[c]
           q == cache[w]
<1>1. /\ w \in Worker /\ c \in Of(w) /\ q \in Pairs /\ Distinct(q)
      /\ \A v \in Worker : \A d \in Of(v) : d \in Conv /\ WorkerOf[d] = v
      /\ cache \in [Worker -> Pairs] /\ count \in [Worker -> [Servers -> Nat]]
  BY ConvAssumption DEF SessionInv, Belongs, Of
<1>2. ASSUME NEW i \in Entry(w, c), s = q[i][2],
             cache' = [cache EXCEPT ![w] = Append(RemoveAt(q, i), q[i])], UNCHANGED count
      PROVE  SessionInv'
  <2>1. i \in DOMAIN q /\ q[i][1] = c
    BY DEF Entry
  <2>2. cache'[w] = Append(RemoveAt(q, i), q[i])
    BY <1>1, <1>2
  <2>3. Placed(q, cache'[w], c, s) /\ AllStay(q, cache'[w])
    BY <1>1, <1>2, <2>1, <2>2, FoundMoves
  <2>4. cache' = [cache EXCEPT ![w] = cache'[w]]
    BY <1>2, <2>2
  <2>5. /\ cache' \in [Worker -> Pairs]
        /\ \A v \in Worker : Belongs(v)' /\ (HasRoom(v) => Remembered(v)')
    BY <2>3, <2>4, EntriesFollow
  <2>6. chat[c].server = s
    BY <1>1, <1>2, <2>1 DEF SessionInv, Belongs
  <2>7. \A v \in Worker : \A t \in Servers :
          {d \in Of(v) : chat'[d].server = t} = {d \in Of(v) : chat[d].server = t}
    BY <1>1, <2>6
  <2>8. SessionsStayAndLevel'
    BY <1>2, <2>7 DEF SessionInv, SessionsStayAndLevel
  <2> QED
    BY <1>1, <1>2, <2>5, <2>8 DEF SessionInv, HasRoom, Of
<1>3. ASSUME Entry(w, c) = {}, Least(w, s), count' = [count EXCEPT ![w][s] = @ + 1],
             cache' = [cache EXCEPT ![w] = Remember(w, c, s)]
      PROVE  SessionInv'
  <2>1. cache'[w] = Append(Spared(q), <<c, s>>)
    BY <1>1, <1>3 DEF Remember, Spared
  <2>2. \A i \in DOMAIN q : q[i][1] # c
    BY <1>3 DEF Entry
  <2>3. Placed(q, cache'[w], c, s) /\ (Len(q) < CacheSize => AllStay(q, cache'[w]))
    BY <1>1, <2>1, <2>2, NewPlaced
  <2>4. HasRoom(w) => Len(q) < CacheSize
    BY <1>1, <1>3, NotFull
  <2>5. cache' = [cache EXCEPT ![w] = cache'[w]]
    BY <1>1, <1>3
  <2>6. HasRoom(w) => AllStay(q, cache'[w])
    BY <2>3, <2>4
  <2>7. /\ cache' \in [Worker -> Pairs]
        /\ \A v \in Worker : Belongs(v)' /\ (HasRoom(v) => Remembered(v)')
    BY <2>3, <2>5, <2>6, EntriesFollow
  <2>8. /\ count[w] \in [Servers -> Nat] /\ count'[w] = [count[w] EXCEPT ![s] = @ + 1]
        /\ count' \in [Worker -> [Servers -> Nat]]
        /\ \A v \in Worker \ {w} : count'[v] = count[v]
    BY <1>1, <1>3
  <2>9. \A v \in Worker : \A t, u \in Servers : count'[v][t] <= count'[v][u] + 1
    <3>1. \A v \in Worker : \A t, u \in Servers : count[v][t] <= count[v][u] + 1
      BY DEF SessionInv, SessionsStayAndLevel
    <3>2. \A t \in Servers : count[w][s] <= count[w][t]
      BY <1>3, <2>8 DEF Least
    <3>3. \A t, u \in Servers : count'[w][t] <= count'[w][u] + 1
      BY <1>1, <2>8, <3>1, <3>2, LeastKeepsLevel
    <3> QED
      BY <2>8, <3>1, <3>3
  <2>10. ASSUME NEW v \in Worker, Cardinality(Of(v)) <= CacheSize, NEW t \in Servers
         PROVE  count'[v][t] = Cardinality({d \in Of(v) : chat'[d].server = t})
    <3> DEFINE old == {d \in Of(v) : chat[d].server = t}
               now == {d \in Of(v) : chat'[d].server = t}
    <3>1. count[v][t] = Cardinality(old)
      BY <2>10 DEF SessionInv, SessionsStayAndLevel
    <3>2. CASE v = w /\ t = s
      <4>1. chat[c].server = None
        BY <1>1, <1>3, <2>10, <3>2 DEF SessionInv, Remembered, HasRoom
      <4>2. now = old \cup {c} /\ c \notin old
        BY <1>1, <3>2, <4>1, ConvAssumption
      <4>3. IsFiniteSet(old)
        BY FiniteOf, FS_Subset
      <4>4. Cardinality(now) = Cardinality(old) + 1
        BY <4>2, <4>3, FS_AddElement
      <4>5. count'[v][t] = count[v][t] + 1
        BY <2>8, <3>2
      <4> QED
        BY <3>1, <4>4, <4>5
    <3>3. CASE ~(v = w /\ t = s)
      <4>1. count'[v][t] = count[v][t]
        BY <2>8, <3>3
      <4>2. now = old
        <5>1. CASE v # w
          BY <1>1, <5>1
        <5>2. CASE v = w
          <6>1. chat[c].server = None
            BY <1>1, <1>3, <2>10, <5>2 DEF SessionInv, Remembered, HasRoom
          <6>2. t # s /\ t # None
            BY <3>3, <5>2, ConvAssumption
          <6> QED
            BY <1>1, <6>1, <6>2
        <5> QED
          BY <5>1, <5>2
      <4> QED
        BY <3>1, <4>1, <4>2
    <3> QED
      BY <3>2, <3>3
  <2>11. SessionsStayAndLevel'
    BY <2>9, <2>10 DEF SessionsStayAndLevel, Of
  <2> QED
    BY <2>7, <2>8, <2>11 DEF SessionInv, HasRoom, Of
<1> QED
  BY <1>2, <1>3 DEF ChooseServer

LEMMA InitSessions == Init => SessionInv
<1> SUFFICES ASSUME Init PROVE SessionInv
  OBVIOUS
<1>1. cache = [w \in Worker |-> <<>>] /\ count = [w \in Worker |-> [s \in Servers |-> 0]]
  BY DEF Init
<1>2. cache \in [Worker -> Pairs] /\ count \in [Worker -> [Servers -> Nat]]
  BY <1>1 DEF Pairs
<1>3. \A c \in Conv : chat[c].server = None
  BY DEF Init, Fresh
<1>4. \A w \in Worker : Belongs(w) /\ Remembered(w)
  BY <1>1, <1>3 DEF Belongs, Remembered, Distinct, Of
<1>5. SessionsStayAndLevel
  <2>1. \A w \in Worker : \A s \in Servers : {c \in Of(w) : chat[c].server = s} = {}
    BY <1>3, ConvAssumption DEF Of
  <2>2. \A w \in Worker : \A s \in Servers :
          count[w][s] = Cardinality({c \in Of(w) : chat[c].server = s})
    BY <1>1, <2>1, FS_EmptySet
  <2>3. \A w \in Worker : \A s, t \in Servers : count[w][s] <= count[w][t] + 1
    BY <1>1
  <2> QED
    BY <2>2, <2>3 DEF SessionsStayAndLevel
<1> QED
  BY <1>2, <1>4, <1>5 DEF SessionInv

\* A request goes to the server that the task then holds.
LEMMA RequestSessions ==
    ASSUME IInv, SessionInv, NEW c \in Conv, NEW ch \in Chat, NEW s \in Servers,
           Request(c, ch, s)
    PROVE  SessionInv'
<1> DEFINE new == [ch EXCEPT !.pc = "sent", !.server = s]
<1>1. new.server = s
  BY DEF Chat
<1>2. chat' = [chat EXCEPT ![c] = new] /\ ChooseServer(c, s)
  BY DEF Request
<1> HIDE DEF new
<1>3. chat'[c].server = s /\ \A d \in Conv \ {c} : chat'[d].server = chat[d].server
  BY <1>1, <1>2 DEF IInv, ChatInv
<1> QED
  BY <1>2, <1>3, RequestKeepsSessions

\* A task writes what it holds, and keeps its server.
LEMMA TaskKeepsServer ==
    ASSUME IInv, NEW c \in Conv, NEW new, chat' = [chat EXCEPT ![c] = new],
           new.server = chat[c].server
    PROVE  \A d \in Conv : chat'[d].server = chat[d].server
  BY DEF IInv, ChatInv

LEMMA NextKeepsSessions == IInv /\ SessionInv /\ [Next]_vars => SessionInv'
<1> SUFFICES ASSUME IInv, SessionInv, [Next]_vars PROVE SessionInv'
  OBVIOUS
<1>1. ASSUME UNCHANGED <<chat, count, cache>> PROVE SessionInv'
  BY <1>1, SessionsStay
<1>2. \A c \in Conv : chat[c] \in Chat
  BY DEF IInv, ChatInv, ChatOK
<1>3. ASSUME NEW c \in Conv, Start(c) PROVE SessionInv'
  <2>1. PICK s \in Servers : Request(c, chat[c], s)
    BY <1>3 DEF Start
  <2> QED
    BY <1>2, <2>1, RequestSessions
<1>4. ASSUME NEW c \in Conv, ServerRaises(c) PROVE SessionInv'
  <2>1. \A d \in Conv : chat'[d].server = chat[d].server
    BY <1>2, <1>4 DEF ServerRaises, IInv, ChatInv, Chat
  <2> QED
    BY <1>4, <2>1, SessionsStay DEF ServerRaises
<1>5. ASSUME NEW c \in Conv, LastAnswer(c) PROVE SessionInv'
  <2>1. PICK n \in Lengths(c) : chat' = [chat EXCEPT ![c] = [Answered(c, n) EXCEPT !.pc = "over"]]
    BY <1>5 DEF LastAnswer
  <2>2. [Answered(c, n) EXCEPT !.pc = "over"].server = chat[c].server
    BY <1>2 DEF Answered, Chat
  <2>3. \A d \in Conv : chat'[d].server = chat[d].server
    BY <2>1, <2>2, TaskKeepsServer
  <2> QED
    BY <1>5, <2>3, SessionsStay DEF LastAnswer
<1>6. ASSUME NEW c \in Conv, CallTools(c) PROVE SessionInv'
  <2>1. PICK n \in Lengths(c), kinds \in UNION {[1..m -> Kinds] : m \in 1..MaxParallel} :
          chat' = [chat EXCEPT ![c] = [Answered(c, n) EXCEPT
              !.pc = "tools", !.kinds = kinds, !.left = {i \in DOMAIN kinds : kinds[i] \in Tool},
              !.error = \E i \in DOMAIN kinds : kinds[i] = "unknown"]]
    BY <1>6 DEF CallTools
  <2> DEFINE left == {i \in DOMAIN kinds : kinds[i] \in Tool}
             error == \E i \in DOMAIN kinds : kinds[i] = "unknown"
             new == [Answered(c, n) EXCEPT
                 !.pc = "tools", !.kinds = kinds, !.left = left, !.error = error]
  <2>2. chat' = [chat EXCEPT ![c] = new]
    BY <2>1
  <2> HIDE DEF left, error
  <2>3. new.server = chat[c].server
    BY <1>2 DEF Answered, Chat
  <2> HIDE DEF new
  <2>4. \A d \in Conv : chat'[d].server = chat[d].server
    BY <2>2, <2>3, TaskKeepsServer
  <2> QED
    BY <1>6, <2>4, SessionsStay DEF CallTools
<1>7. ASSUME NEW c \in Conv, NEW i \in 1..MaxParallel, ToolOver(c, i) PROVE SessionInv'
  <2>1. \A d \in Conv : chat'[d].server = chat[d].server
    BY <1>2, <1>7 DEF ToolOver, IInv, ChatInv, Chat
  <2> QED
    BY <1>7, <2>1, SessionsStay DEF ToolOver
<1>8. ASSUME NEW c \in Conv, NEW ch \in Chat, ch.server = chat[c].server, Over(c, ch)
      PROVE  SessionInv'
  <2>1. [ch EXCEPT !.pc = "over", !.kinds = <<>>].server = chat[c].server
    BY <1>8 DEF Chat
  <2>2. chat' = [chat EXCEPT ![c] = [ch EXCEPT !.pc = "over", !.kinds = <<>>]]
    BY <1>8 DEF Over
  <2>3. \A d \in Conv : chat'[d].server = chat[d].server
    BY <2>1, <2>2, TaskKeepsServer
  <2> QED
    BY <1>8, <2>3, SessionsStay DEF Over
<1>9. ASSUME NEW c \in Conv, Gathered(c) PROVE SessionInv'
  <2>1. ASSUME NEW n \in 1..MaxToolTokens
        PROVE  WithTools(c, n) \in Chat /\ WithTools(c, n).server = chat[c].server
    <3>1. WithTools(c, n) \in Chat
      BY ToolTokensGrow
    <3>2. WithTools(c, n).server = chat[c].server
      BY <1>2 DEF WithTools, Chat
    <3> QED
      BY <3>1, <3>2
  <2>2. CASE Over(c, chat[c])
    BY <1>2, <1>8, <2>2
  <2>3. ASSUME NEW n \in 1..MaxToolTokens, Over(c, WithTools(c, n)) PROVE SessionInv'
    BY <1>8, <2>1, <2>3
  <2>4. ASSUME NEW n \in 1..MaxToolTokens, NEW s \in Servers, Request(c, WithTools(c, n), s)
        PROVE  SessionInv'
    BY <2>1, <2>4, RequestSessions
  <2> QED
    BY <1>9, <2>2, <2>3, <2>4 DEF Gathered
<1>10. CASE Begin \/ Finish \/ Fail \/ Quiet
  BY <1>1, <1>10 DEF Begin, Finish, Fail, Quiet, vars
<1>11. ASSUME NEW w \in Worker, Postprocess(w) PROVE SessionInv'
  BY <1>1, <1>11 DEF Postprocess
<1>12. CASE (\E c \in Conv : StartTools(c)) \/ (Limiter!Serve /\ UNCHANGED LoopVars)
  BY <1>1, <1>12 DEF StartTools, LoopVars
<1>13. CASE UNCHANGED vars
  BY <1>1, <1>13 DEF vars
<1>14. ASSUME NEW c \in Conv, Converse(c) PROVE SessionInv'
  BY <1>3, <1>4, <1>5, <1>6, <1>7, <1>9, <1>14 DEF Converse
<1> QED
  BY <1>10, <1>11, <1>12, <1>13, <1>14 DEF Next

-----------------------------------------------------------------------------
(***************************************************************************)
(* The theorems.                                                           *)
(***************************************************************************)

\* No token of the rate limiter is lost or made, under the traffic of any
\* number of agent loops, whatever their tools and servers do.
THEOREM TokensAreConserved == Spec => []TokensConserved
<1>1. IInv => TokensConserved
  <2>1. IInv => sem + Cardinality(Limiter!Running) + returning = limit
    BY DEF IInv, LimiterInv, Tokens
  <2> QED
    BY <2>1 DEF TokensConserved, Limiter!TokensConserved, Limiter!Cardinality, Cardinality
<1> QED
  BY <1>1, InvariantHolds, PTL

\* A request leaves an awake server room for at least one token: the ends of
\* the loop see to what max_tokens does not check, for all lengths.
THEOREM ServersHaveRoom == Spec => []RequestsCanBeServed
<1>1. IInv => RequestsCanBeServed
  <2> SUFFICES ASSUME IInv, NEW c \in Conv, chat[c].pc = "sent"
               PROVE  awake /\ Len(chat[c].ids) < MaxModelLen
    BY DEF RequestsCanBeServed
  <2>1. awake
    BY DEF IInv, Phases
  <2>2. /\ chat[c].ids \in Seq(Origin) /\ chat[c].mask \in Seq(Bit)
        /\ Len(chat[c].ids) = PromptOf[c] + Len(chat[c].mask)
        /\ Len(chat[c].mask) < ResponseLength
    BY DEF IInv, ChatInv, ChatOK, Content
  <2>3. PromptOf[c] \in 1..PromptLength /\ PromptLength \in Nat /\ ResponseLength \in Nat
        /\ Len(chat[c].mask) \in Nat
    BY <2>2, ConvAssumption, LengthAssumption
  <2> QED
    BY <2>1, <2>2, <2>3 DEF MaxModelLen
<1> QED
  BY <1>1, InvariantHolds, PTL

\* The rows of a batch hold the prompt, what followed it, and a mask that
\* selects the generated tokens only, for all lengths and any padding token.
THEOREM MasksSelectGeneratedTokens == Spec => []OnlyGeneratedTokensTrain
<1>1. IInv => OnlyGeneratedTokensTrain
  <2> SUFFICES ASSUME IInv, NEW c \in Conv, row[c] # None PROVE RowIsRight(c, row[c])
    BY DEF OnlyGeneratedTokensTrain, RowIsRight
  <2>1. chat[c].pc = "over" /\ row[c] = Row(chat[c]) /\ ChatOK(c, chat[c])
    BY DEF IInv, Rows, ChatInv
  <2>2. Content(PromptOf[c], chat[c].ids, chat[c].mask) /\ chat[c].mask # <<>>
    BY <2>1 DEF ChatOK
  <2> QED
    BY <2>1, <2>2, RowsAreRight
<1> QED
  BY <1>1, InvariantHolds, PTL

\* A worker's servers have loads that differ by one at most, and with a cache
\* for all its conversations the load of a server is the conversations there:
\* for any number of them, however their turns interleave.
THEOREM SessionsAreLevel == Spec => []SessionsStayAndLevel
<1>1. SessionInv => SessionsStayAndLevel
  BY DEF SessionInv
<1>2. Spec => []SessionInv
  BY InitSessions, NextKeepsSessions, InvariantHolds, PTL DEF Spec
<1> QED
  BY <1>1, <1>2, PTL

=============================================================================
