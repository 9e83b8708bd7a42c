------------------------ MODULE ChatSchedulerProofs ------------------------
(***************************************************************************)
(* Theorems about ChatScheduler, for any number of conversations, batches  *)
(* and servers and for every size of the cache.                            *)
(***************************************************************************)
EXTENDS ChatScheduler, FiniteSetTheorems, SequenceTheorems, TLAPS

(***************************************************************************)
(* The cache as a sequence.                                                *)
(***************************************************************************)

\* What is in a sequence after it was cut.
LEMMA CutSequence ==
    ASSUME NEW S, NEW q \in Seq(S), NEW i \in DOMAIN q
    PROVE  LET cut == SubSeq(q, 1, i - 1) \o SubSeq(q, i + 1, Len(q)) IN
           /\ cut \in Seq(S)
           /\ Len(cut) = Len(q) - 1
           /\ \A j \in DOMAIN cut : cut[j] = q[IF j < i THEN j ELSE j + 1]
<1> DEFINE left == SubSeq(q, 1, i - 1)
           right == SubSeq(q, i + 1, Len(q))
<1>1. i \in 1 .. Len(q) /\ Len(q) \in Nat
  OBVIOUS
<1>2. left \in Seq(S) /\ Len(left) = i - 1 /\ \A j \in 1 .. i - 1 : left[j] = q[j]
  BY <1>1
<1>3. right \in Seq(S) /\ Len(right) = Len(q) - i
      /\ \A j \in 1 .. Len(q) - i : right[j] = q[i + j]
  BY <1>1
<1> HIDE DEF left, right
<1>4. left \o right \in Seq(S) /\ Len(left \o right) = Len(q) - 1
      /\ \A j \in 1 .. Len(q) - 1 :
            (left \o right)[j] = IF j <= i - 1 THEN left[j] ELSE right[j - (i - 1)]
  <2>1. Len(left) + Len(right) = Len(q) - 1
    BY <1>1, <1>2, <1>3
  <2>2. /\ left \o right \in Seq(S)
        /\ Len(left \o right) = Len(left) + Len(right)
        /\ \A j \in 1 .. Len(left) + Len(right) :
              (left \o right)[j] = IF j <= Len(left) THEN left[j] ELSE right[j - Len(left)]
    BY <1>2, <1>3, ConcatProperties, Zenon
  <2> QED
    BY <1>2, <2>1, <2>2
<1>5. ASSUME NEW j \in 1 .. Len(q) - 1
      PROVE  (left \o right)[j] = q[IF j < i THEN j ELSE j + 1]
  <2>1. CASE j < i
    BY <1>1, <1>2, <1>4, <2>1
  <2>2. CASE j >= i
    <3>1. j - (i - 1) \in 1 .. Len(q) - i /\ i + (j - (i - 1)) = j + 1
      BY <1>1, <2>2
    <3>2. (left \o right)[j] = right[j - (i - 1)]
      BY <1>1, <1>4, <2>2
    <3> QED
      BY <1>1, <1>3, <2>2, <3>1, <3>2
  <2>3. j < i \/ j >= i
    BY <1>1, <1>5
  <2> QED
    BY <2>1, <2>2, <2>3, Zenon
<1>6. DOMAIN (left \o right) = 1 .. Len(q) - 1
  BY <1>1, <1>4
<1>7. LET cut == left \o right IN
      /\ cut \in Seq(S)
      /\ Len(cut) = Len(q) - 1
      /\ \A j \in DOMAIN cut : cut[j] = q[IF j < i THEN j ELSE j + 1]
  BY <1>4, <1>5, <1>6
<1> QED
  BY <1>7 DEF left, right

\* A new entry takes the last place; the others were there before.
LEMMA RememberEntry ==
    ASSUME NEW entries \in Seq(Entries), Len(entries) <= MaxCache,
           NEW id \in Conv \X Nat, NEW s \in Servers
    PROVE  LET after == Remember(entries, id, s) IN
           /\ after \in Seq(Entries)
           /\ Len(after) <= MaxCache
           /\ \A j \in DOMAIN after :
                 \/ after[j] = [id |-> id, address |-> s]
                 \/ \E k \in DOMAIN entries : after[j] = entries[k]
<1> DEFINE e == [id |-> id, address |-> s]
           kept == IF Len(entries) < MaxCache THEN entries ELSE Tail(entries)
<1>1. MaxCache \in Nat \ {0} /\ e \in Entries
  BY BoundAssumption DEF Entries
<1>2. kept \in Seq(Entries) /\ Len(kept) < MaxCache
      /\ \A j \in DOMAIN kept : \E k \in DOMAIN entries : kept[j] = entries[k]
  <2>1. CASE Len(entries) < MaxCache
    BY <2>1
  <2>2. CASE Len(entries) >= MaxCache
    BY <2>2, <1>1
  <2> QED
    BY <1>1, <2>1, <2>2
<1>3. Append(kept, e) \in Seq(Entries) /\ Len(Append(kept, e)) = Len(kept) + 1
      /\ \A j \in DOMAIN Append(kept, e) :
            Append(kept, e)[j] = e \/ (j \in DOMAIN kept /\ Append(kept, e)[j] = kept[j])
  BY <1>1, <1>2
<1> HIDE DEF kept
<1>4. Remember(entries, id, s) = Append(kept, e)
  BY DEF Remember, kept
<1> QED
  BY <1>1, <1>2, <1>3, <1>4

(***************************************************************************)
(* The invariant.                                                          *)
(***************************************************************************)

\* What the phase of a conversation says about the rest of it.
Regular(ch) ==
    /\ ch.pc = "new" => ch.turn = 0 /\ ch.depth = 0
    /\ ch.pc \in {"submitted", "sent", "lost"} => ch.depth = 1 /\ ch.running = 0
    /\ ch.pc \in {"tools", "ended"} => ch.depth = 0
    /\ ch.pc = "new" => ch.running = 0
    /\ ch.pc # "ended" => ~ch.done

RegularInv == \A c \in Conv : Regular(chat[c])

\* A conversation has a first server when it has sent a request.
HomeInv == \A c \in Conv : home[c] = None <=> chat[c].turn = 0

\* An entry of the cache is a request that was sent to the first server of
\* its conversation.
CacheInv ==
    \A i \in DOMAIN cache :
        /\ cache[i].id[2] \in 1 .. chat[cache[i].id[1]].turn
        /\ cache[i].address = home[cache[i].id[1]]

\* The heap counts the conversations, and its counts are level.
LoadInv ==
    /\ \A s \in Servers : count[s] = Cardinality(StartedOn(s))
    /\ \A s, t \in Servers : count[s] <= count[t] + 1

TypeInv == TypeOK

IInv ==
    TypeInv /\ RegularInv /\ HomeInv /\ CacheInv /\ LoadInv /\ StickySession

LEMMA InitIInv == Init => IInv
<1> SUFFICES ASSUME Init PROVE IInv
  OBVIOUS
<1> USE ServersAssumption, ConvAssumption, BatchAssumption, BoundAssumption
<1>1. TypeInv
  <2>1. Fresh \in Chats
    BY DEF Fresh, Chats, Phases
  <2>2. <<>> \in Seq(Entries) /\ Len(<<>>) = 0
    OBVIOUS
  <2> QED
    BY <2>1, <2>2 DEF Init, TypeInv, TypeOK
<1>2. RegularInv /\ HomeInv /\ CacheInv /\ StickySession
  BY DEF Init, Fresh, RegularInv, Regular, HomeInv, CacheInv, StickySession
<1>3. LoadInv
  <2>1. \A s \in Servers : StartedOn(s) = {}
    BY DEF Init, StartedOn
  <2>2. Cardinality({}) = 0
    BY FS_EmptySet
  <2>3. \A s \in Servers : count[s] = 0
    BY DEF Init
  <2>4. \A s \in Servers : count[s] = Cardinality(StartedOn(s))
    BY <2>1, <2>2, <2>3
  <2>5. \A s, t \in Servers : count[s] <= count[t] + 1
    BY <2>3
  <2> QED
    BY <2>4, <2>5 DEF LoadInv
<1> QED
  BY <1>1, <1>2, <1>3 DEF IInv

(***************************************************************************)
(* Most steps only replace the record of one conversation, and neither     *)
(* send nor move it.                                                       *)
(***************************************************************************)

\* An entry is about a conversation.
LEMMA CachedConv ==
    ASSUME IInv, NEW i \in DOMAIN cache
    PROVE  /\ cache[i] \in Entries
           /\ cache[i].id \in Conv \X Nat /\ cache[i].id[1] \in Conv
           /\ cache[i].address \in Servers
<1>1. cache[i] \in Entries
  BY DEF IInv, TypeInv, TypeOK
<1> QED
  BY <1>1 DEF Entries

LEMMA QuietStep ==
    ASSUME IInv, NEW c \in Conv, NEW ch \in Chats, Regular(ch),
           ch.turn = chat[c].turn, ch.address = chat[c].address,
           ch.pc \in {"sent", "tools"} => chat[c].pc \in {"sent", "tools"},
           chat' = [chat EXCEPT ![c] = ch],
           UNCHANGED <<home, count, cache, batch, status>>
    PROVE  IInv'
<1>1. chat \in [Conv -> Chats] /\ chat' \in [Conv -> Chats]
  BY DEF IInv, TypeInv, TypeOK
<1>2. \A d \in Conv : chat'[d] = IF d = c THEN ch ELSE chat[d]
  BY <1>1
<1>3. TypeInv'
  BY <1>1 DEF IInv, TypeInv, TypeOK
<1>4. RegularInv'
  BY <1>2 DEF IInv, RegularInv
<1>5. \A d \in Conv : chat'[d].turn = chat[d].turn
  BY <1>2
<1>6. HomeInv'
  BY <1>5 DEF IInv, HomeInv
<1>7. CacheInv'
  <2>1. \A i \in DOMAIN cache : cache[i].id[1] \in Conv
    BY CachedConv
  <2> QED
    BY <2>1, <1>5 DEF IInv, CacheInv
<1>8. LoadInv'
  BY DEF IInv, LoadInv, StartedOn
<1>9. StickySession'
  BY <1>2 DEF IInv, StickySession
<1> QED
  BY <1>3, <1>4, <1>6, <1>7, <1>8, <1>9 DEF IInv

\* Finish keeps a record regular and changes only its phase and its event.
LEMMA FinishRecord ==
    ASSUME NEW ch \in Chats, ch.depth = 0, ch.pc # "new"
    PROVE  /\ Finish(ch) \in Chats /\ Regular(Finish(ch))
           /\ Finish(ch).turn = ch.turn /\ Finish(ch).address = ch.address
           /\ Finish(ch).pc = "ended"
  BY DEF Finish, Chats, Phases, Regular

LEMMA SubmitRecord ==
    ASSUME NEW ch \in Chats, ch.depth = 0, ch.running = 0, ~ch.done
    PROVE  /\ Submit(ch) \in Chats /\ Regular(Submit(ch))
           /\ Submit(ch).turn = ch.turn /\ Submit(ch).address = ch.address
           /\ Submit(ch).pc = "submitted"
<1>1. Submit(ch) \in Chats /\ Submit(ch).depth = 1
  <2>1. Submit(ch) = [ch EXCEPT !.pc = "submitted", !.depth = 1]
    BY DEF Submit
  <2>2. 1 \in Int
    OBVIOUS
  <2> QED
    BY <2>1, <2>2 DEF Chats, Phases
<1>2. Submit(ch).turn = ch.turn /\ Submit(ch).address = ch.address
      /\ Submit(ch).pc = "submitted" /\ Submit(ch).running = 0
  BY DEF Submit, Chats
<1>3. ~Submit(ch).done
  BY DEF Submit, Chats
<1> QED
  BY <1>1, <1>2, <1>3 DEF Regular

LEMMA AnsweredRecord ==
    ASSUME NEW ch \in Chats, ch.depth = 1
    PROVE  /\ Answered(ch) \in Chats /\ Answered(ch).depth = 0
           /\ Answered(ch).turn = ch.turn /\ Answered(ch).address = ch.address
           /\ Answered(ch).pc = ch.pc /\ (Answered(ch).done <=> ch.done)
<1>1. Answered(ch) \in Chats
  <2> DEFINE m == ch.messages + 1
             a == ch.answers + 1
  <2>1. m \in Nat /\ a \in Nat /\ 0 \in Int
    BY DEF Chats
  <2>2. Answered(ch) = [ch EXCEPT !.depth = 0, !.messages = m, !.answers = a]
    BY DEF Answered
  <2> HIDE DEF m, a
  <2> QED
    BY <2>1, <2>2 DEF Chats
<1>2. Answered(ch).depth = 0 /\ Answered(ch).pc = ch.pc
      /\ Answered(ch).turn = ch.turn /\ Answered(ch).address = ch.address
  BY DEF Answered, Chats
<1>3. Answered(ch).done <=> ch.done
  BY DEF Answered, Chats
<1> QED
  BY <1>1, <1>2, <1>3

LEMMA QuietActions ==
    ASSUME IInv, NEW c \in Conv,
           \/ Begin(c) \/ Lose(c) \/ Error(c) \/ Stop(c)
           \/ CallTools(c) \/ ToolReturns(c) \/ ToolRaises(c)
    PROVE  IInv'
<1> DEFINE old == chat[c]
<1>1. old \in Chats /\ Regular(old)
  BY DEF IInv, TypeInv, TypeOK, RegularInv
<1> HIDE DEF old
<1>2. CASE Begin(c)
  <2>1. old.pc = "new" /\ chat' = [chat EXCEPT ![c] = Submit(old)]
    BY <1>2 DEF Begin, old
  <2>2. old.depth = 0 /\ old.running = 0 /\ ~old.done
    BY <1>1, <2>1 DEF Regular
  <2> QED
    BY <1>1, <1>2, <2>1, <2>2, SubmitRecord, QuietStep DEF Begin, old
<1>3. CASE Lose(c)
  <2> DEFINE new == [old EXCEPT !.pc = "lost"]
  <2>1. old.pc = "submitted" /\ chat' = [chat EXCEPT ![c] = new]
    BY <1>3 DEF Lose, old
  <2>2. new \in Chats /\ Regular(new) /\ new.pc = "lost"
        /\ new.turn = old.turn /\ new.address = old.address
    BY <1>1, <2>1 DEF Chats, Phases, Regular
  <2> HIDE DEF new
  <2> QED
    BY <1>3, <2>1, <2>2, QuietStep DEF Lose, old
<1>4. CASE Error(c)
  <2> DEFINE mid == [old EXCEPT !.depth = @ - 1]
  <2>1. old.pc = "sent" /\ chat' = [chat EXCEPT ![c] = Finish(mid)]
    BY <1>4 DEF Error, old
  <2>2. mid \in Chats /\ mid.depth = 0 /\ mid.pc = "sent"
        /\ mid.turn = old.turn /\ mid.address = old.address
    BY <1>1, <2>1 DEF Chats, Phases, Regular
  <2> HIDE DEF mid
  <2> QED
    BY <1>4, <2>1, <2>2, FinishRecord, QuietStep DEF Error, old
<1>5. CASE Stop(c)
  <2>1. old.pc = "sent" /\ chat' = [chat EXCEPT ![c] = Finish(Answered(old))]
    BY <1>5 DEF Stop, old
  <2> DEFINE mid == Answered(old)
  <2>2. old.depth = 1
    BY <1>1, <2>1 DEF Regular
  <2>3. /\ mid \in Chats /\ mid.depth = 0 /\ mid.pc = "sent"
        /\ mid.turn = old.turn /\ mid.address = old.address
    BY <1>1, <2>1, <2>2, AnsweredRecord
  <2> HIDE DEF mid
  <2>4. /\ Finish(mid) \in Chats /\ Regular(Finish(mid)) /\ Finish(mid).pc = "ended"
        /\ Finish(mid).turn = old.turn /\ Finish(mid).address = old.address
    BY <2>3, FinishRecord
  <2> QED
    BY <1>5, <2>1, <2>4, QuietStep DEF Stop, old, mid
<1>6. CASE CallTools(c)
  <2> DEFINE mid == Answered(old)
  <2>1. old.pc = "sent"
    BY <1>6 DEF CallTools, old
  <2>2. PICK n \in 1 .. MaxTools :
          chat' = [chat EXCEPT ![c] =
            [mid EXCEPT !.pc = "tools", !.calls = n, !.running = n, !.failed = FALSE]]
    BY <1>6 DEF CallTools, old
  <2> DEFINE new == [mid EXCEPT !.pc = "tools", !.calls = n, !.running = n, !.failed = FALSE]
  <2>3. old.depth = 1 /\ ~old.done /\ MaxTools \in Nat
    BY <1>1, <2>1, BoundAssumption DEF Regular
  <2>4. mid \in Chats /\ mid.depth = 0 /\ mid.turn = old.turn
        /\ mid.address = old.address /\ ~mid.done
    BY <1>1, <2>3, AnsweredRecord
  <2> HIDE DEF mid
  <2>7. new \in Chats
    <3>1. n \in Nat /\ "tools" \in Phases
      BY <2>3 DEF Phases
    <3> HIDE DEF Phases
    <3> QED
      BY <2>4, <3>1 DEF Chats
  <2>8. new.pc = "tools" /\ new.depth = 0 /\ new.turn = old.turn
        /\ new.address = old.address
    BY <2>4 DEF Chats
  <2>9. ~new.done
    BY <2>4 DEF Chats
  <2>5. new \in Chats /\ Regular(new) /\ new.pc = "tools"
        /\ new.turn = old.turn /\ new.address = old.address
    BY <2>7, <2>8, <2>9 DEF Regular
  <2>6. chat' = [chat EXCEPT ![c] = new]
    BY <2>2
  <2> HIDE DEF new
  <2> QED
    BY <1>6, <2>1, <2>5, <2>6, QuietStep DEF CallTools, old
<1>7. CASE ToolReturns(c)
  <2>1. old.running > 0
    BY <1>7 DEF ToolReturns, old
  <2>2. PICK err \in BOOLEAN :
          LET ch == [old EXCEPT !.running = @ - 1, !.failed = @ \/ err] IN
          chat' = [chat EXCEPT ![c] =
            IF ch.pc # "tools" \/ ch.running > 0 THEN ch
            ELSE IF ch.failed THEN Finish(ch)
            ELSE Submit([ch EXCEPT !.messages = @ + ch.calls])]
    BY <1>7 DEF ToolReturns, old
  <2> DEFINE mid == [old EXCEPT !.running = @ - 1, !.failed = @ \/ err]
             said == [mid EXCEPT !.messages = @ + mid.calls]
  <2>3. mid \in Chats /\ mid.pc = old.pc /\ mid.depth = old.depth
        /\ mid.turn = old.turn /\ mid.address = old.address
        /\ (mid.done <=> old.done)
    <3>1. mid \in Chats
      <4> DEFINE n == old.running - 1
                 f == old.failed \/ err
      <4>1. n \in Nat /\ f \in BOOLEAN
        BY <1>1, <2>1 DEF Chats
      <4>2. mid = [old EXCEPT !.running = n, !.failed = f]
        OBVIOUS
      <4> HIDE DEF n, f, mid
      <4> QED
        BY <1>1, <4>1, <4>2 DEF Chats
    <3>2. mid.pc = old.pc /\ mid.depth = old.depth
          /\ mid.turn = old.turn /\ mid.address = old.address
      BY <1>1 DEF Chats
    <3>3. mid.done <=> old.done
      BY <1>1 DEF Chats
    <3> QED
      BY <3>1, <3>2, <3>3
  <2>4. old.pc \in {"tools", "ended"} /\ old.depth = 0
    BY <1>1, <2>1 DEF Regular, Chats, Phases
  <2>5. UNCHANGED <<home, count, cache, batch, status>>
    BY <1>7 DEF ToolReturns
  <2>6. CASE mid.pc # "tools" \/ mid.running > 0
    <3>1. chat' = [chat EXCEPT ![c] = mid]
      BY <2>2, <2>6
    <3>2. Regular(mid)
      BY <1>1, <2>3, <2>4 DEF Regular
    <3> HIDE DEF mid
    <3> QED
      BY <2>3, <2>4, <2>5, <3>1, <3>2, QuietStep DEF old
  <2>7. CASE mid.pc = "tools" /\ ~(mid.running > 0) /\ mid.failed
    <3>1. chat' = [chat EXCEPT ![c] = Finish(mid)]
      BY <2>2, <2>7
    <3> HIDE DEF mid
    <3> QED
      BY <2>3, <2>4, <2>5, <3>1, FinishRecord, QuietStep DEF old
  <2>8. CASE mid.pc = "tools" /\ ~(mid.running > 0) /\ ~mid.failed
    <3>1. chat' = [chat EXCEPT ![c] = Submit(said)]
      BY <2>2, <2>8
    <3>2. said \in Chats /\ said.depth = 0 /\ said.running = 0 /\ ~said.done
          /\ said.turn = old.turn /\ said.address = old.address
      <4>1. ~old.done
        BY <1>1, <2>3, <2>4, <2>8 DEF Regular
      <4> HIDE DEF mid
      <4> QED
        BY <4>1, <2>3, <2>4, <2>8 DEF Chats
    <3> HIDE DEF said, mid
    <3> QED
      BY <2>5, <3>1, <3>2, SubmitRecord, QuietStep DEF old
  <2> QED
    BY <2>6, <2>7, <2>8
<1>8. CASE ToolRaises(c)
  <2> DEFINE mid == [old EXCEPT !.running = @ - 1]
  <2>1. old.running > 0
        /\ chat' = [chat EXCEPT ![c] = IF mid.pc = "tools" THEN Finish(mid) ELSE mid]
    BY <1>8 DEF ToolRaises, old
  <2>2. old.pc \in {"tools", "ended"} /\ old.depth = 0
    BY <1>1, <2>1 DEF Regular, Chats, Phases
  <2>3. mid \in Chats /\ mid.pc = old.pc /\ mid.depth = 0
        /\ mid.turn = old.turn /\ mid.address = old.address
        /\ (mid.done <=> old.done)
    BY <1>1, <2>1, <2>2 DEF Chats
  <2>4. Regular(mid)
    BY <1>1, <2>2, <2>3 DEF Regular
  <2>5. UNCHANGED <<home, count, cache, batch, status>>
    BY <1>8 DEF ToolRaises
  <2> HIDE DEF mid
  <2>6. CASE mid.pc = "tools"
    BY <2>1, <2>2, <2>3, <2>5, <2>6, FinishRecord, QuietStep DEF old
  <2>7. CASE mid.pc # "tools"
    BY <2>1, <2>2, <2>3, <2>4, <2>5, <2>7, QuietStep DEF old
  <2> QED
    BY <2>6, <2>7
<1> QED
  BY <1>2, <1>3, <1>4, <1>5, <1>6, <1>7, <1>8

(***************************************************************************)
(* The two steps that send a request.                                      *)
(***************************************************************************)

LEMMA SentRecord ==
    ASSUME NEW ch \in Chats, Regular(ch), ch.pc = "submitted", NEW s \in Servers
    PROVE  /\ Sent(ch, s) \in Chats /\ Regular(Sent(ch, s))
           /\ Sent(ch, s).turn = ch.turn + 1 /\ Sent(ch, s).address = s
<1> DEFINE n == ch.turn + 1
<1>1. n \in Nat /\ Sent(ch, s) = [ch EXCEPT !.pc = "sent", !.turn = n, !.address = s]
  BY DEF Chats, Sent
<1>2. ch.depth = 1 /\ ch.running = 0 /\ ~ch.done
  BY DEF Regular
<1> HIDE DEF n
<1>3. Sent(ch, s) \in Chats /\ Sent(ch, s).turn = n /\ Sent(ch, s).address = s
  BY <1>1 DEF Chats, Phases
<1>4. Sent(ch, s).pc = "sent" /\ Sent(ch, s).depth = 1 /\ Sent(ch, s).running = 0
  BY <1>1, <1>2 DEF Chats
<1>5. ~Sent(ch, s).done
  BY <1>1, <1>2 DEF Chats
<1> QED
  BY <1>3, <1>4, <1>5 DEF Regular, n

LEMMA FirstKeeps == ASSUME IInv, NEW c \in Conv, First(c) PROVE IInv'
<1> DEFINE old == chat[c]
<1>1. old \in Chats /\ Regular(old) /\ old.pc = "submitted" /\ old.turn = 0
  BY DEF IInv, TypeInv, TypeOK, RegularInv, First
<1>2. PICK s \in Servers :
        /\ Least(s)
        /\ count' = [count EXCEPT ![s] = @ + 1]
        /\ home' = [home EXCEPT ![c] = s]
        /\ cache' = Remember(cache, <<c, 1>>, s)
        /\ chat' = [chat EXCEPT ![c] = Sent(old, s)]
  BY DEF First
<1>3. UNCHANGED <<batch, status>>
  BY DEF First
<1> DEFINE new == Sent(old, s)
<1>4. new \in Chats /\ Regular(new) /\ new.turn = 1 /\ new.address = s
  BY <1>1, SentRecord
<1> HIDE DEF new
<1>5. chat' = [chat EXCEPT ![c] = new]
  BY <1>2 DEF new
<1>6. \A d \in Conv : /\ chat'[d] = IF d = c THEN new ELSE chat[d]
                     /\ home'[d] = IF d = c THEN s ELSE home[d]
  BY <1>2, <1>5 DEF IInv, TypeInv, TypeOK
<1>7. /\ cache' \in Seq(Entries) /\ Len(cache') <= MaxCache
      /\ \A j \in DOMAIN cache' :
            \/ cache'[j] = [id |-> <<c, 1>>, address |-> s]
            \/ \E k \in DOMAIN cache : cache'[j] = cache[k]
  <2>1. cache \in Seq(Entries) /\ Len(cache) <= MaxCache /\ <<c, 1>> \in Conv \X Nat
    BY DEF IInv, TypeInv, TypeOK
  <2>2. LET after == Remember(cache, <<c, 1>>, s) IN
        /\ after \in Seq(Entries) /\ Len(after) <= MaxCache
        /\ \A j \in DOMAIN after :
              \/ after[j] = [id |-> <<c, 1>>, address |-> s]
              \/ \E k \in DOMAIN cache : after[j] = cache[k]
    BY <2>1, RememberEntry
  <2> QED
    BY <1>2, <2>2
<1>8. TypeInv'
  <2>1. chat' \in [Conv -> Chats]
    BY <1>4, <1>5 DEF IInv, TypeInv, TypeOK
  <2>2. home' \in [Conv -> Servers \cup {None}]
    BY <1>2 DEF IInv, TypeInv, TypeOK
  <2>3. count' \in [Servers -> Nat]
    BY <1>2 DEF IInv, TypeInv, TypeOK
  <2> QED
    BY <1>3, <1>7, <2>1, <2>2, <2>3 DEF IInv, TypeInv, TypeOK
<1>9. RegularInv'
  BY <1>4, <1>6 DEF IInv, RegularInv
<1>10. HomeInv'
  BY <1>4, <1>6, ConvAssumption DEF IInv, HomeInv
<1>11. CacheInv'
  <2> SUFFICES ASSUME NEW j \in DOMAIN cache'
               PROVE  /\ cache'[j].id[2] \in 1 .. chat'[cache'[j].id[1]].turn
                      /\ cache'[j].address = home'[cache'[j].id[1]]
    BY DEF CacheInv
  <2>1. CASE cache'[j] = [id |-> <<c, 1>>, address |-> s]
    BY <1>4, <1>6, <2>1
  <2>2. CASE \E k \in DOMAIN cache : cache'[j] = cache[k]
    <3>1. PICK k \in DOMAIN cache : cache'[j] = cache[k]
      BY <2>2
    <3>2. cache[k].id[1] \in Conv
      BY CachedConv
    <3>3. /\ cache[k].id[2] \in 1 .. chat[cache[k].id[1]].turn
          /\ cache[k].address = home[cache[k].id[1]]
      BY DEF IInv, CacheInv
    <3>4. cache[k].id[1] # c
      BY <1>1, <3>3
    <3> QED
      BY <1>6, <3>1, <3>2, <3>3, <3>4
  <2> QED
    BY <1>7, <2>1, <2>2
<1>12. LoadInv'
  <2>1. home[c] = None /\ None # s /\ c \notin StartedOn(s)
    BY <1>1, ConvAssumption DEF IInv, HomeInv, StartedOn
  <2>2. StartedOn(s)' = StartedOn(s) \cup {c}
    BY <1>6 DEF StartedOn
  <2>3. \A t \in Servers \ {s} : StartedOn(t)' = StartedOn(t)
    BY <1>6, <2>1, ConvAssumption DEF StartedOn
  <2>4. Cardinality(StartedOn(s) \cup {c}) = Cardinality(StartedOn(s)) + 1
    <3>1. IsFiniteSet(StartedOn(s))
      BY ConvAssumption, FS_Subset DEF StartedOn
    <3> QED
      BY <2>1, <3>1, FS_AddElement
  <2>5. \A t \in Servers : count[t] \in Nat /\ count[s] <= count[t]
                          /\ count[t] <= count[s] + 1
                          /\ count[t] = Cardinality(StartedOn(t))
    BY <1>2 DEF IInv, TypeInv, TypeOK, Least, LoadInv
  <2>6. \A t \in Servers : count'[t] = IF t = s THEN count[s] + 1 ELSE count[t]
    BY <1>2 DEF IInv, TypeInv, TypeOK
  <2>7. ASSUME NEW t \in Servers PROVE count'[t] = Cardinality(StartedOn(t)')
    <3>1. CASE t = s
      BY <2>2, <2>4, <2>5, <2>6, <3>1
    <3>2. CASE t # s
      BY <2>3, <2>5, <2>6, <3>2
    <3> QED
      BY <3>1, <3>2
  <2>8. ASSUME NEW t \in Servers, NEW u \in Servers PROVE count'[t] <= count'[u] + 1
    <3>1. count[t] <= count[u] + 1
      BY DEF IInv, LoadInv
    <3> QED
      BY <2>5, <2>6, <3>1
  <2> QED
    BY <2>7, <2>8 DEF LoadInv
<1>13. StickySession'
  BY <1>4, <1>6 DEF IInv, StickySession
<1> QED
  BY <1>8, <1>9, <1>10, <1>11, <1>12, <1>13 DEF IInv

LEMMA FollowKeeps == ASSUME IInv, NEW c \in Conv, Follow(c) PROVE IInv'
<1> DEFINE old == chat[c]
           i == IndexOf(RequestId(c))
           s == cache[i].address
           cut == Without(RequestId(c))
           n == old.turn + 1
           new == Sent(old, s)
<1>1. old \in Chats /\ Regular(old) /\ old.pc = "submitted" /\ n \in Nat
  BY DEF IInv, TypeInv, TypeOK, RegularInv, Follow, Chats
<1>2. i \in DOMAIN cache /\ cache[i].id = <<c, old.turn>>
  BY DEF Follow, Cached, IndexOf, RequestId
<1>3. s \in Servers /\ s = home[c]
  BY <1>2, CachedConv DEF IInv, CacheInv
<1>4. /\ cache' = Remember(cut, <<c, n>>, s)
      /\ chat' = [chat EXCEPT ![c] = new]
      /\ UNCHANGED <<home, count, batch, status>>
  BY DEF Follow, AddressOf
<1>5. new \in Chats /\ Regular(new) /\ new.turn = n /\ new.address = s
  BY <1>1, <1>3, SentRecord
<1>6. /\ cut \in Seq(Entries) /\ Len(cut) <= MaxCache
      /\ \A j \in DOMAIN cut : \E k \in DOMAIN cache : cut[j] = cache[k]
  <2>1. cache \in Seq(Entries) /\ Len(cache) <= MaxCache /\ MaxCache \in Nat
    BY BoundAssumption DEF IInv, TypeInv, TypeOK
  <2> HIDE DEF i
  <2>2. LET q == SubSeq(cache, 1, i - 1) \o SubSeq(cache, i + 1, Len(cache)) IN
        /\ q \in Seq(Entries) /\ Len(q) = Len(cache) - 1
        /\ \A j \in DOMAIN q : q[j] = cache[IF j < i THEN j ELSE j + 1]
    BY <1>2, <2>1, CutSequence
  <2>3. cut = SubSeq(cache, 1, i - 1) \o SubSeq(cache, i + 1, Len(cache))
    BY DEF Without, i
  <2> HIDE DEF cut
  <2>4. /\ cut \in Seq(Entries) /\ Len(cut) = Len(cache) - 1
        /\ \A j \in DOMAIN cut : cut[j] = cache[IF j < i THEN j ELSE j + 1]
    BY <2>2, <2>3
  <2>5. ASSUME NEW j \in DOMAIN cut
        PROVE  (IF j < i THEN j ELSE j + 1) \in DOMAIN cache
    BY <1>2, <2>1, <2>4
  <2> QED
    BY <2>1, <2>4, <2>5
<1> HIDE DEF new, cut, s, i, n
<1>7. /\ cache' \in Seq(Entries) /\ Len(cache') <= MaxCache
      /\ \A j \in DOMAIN cache' :
            \/ cache'[j] = [id |-> <<c, n>>, address |-> s]
            \/ \E k \in DOMAIN cache : cache'[j] = cache[k]
  <2>1. <<c, n>> \in Conv \X Nat
    BY <1>1
  <2>2. LET after == Remember(cut, <<c, n>>, s) IN
        /\ after \in Seq(Entries) /\ Len(after) <= MaxCache
        /\ \A j \in DOMAIN after :
              \/ after[j] = [id |-> <<c, n>>, address |-> s]
              \/ \E k \in DOMAIN cut : after[j] = cut[k]
    BY <1>3, <1>6, <2>1, RememberEntry
  <2>3. /\ cache' \in Seq(Entries) /\ Len(cache') <= MaxCache
        /\ \A j \in DOMAIN cache' :
              \/ cache'[j] = [id |-> <<c, n>>, address |-> s]
              \/ \E k \in DOMAIN cut : cache'[j] = cut[k]
    BY <1>4, <2>2
  <2> QED
    BY <1>6, <2>3
<1>8. \A d \in Conv : chat'[d] = IF d = c THEN new ELSE chat[d]
  BY <1>4 DEF IInv, TypeInv, TypeOK
<1>9. TypeInv'
  <2>1. chat' \in [Conv -> Chats]
    BY <1>4, <1>5 DEF IInv, TypeInv, TypeOK
  <2> QED
    BY <1>4, <1>7, <2>1 DEF IInv, TypeInv, TypeOK
<1>10. RegularInv'
  BY <1>5, <1>8 DEF IInv, RegularInv
<1>11. old.turn \in Nat /\ old.turn > 0 /\ n = old.turn + 1
  BY <1>1 DEF Follow, Chats, n
<1>12. HomeInv'
  BY <1>4, <1>5, <1>8, <1>11 DEF IInv, HomeInv
<1>13. CacheInv'
  <2> SUFFICES ASSUME NEW j \in DOMAIN cache'
               PROVE  /\ cache'[j].id[2] \in 1 .. chat'[cache'[j].id[1]].turn
                      /\ cache'[j].address = home'[cache'[j].id[1]]
    BY DEF CacheInv
  <2>1. CASE cache'[j] = [id |-> <<c, n>>, address |-> s]
    BY <1>3, <1>4, <1>5, <1>8, <1>11, <2>1
  <2>2. CASE \E k \in DOMAIN cache : cache'[j] = cache[k]
    <3>1. PICK k \in DOMAIN cache : cache'[j] = cache[k]
      BY <2>2
    <3> DEFINE d == cache[k].id[1]
               m == cache[k].id[2]
    <3>2. d \in Conv
      BY CachedConv
    <3>3. m \in 1 .. chat[d].turn /\ cache[k].address = home[d]
      BY DEF IInv, CacheInv
    <3>4. chat'[d].turn = IF d = c THEN chat[d].turn + 1 ELSE chat[d].turn
      BY <1>5, <1>8, <1>11, <3>2
    <3>5. chat[d].turn \in Nat
      BY <3>2 DEF IInv, TypeInv, TypeOK, Chats
    <3> HIDE DEF d, m
    <3>6. m \in 1 .. chat'[d].turn
      BY <3>3, <3>4, <3>5
    <3> QED
      BY <1>4, <3>1, <3>3, <3>6 DEF d, m
  <2> QED
    BY <1>7, <2>1, <2>2
<1>14. LoadInv'
  BY <1>4 DEF IInv, LoadInv, StartedOn
<1>15. StickySession'
  BY <1>3, <1>4, <1>5, <1>8 DEF IInv, StickySession
<1> QED
  BY <1>9, <1>10, <1>12, <1>13, <1>14, <1>15 DEF IInv

LEMMA ReturnKeeps == ASSUME IInv, Return PROVE IInv'
<1>1. UNCHANGED <<chat, home, count, cache>>
  BY DEF Return
<1>2. batch' \in 1 .. Batches /\ status' \in {"generating", "returned", "raised"}
  <2>1. batch \in 1 .. Batches /\ Batches \in Nat
    BY BatchAssumption DEF IInv, TypeInv, TypeOK
  <2> QED
    BY <2>1 DEF Return
<1>3. TypeInv'
  BY <1>1, <1>2 DEF IInv, TypeInv, TypeOK
<1> QED
  BY <1>1, <1>3 DEF IInv, RegularInv, HomeInv, CacheInv, LoadInv, StartedOn, StickySession

LEMMA NextIInv == IInv /\ [Next]_vars => IInv'
<1> SUFFICES ASSUME IInv, [Next]_vars PROVE IInv'
  OBVIOUS
<1>1. CASE UNCHANGED vars
  BY <1>1 DEF vars, IInv, TypeInv, TypeOK, RegularInv, HomeInv, CacheInv, LoadInv,
              StartedOn, StickySession
<1>2. ASSUME NEW c \in Conv, Step(c) PROVE IInv'
  BY <1>2, QuietActions, FirstKeeps, FollowKeeps DEF Step
<1>3. CASE Return
  BY <1>3, ReturnKeeps
<1> QED
  BY <1>1, <1>2, <1>3 DEF Next, Over

LEMMA Invariant == Spec => []IInv
<1>1. Init => IInv
  BY InitIInv
<1>2. IInv /\ [Next]_vars => IInv'
  BY NextIInv
<1> QED
  BY <1>1, <1>2, PTL DEF Spec

(***************************************************************************)
(* The cache keeps what the running call needs.                            *)
(***************************************************************************)

\* A call of generate_sequences that has no more conversations than the cache
\* has places.
Fits(b) == Cardinality({d \in Conv : BatchOf[d] = b}) <= MaxCache

\* A conversation that has sent a request and may send another one.
Resubmits(ch) == ch.pc \in {"submitted", "sent", "tools"} /\ ch.turn > 0

\* The calls are made one after the other.
CallInv ==
    \A c \in Conv : /\ BatchOf[c] > batch => chat[c].pc = "new"
                    /\ BatchOf[c] < batch => chat[c].done

About(i) == cache[i].id[1]

\* A conversation has one entry at most, its last request; what earlier calls
\* left comes before what this one added.
EntryInv ==
    /\ \A i \in DOMAIN cache : cache[i].id[2] = chat[About(i)].turn
    /\ \A i, j \in DOMAIN cache :
          i < j => About(i) # About(j) /\ BatchOf[About(i)] <= BatchOf[About(j)]

NeededInv ==
    \A c \in Conv : Fits(BatchOf[c]) =>
        /\ Resubmits(chat[c]) => Cached(RequestId(c))
        /\ chat[c].pc # "lost"

KeptInv == CallInv /\ EntryInv /\ NeededInv

\* Most steps leave the cache alone and keep what a conversation needs of it.
LEMMA QuietKeepsCache ==
    ASSUME IInv, KeptInv, NEW c \in Conv,
           \A d \in Conv \ {c} : chat'[d] = chat[d],
           chat'[c].turn = chat[c].turn, chat[c].done => chat'[c].done,
           BatchOf[c] <= batch, Fits(BatchOf[c]) => chat'[c].pc # "lost",
           Resubmits(chat'[c]) => Resubmits(chat[c]), cache' = cache, batch' = batch
    PROVE  KeptInv'
<1>1. /\ batch \in Nat /\ \A d \in Conv : BatchOf[d] \in Nat
      /\ \A d \in Conv : chat'[d].turn = chat[d].turn
  <2>1. batch \in Nat /\ \A d \in Conv : BatchOf[d] \in Nat
    BY BatchAssumption DEF IInv, TypeInv, TypeOK
  <2>2. ASSUME NEW d \in Conv PROVE chat'[d].turn = chat[d].turn
    <3>1. d = c \/ chat'[d] = chat[d]
      OBVIOUS
    <3> QED
      BY <3>1
  <2> QED
    BY <2>1, <2>2
<1>2. CallInv'
  BY <1>1 DEF KeptInv, CallInv
<1>3. EntryInv'
  <2>1. \A i \in DOMAIN cache : About(i) \in Conv /\ About(i)' = About(i)
    BY CachedConv DEF About
  <2> QED
    BY <1>1, <2>1 DEF KeptInv, EntryInv
<1>4. NeededInv'
  <2>1. \A d \in Conv : Resubmits(chat'[d]) => Resubmits(chat[d])
    OBVIOUS
  <2>2. \A d \in Conv : RequestId(d)' = RequestId(d)
    BY <1>1 DEF RequestId
  <2>3. \A d \in Conv : Cached(RequestId(d))' <=> Cached(RequestId(d))
    BY <2>2 DEF Cached
  <2> QED
    BY <2>1, <2>3 DEF KeptInv, NeededInv
<1> QED
  BY <1>2, <1>3, <1>4 DEF KeptInv

LEMMA QuietActionsKeepCache ==
    ASSUME IInv, KeptInv, NEW c \in Conv,
           \/ Begin(c) \/ Lose(c) \/ Error(c) \/ Stop(c)
           \/ CallTools(c) \/ ToolReturns(c) \/ ToolRaises(c)
    PROVE  KeptInv'
<1> DEFINE old == chat[c]
<1>1. old \in Chats /\ Regular(old) /\ chat \in [Conv -> Chats]
  BY DEF IInv, TypeInv, TypeOK, RegularInv
<1>2. \A d \in Conv \ {c} : chat'[d] = chat[d]
  BY <1>1 DEF Begin, Lose, Error, Stop, CallTools, ToolReturns, ToolRaises
<1>3. cache' = cache /\ batch' = batch
  BY DEF Begin, Lose, Error, Stop, CallTools, ToolReturns, ToolRaises
<1>4. BatchOf[c] <= batch
  <2>1. batch \in Nat /\ BatchOf[c] \in Nat
    BY BatchAssumption DEF IInv, TypeInv, TypeOK
  <2>2. CASE Begin(c)
    BY <2>1, <2>2 DEF Begin
  <2>3. CASE ~Begin(c)
    <3>1. old.pc # "new"
      <4>1. old.pc \in {"submitted", "sent"} \/ old.running > 0
        BY <2>3 DEF Lose, Error, Stop, CallTools, ToolReturns, ToolRaises
      <4> HIDE DEF old
      <4> QED
        BY <1>1, <4>1 DEF Regular
    <3> QED
      BY <2>1, <3>1 DEF KeptInv, CallInv
  <2> QED
    BY <2>2, <2>3
<1>5. /\ chat'[c].turn = old.turn /\ (old.done => chat'[c].done)
      /\ chat'[c].pc = "lost" => Lose(c)
      /\ Resubmits(chat'[c]) => Resubmits(old)
  <2>1. CASE Begin(c)
    BY <1>1, <2>1 DEF Begin, Submit, Chats, Resubmits, Regular
  <2>2. CASE Lose(c)
    BY <1>1, <2>2 DEF Lose, Chats, Resubmits, Regular
  <2>3. CASE Error(c)
    BY <1>1, <2>3 DEF Error, Finish, Chats, Resubmits, Regular
  <2>4. CASE Stop(c)
    BY <1>1, <2>4 DEF Stop, Finish, Answered, Chats, Resubmits, Regular
  <2>5. CASE CallTools(c)
    <3> DEFINE mid == Answered(old)
    <3>1. old.pc = "sent" /\ old.depth = 1
      BY <1>1, <2>5 DEF CallTools, Regular
    <3>2. mid \in Chats /\ mid.turn = old.turn /\ (old.done => mid.done)
      BY <1>1, <3>1, AnsweredRecord
    <3>3. PICK n \in 1 .. MaxTools :
            chat' = [chat EXCEPT ![c] =
              [mid EXCEPT !.pc = "tools", !.calls = n, !.running = n, !.failed = FALSE]]
      BY <2>5 DEF CallTools
    <3> HIDE DEF mid
    <3>4. /\ chat'[c].turn = old.turn /\ (old.done => chat'[c].done)
          /\ chat'[c].pc = "tools"
      BY <1>1, <3>2, <3>3 DEF Chats
    <3> HIDE DEF old
    <3> QED
      BY <3>1, <3>4 DEF Resubmits
  <2>6. CASE ToolReturns(c)
    <3>1. PICK err \in BOOLEAN :
            LET ch == [old EXCEPT !.running = @ - 1, !.failed = @ \/ err] IN
            chat' = [chat EXCEPT ![c] =
              IF ch.pc # "tools" \/ ch.running > 0 THEN ch
              ELSE IF ch.failed THEN Finish(ch)
              ELSE Submit([ch EXCEPT !.messages = @ + ch.calls])]
      BY <2>6 DEF ToolReturns
    <3> DEFINE mid == [old EXCEPT !.running = @ - 1, !.failed = @ \/ err]
    <3>2. /\ mid.turn = old.turn /\ (old.done => mid.done) /\ mid.pc = old.pc
          /\ old.pc \notin {"lost", "new", "submitted", "sent"}
      <4>1. old.running > 0
        BY <2>6 DEF ToolReturns
      <4>2. mid.turn = old.turn /\ mid.pc = old.pc
        BY <1>1 DEF Chats
      <4>3. old.done => mid.done
        BY <1>1 DEF Chats
      <4> HIDE DEF old, mid
      <4>4. old.pc \notin {"lost", "new", "submitted", "sent"}
        BY <1>1, <4>1 DEF Regular
      <4> QED
        BY <4>2, <4>3, <4>4
    <3>3. /\ chat'[c].turn = old.turn /\ (old.done => chat'[c].done)
          /\ chat'[c].pc \in {mid.pc, "ended", "submitted"}
          /\ mid.pc # "tools" => chat'[c].pc = mid.pc
      BY <1>1, <3>1, <3>2 DEF Finish, Submit, Chats
    <3> HIDE DEF mid
    <3> QED
      BY <3>2, <3>3 DEF Resubmits
  <2>7. CASE ToolRaises(c)
    BY <1>1, <2>7 DEF ToolRaises, Finish, Chats, Phases, Resubmits, Regular
  <2> QED
    BY <2>1, <2>2, <2>3, <2>4, <2>5, <2>6, <2>7
<1>6. Fits(BatchOf[c]) => chat'[c].pc # "lost"
  BY <1>5 DEF Lose, Resubmits, KeptInv, NeededInv
<1> QED
  BY <1>2, <1>3, <1>4, <1>5, <1>6, QuietKeepsCache

LEMMA ReturnKeepsCache == ASSUME IInv, KeptInv, Return PROVE KeptInv'
<1>1. /\ chat' = chat /\ cache' = cache
      /\ \A c \in Conv : BatchOf[c] = batch => chat[c].done
      /\ batch' \in {batch, batch + 1}
  BY DEF Return
<1>2. batch \in Nat /\ \A c \in Conv : BatchOf[c] \in Nat
  BY BatchAssumption DEF IInv, TypeInv, TypeOK
<1>3. CallInv'
  BY <1>1, <1>2 DEF KeptInv, CallInv
<1>4. EntryInv' /\ NeededInv'
  BY <1>1 DEF KeptInv, EntryInv, NeededInv, About, Cached, RequestId
<1> QED
  BY <1>3, <1>4 DEF KeptInv

\* Where the entries of a cache are after a new one was remembered: as many
\* are dropped, none or the oldest one, as there is no room for.
LEMMA RememberPlaces ==
    ASSUME NEW q \in Seq(Entries), Len(q) <= MaxCache,
           NEW id \in Conv \X Nat, NEW s \in Servers
    PROVE  LET after == Remember(q, id, s)
               gone == IF Len(q) < MaxCache THEN 0 ELSE 1
           IN  /\ Len(after) = Len(q) - gone + 1
               /\ after[Len(after)] = [id |-> id, address |-> s]
               /\ \A j \in 1 .. Len(after) - 1 : after[j] = q[j + gone]
<1> DEFINE e == [id |-> id, address |-> s]
           gone == IF Len(q) < MaxCache THEN 0 ELSE 1
           kept == IF Len(q) < MaxCache THEN q ELSE Tail(q)
<1>1. MaxCache \in Nat \ {0} /\ Len(q) \in Nat /\ e \in Entries
  BY BoundAssumption DEF Entries
<1>2. kept \in Seq(Entries) /\ Len(kept) = Len(q) - gone
      /\ \A j \in 1 .. Len(kept) : kept[j] = q[j + gone]
  <2>1. CASE Len(q) < MaxCache
    BY <1>1, <2>1
  <2>2. CASE ~(Len(q) < MaxCache)
    BY <1>1, <2>2
  <2> QED
    BY <2>1, <2>2
<1> HIDE DEF kept, gone
<1>3. Len(Append(kept, e)) = Len(kept) + 1 /\ Append(kept, e)[Len(kept) + 1] = e
      /\ \A j \in 1 .. Len(kept) : Append(kept, e)[j] = kept[j]
  BY <1>1, <1>2
<1>4. Remember(q, id, s) = Append(kept, e)
  BY DEF Remember, kept
<1>5. LET after == Remember(q, id, s)
      IN  /\ Len(after) = Len(q) - gone + 1
          /\ after[Len(after)] = e
          /\ \A j \in 1 .. Len(after) - 1 : after[j] = q[j + gone]
  <2>1. Len(kept) \in Nat /\ (Len(q) - gone + 1) - 1 = Len(kept)
    BY <1>2
  <2> QED
    BY <1>2, <1>3, <1>4, <2>1
<1> QED
  BY <1>5 DEF gone

\* A conversation's last request takes the last place of the cache, and what
\* the others have there moves up without changing its order; what another
\* conversation of a call that fits needs is not dropped.
Moves(c, m, f) ==
    /\ Len(cache') = m + 1 /\ cache'[m + 1].id = <<c, chat'[c].turn>>
    /\ \A j \in 1 .. m : cache'[j] = cache[f[j]] /\ About(f[j]) # c
    /\ \A j, k \in 1 .. m : j < k => f[j] < f[k]
    /\ \A i \in DOMAIN cache : Fits(batch) /\ BatchOf[About(i)] = batch /\ About(i) # c
           => \E j \in 1 .. m : f[j] = i

MovesUp(c) == \E m \in Nat : \E f \in [1 .. m -> DOMAIN cache] : Moves(c, m, f)

LEMMA MovesKeepCache ==
    ASSUME IInv, IInv', KeptInv, NEW c \in Conv, MovesUp(c),
           \A d \in Conv \ {c} : chat'[d] = chat[d],
           chat'[c].pc = "sent", BatchOf[c] = batch, batch' = batch
    PROVE  KeptInv'
<1> PICK m \in Nat : \E f \in [1 .. m -> DOMAIN cache] : Moves(c, m, f)
  BY DEF MovesUp
<1> PICK f \in [1 .. m -> DOMAIN cache] : Moves(c, m, f)
  OBVIOUS
<1> USE DEF Moves
<1>1. batch \in Nat /\ \A d \in Conv : BatchOf[d] \in Nat
  BY BatchAssumption DEF IInv, TypeInv, TypeOK
<1>2. DOMAIN cache' = 1 .. m + 1 /\ DOMAIN cache \subseteq Nat
  BY DEF IInv, TypeInv, TypeOK
<1>3. /\ \A j \in 1 .. m : About(j)' = About(f[j])
      /\ About(m + 1)' = c
      /\ \A i \in DOMAIN cache : About(i) \in Conv
  <2>1. \A i \in DOMAIN cache : About(i) \in Conv
    BY CachedConv DEF About
  <2> QED
    BY <2>1 DEF About
<1>4. CallInv'
  <2>1. ~(BatchOf[c] > batch) /\ ~(BatchOf[c] < batch)
    BY <1>1
  <2> QED
    BY <2>1 DEF KeptInv, CallInv
\* No entry is of a later call.
<1>5. \A i \in DOMAIN cache : BatchOf[About(i)] <= batch
  <2>1. SUFFICES ASSUME NEW i \in DOMAIN cache, BatchOf[About(i)] > batch PROVE FALSE
    BY <1>1, <1>3
  <2>2. About(i) \in Conv /\ chat[About(i)].pc = "new"
    BY <1>3, <2>1 DEF KeptInv, CallInv
  <2>3. chat[About(i)].turn = 0
    BY <2>2 DEF IInv, RegularInv, Regular
  <2> QED
    BY <2>3 DEF IInv, CacheInv, About
<1>6. EntryInv'
  <2>1. ASSUME NEW j \in 1 .. m + 1 PROVE cache'[j].id[2] = chat'[About(j)'].turn
    <3>1. CASE j = m + 1
      BY <1>3, <3>1
    <3>2. CASE j # m + 1
      <4>1. j \in 1 .. m
        BY <3>2
      <4> QED
        BY <1>3, <4>1 DEF KeptInv, EntryInv
    <3> QED
      BY <3>1, <3>2
  <2>2. ASSUME NEW j \in 1 .. m + 1, NEW k \in 1 .. m + 1, j < k
        PROVE  About(j)' # About(k)' /\ BatchOf[About(j)'] <= BatchOf[About(k)']
    <3>1. j \in 1 .. m
      BY <2>2
    <3>2. CASE k = m + 1
      BY <1>3, <1>5, <3>1, <3>2
    <3>3. CASE k # m + 1
      <4>1. k \in 1 .. m
        BY <3>3
      <4>2. f[j] < f[k] /\ f[j] \in DOMAIN cache /\ f[k] \in DOMAIN cache
        BY <2>2, <3>1, <4>1
      <4> QED
        BY <1>3, <3>1, <4>1, <4>2 DEF KeptInv, EntryInv
    <3> QED
      BY <3>2, <3>3
  <2> QED
    BY <1>2, <2>1, <2>2 DEF EntryInv
<1>7. NeededInv'
  <2>1. SUFFICES ASSUME NEW d \in Conv, Fits(BatchOf[d])
                 PROVE  /\ Resubmits(chat'[d]) => Cached(RequestId(d))'
                        /\ chat'[d].pc # "lost"
    BY DEF NeededInv
  <2>2. CASE d = c
    <3>1. m + 1 \in DOMAIN cache'
      BY <1>2
    <3> QED
      BY <2>2, <3>1 DEF Cached, RequestId
  <2>3. CASE d # c
    <3>1. chat'[d] = chat[d] /\ chat[d].pc # "lost"
      BY <2>1, <2>3 DEF KeptInv, NeededInv
    <3>2. ASSUME Resubmits(chat[d]) PROVE Cached(RequestId(d))'
      <4>1. PICK i \in DOMAIN cache : cache[i].id = <<d, chat[d].turn>>
        BY <2>1, <3>2 DEF KeptInv, NeededInv, Cached, RequestId
      <4>2. BatchOf[d] = batch
        <5>1. chat[d].pc # "new" /\ ~chat[d].done
          BY <3>2 DEF Resubmits, IInv, RegularInv, Regular
        <5> QED
          BY <1>1, <5>1 DEF KeptInv, CallInv
      <4>3. About(i) = d
        BY <4>1 DEF About
      <4>4. PICK j \in 1 .. m : f[j] = i
        BY <2>1, <2>3, <4>2, <4>3
      <4>5. cache'[j].id = <<d, chat'[d].turn>> /\ j \in DOMAIN cache'
        BY <1>2, <3>1, <4>1, <4>4
      <4> QED
        BY <4>5 DEF Cached, RequestId
    <3> QED
      BY <3>1, <3>2
  <2> QED
    BY <2>2, <2>3
<1> QED
  BY <1>4, <1>6, <1>7 DEF KeptInv

\* A conversation that was submitted and is not over belongs to the running call.
LEMMA SubmittedIsCurrent ==
    ASSUME IInv, KeptInv, NEW c \in Conv, chat[c].pc = "submitted"
    PROVE  BatchOf[c] = batch /\ batch \in Nat /\ \A d \in Conv : BatchOf[d] \in Nat
<1>1. batch \in Nat /\ \A d \in Conv : BatchOf[d] \in Nat
  BY BatchAssumption DEF IInv, TypeInv, TypeOK
<1>2. ~chat[c].done
  BY DEF IInv, RegularInv, Regular
<1> QED
  BY <1>1, <1>2 DEF KeptInv, CallInv

\* When a call that fits begins one more conversation and the cache is full,
\* its oldest entry is of an earlier call: were it of this one, so were all
\* that came after it, and there are too many.
LEMMA OldestIsOfEarlierCall ==
    ASSUME IInv, KeptInv, NEW c \in Conv, chat[c].pc = "submitted", chat[c].turn = 0,
           Fits(batch), Len(cache) = MaxCache
    PROVE  BatchOf[About(1)] # batch
<1> DEFINE B == {d \in Conv : BatchOf[d] = batch}
           C == B \ {c}
           f == [i \in 1 .. MaxCache |-> About(i)]
<1>1. SUFFICES ASSUME BatchOf[About(1)] = batch PROVE FALSE
  OBVIOUS
<1>2. /\ MaxCache \in Nat \ {0} /\ DOMAIN cache = 1 .. MaxCache
      /\ BatchOf[c] = batch /\ batch \in Nat /\ \A d \in Conv : BatchOf[d] \in Nat
      /\ \A i \in DOMAIN cache : About(i) \in Conv
  <2>1. DOMAIN cache = 1 .. MaxCache
    BY DEF IInv, TypeInv, TypeOK
  <2> QED
    BY <2>1, BoundAssumption, SubmittedIsCurrent, CachedConv DEF About
<1>3. ASSUME NEW i \in 1 .. MaxCache PROVE About(i) \in C
  <2>1. About(i) # c
    BY <1>2 DEF IInv, CacheInv, About
  <2>2. BatchOf[About(1)] <= BatchOf[About(i)]
    <3>1. 1 \in DOMAIN cache /\ i \in DOMAIN cache /\ (i = 1 \/ 1 < i)
      BY <1>2
    <3> QED
      BY <1>2, <3>1 DEF KeptInv, EntryInv
  <2>3. BatchOf[About(i)] <= batch
    <3>1. SUFFICES ASSUME BatchOf[About(i)] > batch PROVE FALSE
      BY <1>2
    <3>2. About(i) \in Conv /\ chat[About(i)].pc = "new"
      BY <1>2, <3>1 DEF KeptInv, CallInv
    <3>3. chat[About(i)].turn = 0
      BY <3>2 DEF IInv, RegularInv, Regular
    <3> QED
      BY <1>2, <3>3 DEF IInv, CacheInv, About
  <2> QED
    BY <1>1, <1>2, <2>1, <2>2, <2>3
<1>4. \A i, j \in 1 .. MaxCache : About(i) = About(j) => i = j
  <2>1. ASSUME NEW i \in 1 .. MaxCache, NEW j \in 1 .. MaxCache, About(i) = About(j), i # j
        PROVE  FALSE
    <3>1. (i < j \/ j < i) /\ i \in DOMAIN cache /\ j \in DOMAIN cache
      BY <1>2, <2>1
    <3> QED
      BY <2>1, <3>1 DEF KeptInv, EntryInv
  <2> QED
    BY <2>1
<1>5. f \in Injection(1 .. MaxCache, C)
  <2> HIDE DEF C
  <2>1. f \in [1 .. MaxCache -> C] /\ \A i \in 1 .. MaxCache : f[i] = About(i)
    BY <1>3
  <2> HIDE DEF f
  <2> QED
    BY <1>4, <2>1 DEF Injection, IsInjective
<1>6. /\ IsFiniteSet(B) /\ IsFiniteSet(C) /\ c \in B
      /\ Cardinality(C) = Cardinality(B) - 1 /\ Cardinality(B) \in Nat
  <2>1. IsFiniteSet(B) /\ c \in B
    BY <1>2, ConvAssumption, FS_Subset
  <2> QED
    BY <2>1, FS_RemoveElement, FS_CardinalityType
<1>7. Cardinality(1 .. MaxCache) = MaxCache
  BY <1>2, FS_Interval
<1>8. Cardinality(1 .. MaxCache) <= Cardinality(C)
  <2> HIDE DEF f, C
  <2> QED
    BY <1>5, <1>6, FS_Injection
<1>9. Cardinality(B) <= MaxCache
  BY DEF Fits
<1> QED
  BY <1>2, <1>6, <1>7, <1>8, <1>9

LEMMA FirstKeepsCache == ASSUME IInv, IInv', KeptInv, NEW c \in Conv, First(c) PROVE KeptInv'
<1> DEFINE old == chat[c]
           gone == IF Len(cache) < MaxCache THEN 0 ELSE 1
           m == Len(cache) - gone
           f == [j \in 1 .. m |-> j + gone]
<1>1. /\ old \in Chats /\ old.pc = "submitted" /\ old.turn = 0 /\ chat \in [Conv -> Chats]
      /\ cache \in Seq(Entries) /\ Len(cache) \in Nat /\ Len(cache) <= MaxCache
      /\ MaxCache \in Nat \ {0}
  BY BoundAssumption DEF IInv, TypeInv, TypeOK, First
<1>2. PICK s \in Servers :
        /\ cache' = Remember(cache, <<c, 1>>, s)
        /\ chat' = [chat EXCEPT ![c] = Sent(old, s)]
  BY DEF First
<1>3. gone \in {0, 1} /\ m \in Nat /\ (gone = 1 => Len(cache) = MaxCache)
  BY <1>1
<1>4. /\ Len(cache') = m + 1 /\ cache'[m + 1] = [id |-> <<c, 1>>, address |-> s]
      /\ \A j \in 1 .. m : cache'[j] = cache[j + gone]
  <2>1. <<c, 1>> \in Conv \X Nat
    OBVIOUS
  <2>2. LET after == Remember(cache, <<c, 1>>, s)
        IN  /\ Len(after) = Len(cache) - gone + 1
            /\ after[Len(after)] = [id |-> <<c, 1>>, address |-> s]
            /\ \A j \in 1 .. Len(after) - 1 : after[j] = cache[j + gone]
    <3>1. cache \in Seq(Entries) /\ Len(cache) <= MaxCache
      BY <1>1
    <3> QED
      BY <2>1, <3>1, RememberPlaces, Zenon
  <2> HIDE DEF gone
  <2>3. m + 1 = Len(cache) - gone + 1 /\ (m + 1) - 1 = m
    BY <1>1, <1>3
  <2> HIDE DEF m
  <2> QED
    BY <1>2, <1>3, <2>2, <2>3
<1>5. f \in [1 .. m -> DOMAIN cache] /\ \A j, k \in 1 .. m : j < k => f[j] < f[k]
  BY <1>1, <1>3
<1>6. /\ \A d \in Conv \ {c} : chat'[d] = chat[d]
      /\ chat'[c].pc = "sent" /\ chat'[c].turn = 1
  BY <1>1, <1>2 DEF Sent, Chats
<1>7. \A i \in DOMAIN cache : About(i) # c
  BY <1>1 DEF IInv, CacheInv, About
<1>8. BatchOf[c] = batch /\ batch' = batch
  BY <1>1, SubmittedIsCurrent DEF First
<1>9. ASSUME NEW i \in DOMAIN cache, Fits(batch), BatchOf[About(i)] = batch
      PROVE  \E j \in 1 .. m : f[j] = i
  <2>1. i > gone
    <3>1. CASE gone = 0
      BY <1>1, <3>1
    <3>2. CASE gone = 1
      <4>1. i # 1
        BY <1>1, <1>3, <1>9, <3>2, OldestIsOfEarlierCall
      <4> QED
        BY <1>1, <3>2, <4>1
    <3> QED
      BY <1>3, <3>1, <3>2
  <2>2. i - gone \in 1 .. m
    BY <1>1, <1>3, <2>1
  <2> QED
    BY <1>1, <1>3, <2>2
<1>10. cache'[m + 1].id = <<c, chat'[c].turn>>
  BY <1>4, <1>6
<1>11. \A j \in 1 .. m : cache'[j] = cache[f[j]] /\ About(f[j]) # c
  BY <1>4, <1>5, <1>7
<1>12. \A i \in DOMAIN cache : Fits(batch) /\ BatchOf[About(i)] = batch /\ About(i) # c
           => \E j \in 1 .. m : f[j] = i
  BY <1>9
<1> HIDE DEF f, m
<1>13. m \in Nat /\ Len(cache') = m + 1
  BY <1>3, <1>4
<1> QED
  <2>1. MovesUp(c)
    BY <1>5, <1>10, <1>11, <1>12, <1>13 DEF MovesUp, Moves
  <2> QED
    BY <1>6, <1>8, <2>1, MovesKeepCache

LEMMA FollowKeepsCache == ASSUME IInv, IInv', KeptInv, NEW c \in Conv, Follow(c) PROVE KeptInv'
<1> DEFINE old == chat[c]
           i == IndexOf(RequestId(c))
           s == cache[i].address
           cut == Without(RequestId(c))
           n == old.turn + 1
           m == Len(cache) - 1
           f == [j \in 1 .. m |-> IF j < i THEN j ELSE j + 1]
<1>1. /\ old \in Chats /\ old.pc = "submitted" /\ old.turn \in Nat /\ n \in Nat
      /\ chat \in [Conv -> Chats]
      /\ cache \in Seq(Entries) /\ Len(cache) \in Nat /\ Len(cache) <= MaxCache
      /\ MaxCache \in Nat \ {0} /\ DOMAIN cache = 1 .. Len(cache)
  <2>1. /\ old \in Chats /\ old.pc = "submitted" /\ chat \in [Conv -> Chats]
        /\ cache \in Seq(Entries) /\ Len(cache) <= MaxCache
    BY DEF IInv, TypeInv, TypeOK, Follow
  <2>2. old.turn \in Nat
    BY <2>1 DEF Chats
  <2> QED
    BY <2>1, <2>2, BoundAssumption
<1>2. i \in DOMAIN cache /\ cache[i].id = <<c, old.turn>>
  BY DEF Follow, Cached, IndexOf, RequestId
<1>3. s \in Servers
  BY <1>2, CachedConv
<1>4. /\ cache' = Remember(cut, <<c, n>>, s)
      /\ chat' = [chat EXCEPT ![c] = Sent(old, s)] /\ batch' = batch
  BY DEF Follow, AddressOf
<1>5. /\ cut \in Seq(Entries) /\ Len(cut) = m
      /\ \A j \in 1 .. m : cut[j] = cache[IF j < i THEN j ELSE j + 1]
  <2> HIDE DEF i
  <2>1. LET q == SubSeq(cache, 1, i - 1) \o SubSeq(cache, i + 1, Len(cache)) IN
        /\ q \in Seq(Entries) /\ Len(q) = Len(cache) - 1
        /\ \A j \in DOMAIN q : q[j] = cache[IF j < i THEN j ELSE j + 1]
    BY <1>1, <1>2, CutSequence
  <2>2. cut = SubSeq(cache, 1, i - 1) \o SubSeq(cache, i + 1, Len(cache))
    BY DEF Without, i
  <2> HIDE DEF cut
  <2>3. /\ cut \in Seq(Entries) /\ Len(cut) = m
        /\ \A j \in DOMAIN cut : cut[j] = cache[IF j < i THEN j ELSE j + 1]
    BY <2>1, <2>2
  <2> QED
    BY <2>3
<1> HIDE DEF i, s, cut
<1>6. m \in Nat /\ m < MaxCache
  BY <1>1, <1>2
<1>7. /\ Len(cache') = m + 1 /\ cache'[m + 1] = [id |-> <<c, n>>, address |-> s]
      /\ \A j \in 1 .. m : cache'[j] = cut[j]
  <2>1. <<c, n>> \in Conv \X Nat
    BY <1>1
  <2>2. LET after == Remember(cut, <<c, n>>, s)
            gone == IF Len(cut) < MaxCache THEN 0 ELSE 1
        IN  /\ Len(after) = Len(cut) - gone + 1
            /\ after[Len(after)] = [id |-> <<c, n>>, address |-> s]
            /\ \A j \in 1 .. Len(after) - 1 : after[j] = cut[j + gone]
    <3>1. cut \in Seq(Entries) /\ Len(cut) <= MaxCache
      BY <1>1, <1>5, <1>6
    <3> QED
      BY <1>3, <2>1, <3>1, RememberPlaces, Zenon
  <2>3. Len(cut) < MaxCache /\ Len(cut) - 0 + 1 = m + 1 /\ (m + 1) - 1 = m
        /\ \A j \in 1 .. m : j + 0 = j
    BY <1>5, <1>6
  <2>4. LET after == Remember(cut, <<c, n>>, s)
        IN  /\ Len(after) = Len(cut) - 0 + 1
            /\ after[Len(after)] = [id |-> <<c, n>>, address |-> s]
            /\ \A j \in 1 .. Len(after) - 1 : after[j] = cut[j + 0]
    BY <2>2, <2>3
  <2> HIDE DEF m, n
  <2> QED
    BY <1>4, <2>3, <2>4
<1>8. f \in [1 .. m -> DOMAIN cache] /\ \A j, k \in 1 .. m : j < k => f[j] < f[k]
  BY <1>1, <1>2, <1>6
<1>9. /\ \A d \in Conv \ {c} : chat'[d] = chat[d]
      /\ chat'[c].pc = "sent" /\ chat'[c].turn = n
  BY <1>1, <1>4 DEF Sent, Chats
<1>10. ASSUME NEW j \in DOMAIN cache PROVE About(j) = c <=> j = i
  <2>1. About(i) = c
    BY <1>2 DEF About
  <2>2. j = i \/ j < i \/ i < j
    BY <1>1, <1>2
  <2> QED
    BY <1>2, <2>1, <2>2 DEF KeptInv, EntryInv
<1>11. BatchOf[c] = batch
  BY <1>1, SubmittedIsCurrent
<1>12. ASSUME NEW j \in DOMAIN cache, j # i PROVE \E k \in 1 .. m : f[k] = j
  <2>1. CASE j < i
    <3>1. j \in 1 .. m
      BY <1>1, <1>2, <2>1
    <3> QED
      BY <2>1, <3>1
  <2>2. CASE ~(j < i)
    <3>1. j - 1 \in 1 .. m /\ ~(j - 1 < i)
      BY <1>1, <1>2, <1>12, <2>2
    <3> QED
      BY <1>1, <3>1
  <2> QED
    BY <2>1, <2>2
<1>13. \A j \in 1 .. m : f[j] # i
  BY <1>1, <1>2
<1>14. \A j \in 1 .. m : cache'[j] = cache[f[j]] /\ About(f[j]) # c
  BY <1>5, <1>7, <1>8, <1>10, <1>13
<1>15. cache'[m + 1].id = <<c, chat'[c].turn>>
  BY <1>7, <1>9
<1>16. \A j \in DOMAIN cache : Fits(batch) /\ BatchOf[About(j)] = batch /\ About(j) # c
           => \E k \in 1 .. m : f[k] = j
  BY <1>10, <1>12
<1> HIDE DEF f, m
<1>17. m \in Nat /\ Len(cache') = m + 1 /\ batch' = batch
  BY <1>4, <1>6, <1>7
<1> QED
  <2>1. MovesUp(c)
    BY <1>8, <1>14, <1>15, <1>16, <1>17 DEF MovesUp, Moves
  <2> QED
    BY <1>9, <1>11, <1>17, <2>1, MovesKeepCache

LEMMA InitKeptInv == Init => KeptInv
<1>1. SUFFICES ASSUME Init PROVE KeptInv
  OBVIOUS
<1>2. CallInv
  BY <1>1, BatchAssumption DEF Init, CallInv, Fresh
<1>3. EntryInv /\ NeededInv
  BY <1>1 DEF Init, EntryInv, NeededInv, Fresh, Resubmits
<1> QED
  BY <1>2, <1>3 DEF KeptInv

LEMMA NextKeptInv == ASSUME IInv, IInv', KeptInv, [Next]_vars PROVE KeptInv'
<1>1. CASE UNCHANGED vars
  BY <1>1 DEF vars, KeptInv, CallInv, EntryInv, NeededInv, About, Cached, RequestId
<1>2. ASSUME NEW c \in Conv, Step(c) PROVE KeptInv'
  BY <1>2, QuietActionsKeepCache, FirstKeepsCache, FollowKeepsCache DEF Step
<1>3. CASE Return
  BY <1>3, ReturnKeepsCache
<1> QED
  BY <1>1, <1>2, <1>3 DEF Next, Over

LEMMA KeptInvariant == Spec => [](IInv /\ KeptInv)
<1>1. Init => IInv /\ KeptInv
  BY InitIInv, InitKeptInv
<1>2. (IInv /\ KeptInv) /\ [Next]_vars => (IInv /\ KeptInv)'
  BY NextIInv, NextKeptInv
<1> QED
  BY <1>1, <1>2, PTL DEF Spec

\* The assertion on the cache never fails in a call that has no more
\* conversations than the cache has places, for any size of it and any number
\* of calls before: what they left is older, and is dropped first
\* (ChatCompletionScheduler._submit_chat_completions_and_callback).
THEOREM FollowUpsAreCached == Spec => []FollowUpIsCached
<1>1. KeptInv => FollowUpIsCached
  <2>1. SUFFICES ASSUME KeptInv, NEW c \in Conv, chat[c].pc = "lost",
                        ~(Cardinality({d \in Conv : BatchOf[d] = BatchOf[c]}) > MaxCache)
                 PROVE  FALSE
    BY DEF FollowUpIsCached
  <2>2. Cardinality({d \in Conv : BatchOf[d] = BatchOf[c]}) \in Nat /\ MaxCache \in Nat
    <3>1. IsFiniteSet({d \in Conv : BatchOf[d] = BatchOf[c]})
      BY ConvAssumption, FS_Subset
    <3> QED
      BY <3>1, FS_CardinalityType, BoundAssumption
  <2>3. Fits(BatchOf[c])
    BY <2>1, <2>2 DEF Fits
  <2> QED
    BY <2>1, <2>3 DEF KeptInv, NeededInv
<1> QED
  BY <1>1, KeptInvariant, PTL

\* The type invariant holds for every size of the cache.
THEOREM TypeCorrect == Spec => []TypeOK
<1>1. IInv => TypeOK
  BY DEF IInv, TypeInv
<1> QED
  BY <1>1, Invariant, PTL

\* A conversation never leaves the server of its first request, however
\* small the cache is: a request that lost its entry is not sent at all.
THEOREM SessionsAreSticky == Spec => []StickySession
<1>1. IInv => StickySession
  BY DEF IInv
<1> QED
  BY <1>1, Invariant, PTL

\* Least requests load balancing: over any number of batches and for any
\* number of servers, two servers differ by at most one conversation.
THEOREM LoadIsBalanced == Spec => []LoadBalanced
<1>1. IInv => LoadBalanced
  BY DEF IInv, LoadInv, LoadBalanced
<1> QED
  BY <1>1, Invariant, PTL

\* The event of a conversation is never set while a request of it is ongoing
\* or its callback is still running.
THEOREM DoneIsQuiet == Spec => []DoneMeansQuiet
<1>1. IInv => DoneMeansQuiet
  BY DEF IInv, RegularInv, Regular, DoneMeansQuiet
<1> QED
  BY <1>1, Invariant, PTL

\* The model is never asked while tools of its last answer still run.
THEOREM ToolsAnswerFirst == Spec => []AllToolsAnswered
<1>1. IInv => AllToolsAnswered
  BY DEF IInv, RegularInv, Regular, AllToolsAnswered
<1> QED
  BY <1>1, Invariant, PTL

\* What postprocess reads of a conversation does not change after its event
\* is set, although tools of it may still run.
THEOREM DoneIsSettled == Spec => SettledWhenDone
<1>1. ASSUME IInv, NEW d \in Conv, Step(d), NEW c \in Conv, chat[c].done
      PROVE  chat'[c].messages = chat[c].messages /\ chat'[c].turn = chat[c].turn
  <2>1. chat[c].pc = "ended"
    BY <1>1 DEF IInv, RegularInv, Regular
  <2>2. chat \in [Conv -> Chats]
    BY <1>1 DEF IInv, TypeInv, TypeOK
  <2>3. CASE d # c
    BY <1>1, <2>2, <2>3 DEF Step, Begin, First, Follow, Lose, Error, Stop, CallTools,
                            ToolReturns, ToolRaises
  <2>4. CASE d = c
    <3>1. ToolReturns(c) \/ ToolRaises(c)
      BY <1>1, <2>1, <2>4 DEF Step, Begin, First, Follow, Lose, Error, Stop, CallTools
    <3>2. CASE ToolReturns(c)
      BY <2>1, <2>2, <3>2 DEF ToolReturns, Chats
    <3>3. CASE ToolRaises(c)
      BY <2>1, <2>2, <3>3 DEF ToolRaises, Chats
    <3>4. QED
      BY <3>1, <3>2, <3>3
  <2>5. QED
    BY <2>3, <2>4
<1>2. IInv /\ [Next]_vars =>
          [\A c \in Conv : chat[c].done =>
              chat'[c].messages = chat[c].messages /\ chat'[c].turn = chat[c].turn]_vars
  BY <1>1 DEF Next, Return, Over
<1>3. QED
  BY <1>2, Invariant, PTL DEF Spec, SettledWhenDone

=============================================================================
