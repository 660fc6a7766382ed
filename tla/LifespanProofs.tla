--------------------------- MODULE LifespanProofs ---------------------------
(***************************************************************************)
(* Theorems about Lifespan and MtpBus for every set of listings and calls  *)
(* of jobs, and any cancellations: the lock has one owner, its hand-over   *)
(* is never lost, and two threads share the bus only when a shutdown has   *)
(* abandoned one of them.                                                  *)
(***************************************************************************)
EXTENDS Lifespan, SequenceTheorems, TLAPS

USE DEF bus, tasks, vars

-----------------------------------------------------------------------------
(* The inductive invariant of the lock. *)

\* Each call that is in the line has one future there, and a future that has
\* been resolved is the first, of a lock that is free.
LineInv ==
  /\ \A i, k \in 1..Len(waiters) : waiters[i] = waiters[k] => i = k
  /\ \A c \in Call : phase[c] \in InLine => \E i \in 1..Len(waiters) : waiters[i] = c
  /\ \A c \in Call : phase[c] \in {"woken", "dropped"} => ~locked /\ waiters[1] = c

\* The calls with a thread on the bus have not come to its end, or been aborted.
ThreadInv == \A c \in onBus : phase[c] \in {"using", "aborted"}

BusInv == BusTypeOK /\ LineInv /\ OneOwner /\ HandOver /\ ThreadInv

(* The inductive invariant of the tasks that make the calls. *)

\* Only a task that has been cancelled gives a call up.
GivenUp == \A c \in Call : phase[c] \in {"cancelled", "dropped", "aborted"} => c \in Cancelled

\* A call is under way from its request until its task is through with it and its
\* thread is off the bus: the worker and the poller each have one at most.
UnderWay(c) == phase[c] \notin {"returned", "aborted"} \/ c \in onBus

OneEach ==
  /\ \A c, d \in JobCall : phase[c] # "idle" /\ UnderWay(c) /\ phase[d] # "idle" /\ UnderWay(d) => c = d
  /\ \A c, d \in spawned : UnderWay(c) /\ UnderWay(d) => c = d

-----------------------------------------------------------------------------
(* The line of futures as a sequence. *)

\* What deque.remove makes of a line.
LEMMA RemoveAtProperties ==
  ASSUME NEW S, NEW s \in Seq(S), NEW i \in 1..Len(s)
  PROVE  /\ RemoveAt(s, i) \in Seq(S)
         /\ Len(RemoveAt(s, i)) = Len(s) - 1
         /\ \A k \in 1..(Len(s) - 1) : RemoveAt(s, i)[k] = IF k < i THEN s[k] ELSE s[k + 1]
<1> DEFINE front == SubSeq(s, 1, i - 1)
           back  == SubSeq(s, i + 1, Len(s))
<1>1. /\ front \in Seq(S) /\ Len(front) = i - 1
      /\ \A k \in 1..(i - 1) : front[k] = s[k]
  BY SubSeqProperties
<1>2. /\ back \in Seq(S) /\ Len(back) = Len(s) - i
      /\ \A k \in 1..(Len(s) - i) : back[k] = s[i + k]
  BY SubSeqProperties
<1> HIDE DEF front, back
<1>3. /\ front \o back \in Seq(S) /\ Len(front \o back) = Len(s) - 1
      /\ \A k \in 1..(Len(s) - 1) :
           (front \o back)[k] = IF k <= i - 1 THEN front[k] ELSE back[k - (i - 1)]
  BY <1>1, <1>2, ConcatProperties
<1>4. ASSUME NEW k \in 1..(Len(s) - 1)
      PROVE  (front \o back)[k] = IF k < i THEN s[k] ELSE s[k + 1]
  <2>1. CASE k < i
    BY <1>1, <1>3, <2>1
  <2>2. CASE ~(k < i)
    <3>1. k - (i - 1) \in 1..(Len(s) - i) /\ i + (k - (i - 1)) = k + 1
      BY <2>2
    <3>. QED BY <1>2, <1>3, <2>2, <3>1
  <2>. QED BY <2>1, <2>2
<1>. QED BY <1>3, <1>4 DEF RemoveAt, front, back

\* A call leaves the line.
LEMMA WithoutIs ==
  ASSUME BusTypeOK, LineInv, NEW c \in Call, phase[c] \in InLine
  PROVE  /\ Without(c) \in Seq(Call) /\ Len(Without(c)) = Len(waiters) - 1 /\ Len(waiters) \in Nat
         /\ \E at \in 1..Len(waiters) :
              /\ waiters[at] = c
              /\ \A k \in 1..Len(Without(c)) :
                   Without(c)[k] = IF k < at THEN waiters[k] ELSE waiters[k + 1]
<1> DEFINE at == CHOOSE i \in 1..Len(waiters) : waiters[i] = c
           line == Without(c)
<1>1. at \in 1..Len(waiters) /\ waiters[at] = c
  BY DEF LineInv
<1>2. waiters \in Seq(Call)
  BY DEF BusTypeOK
<1>3. line = RemoveAt(waiters, at)
  BY DEF Without
<1> HIDE DEF at, line
<1>4. Len(waiters) \in Nat
  BY <1>2
<1>5. /\ line \in Seq(Call) /\ Len(line) = Len(waiters) - 1
      /\ \A k \in 1..(Len(waiters) - 1) : line[k] = IF k < at THEN waiters[k] ELSE waiters[k + 1]
  BY <1>1, <1>2, <1>3, RemoveAtProperties
<1>. QED BY <1>1, <1>4, <1>5 DEF line

\* Everybody else stays.
LEMMA WithoutProperties ==
  ASSUME BusTypeOK, LineInv, NEW c \in Call, phase[c] \in InLine
  PROVE  /\ Without(c) \in Seq(Call)
         /\ \A k \in 1..Len(Without(c)) :
              Without(c)[k] # c /\ \E i \in 1..Len(waiters) : waiters[i] = Without(c)[k]
         /\ \A d \in Call \ {c} : (\E i \in 1..Len(waiters) : waiters[i] = d)
                                => \E k \in 1..Len(Without(c)) : Without(c)[k] = d
         /\ \A i, k \in 1..Len(Without(c)) : Without(c)[i] = Without(c)[k] => i = k
         /\ waiters[1] # c => Without(c) # <<>> /\ Without(c)[1] = waiters[1]
<1> DEFINE line == Without(c)
<1>1. PICK at \in 1..Len(waiters) :
        /\ waiters[at] = c
        /\ \A k \in 1..Len(line) : line[k] = IF k < at THEN waiters[k] ELSE waiters[k + 1]
  BY WithoutIs
<1>4. /\ line \in Seq(Call) /\ Len(line) = Len(waiters) - 1 /\ Len(waiters) \in Nat
      /\ \A k \in 1..Len(line) : line[k] = IF k < at THEN waiters[k] ELSE waiters[k + 1]
  BY <1>1, WithoutIs
<1> HIDE DEF line
<1>5. \A i, k \in 1..Len(waiters) : waiters[i] = waiters[k] => i = k
  BY DEF LineInv
<1>6. ASSUME NEW k \in 1..Len(line)
      PROVE  line[k] # c /\ \E i \in 1..Len(waiters) : waiters[i] = line[k]
  <2>1. CASE k < at
    BY <1>1, <1>4, <1>5, <2>1
  <2>2. CASE ~(k < at)
    <3>1. k + 1 \in 1..Len(waiters) /\ k + 1 # at BY <1>1, <1>4, <2>2
    <3>. QED BY <1>1, <1>4, <1>5, <2>2, <3>1
  <2>. QED BY <2>1, <2>2
<1>7. ASSUME NEW d \in Call \ {c}, NEW i \in 1..Len(waiters), waiters[i] = d
      PROVE  \E k \in 1..Len(line) : line[k] = d
  <2>1. CASE i < at
    <3>1. i \in 1..Len(line) BY <1>1, <1>4, <2>1
    <3>. QED BY <1>4, <1>7, <2>1, <3>1
  <2>2. CASE i > at
    <3>1. i - 1 \in 1..Len(line) /\ ~(i - 1 < at) /\ (i - 1) + 1 = i BY <1>1, <1>4, <2>2
    <3>2. line[i - 1] = waiters[i] BY <1>4, <3>1
    <3>. QED BY <1>7, <3>1, <3>2
  <2>3. i # at
    BY <1>1, <1>7
  <2>. QED BY <1>1, <2>1, <2>2, <2>3
<1>8. ASSUME NEW i \in 1..Len(line), NEW k \in 1..Len(line), line[i] = line[k]
      PROVE  i = k
  <2>1. i \in 1..Len(waiters) /\ k \in 1..Len(waiters)
        /\ i + 1 \in 1..Len(waiters) /\ k + 1 \in 1..Len(waiters)
    BY <1>4
  <2>2. CASE i < at /\ k < at
    BY <1>4, <1>5, <1>8, <2>1, <2>2
  <2>3. CASE i < at /\ ~(k < at)
    BY <1>1, <1>4, <1>5, <1>8, <2>1, <2>3
  <2>4. CASE ~(i < at) /\ k < at
    BY <1>1, <1>4, <1>5, <1>8, <2>1, <2>4
  <2>5. CASE ~(i < at) /\ ~(k < at)
    BY <1>4, <1>5, <1>8, <2>1, <2>5
  <2>. QED BY <2>2, <2>3, <2>4, <2>5
<1>9. waiters[1] # c => line # <<>> /\ line[1] = waiters[1]
  <2>1. waiters[1] # c => 1 < at /\ 1 \in 1..Len(line)
    BY <1>1, <1>4
  <2>. QED BY <1>4, <2>1
<1>. QED BY <1>4, <1>6, <1>7, <1>8, <1>9 DEF line

\* And they stay in their order.
LEMMA WithoutKeepsOrder ==
  ASSUME BusTypeOK, LineInv, NEW c \in Call, phase[c] \in InLine,
         NEW d \in Call \ {c}, NEW e \in Call \ {c}
  PROVE  Ahead(d, e) <=> \E i, k \in 1..Len(Without(c)) :
                            i <= k /\ Without(c)[i] = d /\ Without(c)[k] = e
<1> DEFINE line == Without(c)
<1>1. PICK at \in 1..Len(waiters) :
        /\ waiters[at] = c
        /\ \A k \in 1..Len(line) : line[k] = IF k < at THEN waiters[k] ELSE waiters[k + 1]
  BY WithoutIs
<1>2. Len(line) \in Nat /\ Len(line) = Len(waiters) - 1 /\ Len(waiters) \in Nat
  BY WithoutIs
<1> HIDE DEF line
\* Where a call that stays was and is.
<1>3. ASSUME NEW i \in 1..Len(waiters), waiters[i] # c
      PROVE  LET at2 == IF i < at THEN i ELSE i - 1
             IN  at2 \in 1..Len(line) /\ line[at2] = waiters[i]
  <2>1. CASE i < at
    BY <1>1, <1>2, <2>1
  <2>2. CASE i > at
    <3>1. i - 1 \in 1..Len(line) /\ ~(i - 1 < at) /\ (i - 1) + 1 = i BY <1>1, <1>2, <2>2
    <3>. QED BY <1>1, <2>2, <3>1
  <2>. QED BY <1>1, <1>3, <2>1, <2>2
<1>4. ASSUME Ahead(d, e)
      PROVE  \E i, k \in 1..Len(line) : i <= k /\ line[i] = d /\ line[k] = e
  <2>1. PICK i \in 1..Len(waiters), k \in 1..Len(waiters) : i <= k /\ waiters[i] = d /\ waiters[k] = e
    BY <1>4 DEF Ahead
  <2>2. (IF i < at THEN i ELSE i - 1) <= (IF k < at THEN k ELSE k - 1)
    BY <1>1, <2>1
  <2>. QED BY <1>3, <2>1, <2>2
<1>5. ASSUME NEW i \in 1..Len(line), NEW k \in 1..Len(line), i <= k, line[i] = d, line[k] = e
      PROVE  Ahead(d, e)
  <2> DEFINE was(j) == IF j < at THEN j ELSE j + 1
  <2>1. was(i) \in 1..Len(waiters) /\ was(k) \in 1..Len(waiters) /\ was(i) <= was(k)
    BY <1>1, <1>2, <1>5
  <2>2. waiters[was(i)] = d /\ waiters[was(k)] = e
    BY <1>1, <1>5
  <2> HIDE DEF was
  <2>. QED BY <2>1, <2>2 DEF Ahead
<1>. QED BY <1>4, <1>5 DEF line

\* What waking the first of a line does to the phases.
LEMMA PhasesAfterProperties ==
  ASSUME BusTypeOK, NEW c \in Call, NEW p \in Phase \ {"waiting"},
         NEW line \in Seq(Call)
  PROVE  /\ PhasesAfter(c, p, line) \in [Call -> Phase]
         /\ PhasesAfter(c, p, line)[c] = p
         /\ \A d \in Call \ {c} :
              PhasesAfter(c, p, line)[d] =
                IF line # <<>> /\ d = line[1] /\ phase[d] = "waiting"
                  THEN "woken" ELSE phase[d]
<1> DEFINE moved == [phase EXCEPT ![c] = p]
<1>1. moved \in [Call -> Phase] /\ moved[c] = p /\ \A d \in Call \ {c} : moved[d] = phase[d]
  BY DEF BusTypeOK
<1> HIDE DEF moved
<1>2. CASE line # <<>> /\ moved[Head(line)] = "waiting"
  <2>1. Head(line) \in Call /\ Head(line) = line[1]
    BY <1>2
  <2>2. Head(line) # c /\ "woken" \in Phase
    BY <1>1, <1>2 DEF Phase, InLine
  <2>3. PhasesAfter(c, p, line) = [moved EXCEPT ![Head(line)] = "woken"]
    BY <1>2 DEF PhasesAfter, moved
  <2>. QED BY <1>1, <1>2, <2>1, <2>2, <2>3
<1>3. CASE ~(line # <<>> /\ moved[Head(line)] = "waiting")
  <2>1. PhasesAfter(c, p, line) = moved
    BY <1>3 DEF PhasesAfter, moved
  <2>2. line # <<>> => Head(line) = line[1]
    OBVIOUS
  <2>. QED BY <1>1, <1>3, <2>1, <2>2
<1>. QED BY <1>2, <1>3

-----------------------------------------------------------------------------
(* The steps of a call preserve the invariant of the lock. *)

LEMMA BusInvInit == BusInit => BusInv
<1> SUFFICES ASSUME BusInit PROVE BusInv
  OBVIOUS
<1>1. BusTypeOK
  <2>1. phase \in [Call -> Phase] /\ locked \in BOOLEAN /\ onBus \subseteq Call
    BY DEF BusInit, Phase
  <2>2. waiters \in Seq(Call) /\ Len(waiters) = 0
    BY DEF BusInit
  <2>. QED BY <2>1, <2>2 DEF BusTypeOK
<1>2. LineInv /\ OneOwner /\ HandOver /\ ThreadInv
  BY DEF BusInit, LineInv, InLine, OneOwner, Using, HandOver, ThreadInv
<1>. QED BY <1>1, <1>2 DEF BusInv

\* A call that is not in the line, as a member of the sequence.
LEMMA NotInLine ==
  ASSUME BusInv, NEW c \in Call, phase[c] \notin InLine
  PROVE  \A i \in 1..Len(waiters) : waiters[i] # c
BY DEF BusInv, BusTypeOK

\* The first of the line.
LEMMA FirstInLine ==
  ASSUME BusInv, waiters # <<>>
  PROVE  /\ 1 \in 1..Len(waiters) /\ Head(waiters) = waiters[1]
         /\ waiters[1] \in Call /\ phase[waiters[1]] \in InLine
<1>1. waiters \in Seq(Call)
  BY DEF BusInv, BusTypeOK
<1>2. 1 \in 1..Len(waiters) /\ Head(waiters) = waiters[1] /\ waiters[1] \in Call
  BY <1>1
<1>. QED BY <1>2 DEF BusInv, BusTypeOK

LEMMA BusEnterFree ==
  ASSUME BusInv, NEW c \in Call, EnterFree(c)
  PROVE  BusInv'
<1>1. /\ phase' \in [Call -> Phase] /\ phase'[c] = "using"
      /\ \A d \in Call \ {c} : phase'[d] = phase[d]
  BY DEF EnterFree, BusInv, BusTypeOK, Phase
<1>2. \A i \in 1..Len(waiters) : waiters[i] # c
  BY NotInLine DEF EnterFree, InLine
<1>3. \A d \in Call : phase[d] \notin {"woken", "dropped", "using", "finished"}
  <2>1. ASSUME NEW d \in Call, phase[d] \in {"woken", "dropped"} PROVE FALSE
    <3>1. PICK i \in 1..Len(waiters) : waiters[i] = d
      BY <2>1 DEF BusInv, LineInv, InLine
    <3>. QED BY <2>1, <3>1 DEF EnterFree
  <2>2. Using = {}
    BY DEF EnterFree, BusInv, OneOwner
  <2>. QED BY <2>1, <2>2 DEF Using
<1>4. BusTypeOK'
  <2>1. waiters \in Seq(Call) /\ \A i \in 1..Len(waiters) : waiters[i] \in Call
    BY DEF BusInv, BusTypeOK
  <2>2. \A i \in 1..Len(waiters) : phase'[waiters[i]] \in InLine
    BY <1>1, <1>2, <2>1 DEF BusInv, BusTypeOK
  <2>3. locked' \in BOOLEAN /\ onBus' \subseteq Call
    BY DEF EnterFree, BusInv, BusTypeOK
  <2>. QED BY <1>1, <2>1, <2>2, <2>3 DEF EnterFree, BusTypeOK
<1>5. LineInv'
  BY <1>1, <1>3 DEF EnterFree, BusInv, LineInv, InLine
<1>6. OneOwner'
  BY <1>1, <1>3 DEF EnterFree, OneOwner, Using
<1>7. HandOver' /\ ThreadInv'
  BY <1>1 DEF EnterFree, BusInv, BusTypeOK, HandOver, ThreadInv
<1>. QED BY <1>4, <1>5, <1>6, <1>7 DEF BusInv

LEMMA BusEnterWait ==
  ASSUME BusInv, NEW c \in Call, EnterWait(c)
  PROVE  BusInv'
<1>1. /\ phase' \in [Call -> Phase] /\ phase'[c] = "waiting"
      /\ \A d \in Call \ {c} : phase'[d] = phase[d]
  BY DEF EnterWait, BusInv, BusTypeOK, Phase, InLine
<1>2. \A i \in 1..Len(waiters) : waiters[i] # c
  BY NotInLine DEF EnterWait, InLine
<1>3. /\ waiters \in Seq(Call) /\ waiters' \in Seq(Call)
      /\ Len(waiters) \in Nat /\ Len(waiters') = Len(waiters) + 1
      /\ waiters'[Len(waiters) + 1] = c
      /\ \A i \in 1..Len(waiters) : waiters'[i] = waiters[i] /\ waiters[i] \in Call
  BY DEF EnterWait, BusInv, BusTypeOK
<1>4. \A i \in 1..Len(waiters') : i \in 1..Len(waiters) \/ i = Len(waiters) + 1
  BY <1>3
<1>5. waiters # <<>> => waiters'[1] = waiters[1]
  BY <1>3
<1>6. BusTypeOK'
  <2>1. \A i \in 1..Len(waiters') : phase'[waiters'[i]] \in InLine
    <3>1. ASSUME NEW i \in 1..Len(waiters) PROVE phase'[waiters'[i]] \in InLine
      BY <1>1, <1>2, <1>3 DEF BusInv, BusTypeOK
    <3>. QED BY <1>1, <1>3, <1>4, <3>1 DEF InLine
  <2>. QED BY <1>1, <1>3, <2>1 DEF EnterWait, BusInv, BusTypeOK
<1>7. LineInv'
  <2>1. \A i, k \in 1..Len(waiters') : waiters'[i] = waiters'[k] => i = k
    <3>1. \A i, k \in 1..Len(waiters) : waiters[i] = waiters[k] => i = k
      BY DEF BusInv, LineInv
    <3>. QED BY <1>2, <1>3, <1>4, <3>1
  <2>2. ASSUME NEW d \in Call, phase'[d] \in InLine
        PROVE  \E i \in 1..Len(waiters') : waiters'[i] = d
    <3>1. CASE d = c
      <4>1. Len(waiters) + 1 \in 1..Len(waiters') BY <1>3
      <4>. QED BY <1>3, <3>1, <4>1
    <3>2. CASE d # c
      <4>1. PICK i \in 1..Len(waiters) : waiters[i] = d
        BY <1>1, <2>2, <3>2 DEF BusInv, LineInv
      <4>. QED BY <1>3, <4>1
    <3>. QED BY <3>1, <3>2
  <2>3. ASSUME NEW d \in Call, phase'[d] \in {"woken", "dropped"}
        PROVE  ~locked' /\ waiters'[1] = d
    <3>1. d # c /\ phase[d] \in {"woken", "dropped"}
      BY <1>1, <2>3
    <3>2. waiters # <<>>
      BY <3>1, <1>3 DEF BusInv, LineInv, InLine
    <3>. QED BY <1>5, <3>1, <3>2 DEF EnterWait, BusInv, LineInv
  <2>. QED BY <2>1, <2>2, <2>3 DEF LineInv
<1>8. OneOwner'
  BY <1>1 DEF EnterWait, BusInv, OneOwner, Using
<1>9. HandOver' /\ ThreadInv'
  <2>1. ASSUME ~locked PROVE phase'[Head(waiters')] \in {"woken", "cancelled", "dropped"}
    <3>1. waiters # <<>>
      BY <2>1 DEF EnterWait
    <3>2. Head(waiters') = waiters[1]
      BY <1>3, <1>5, <3>1
    <3>3. waiters[1] # c
      BY <1>2, <3>1, FirstInLine
    <3>. QED BY <1>1, <2>1, <3>1, <3>2, <3>3, FirstInLine DEF BusInv, HandOver
  <2>2. ThreadInv'
    BY <1>1 DEF EnterWait, BusInv, BusTypeOK, ThreadInv
  <2>. QED BY <2>1, <2>2 DEF EnterWait, HandOver
<1>. QED BY <1>6, <1>7, <1>8, <1>9 DEF BusInv

LEMMA BusGranted ==
  ASSUME BusInv, NEW c \in Call, Granted(c)
  PROVE  BusInv'
<1>1. /\ phase' \in [Call -> Phase] /\ phase'[c] = "using"
      /\ \A d \in Call \ {c} : phase'[d] = phase[d]
  BY DEF Granted, BusInv, BusTypeOK, Phase
<1>2. ~locked /\ waiters[1] = c
  BY DEF Granted, BusInv, LineInv
<1>3. Using = {}
  BY <1>2 DEF BusInv, OneOwner
<1>4. /\ waiters' \in Seq(Call)
      /\ \A k \in 1..Len(waiters') :
           waiters'[k] # c /\ \E i \in 1..Len(waiters) : waiters[i] = waiters'[k]
      /\ \A d \in Call \ {c} : (\E i \in 1..Len(waiters) : waiters[i] = d)
                             => \E k \in 1..Len(waiters') : waiters'[k] = d
      /\ \A i, k \in 1..Len(waiters') : waiters'[i] = waiters'[k] => i = k
  BY WithoutProperties DEF Granted, BusInv, InLine
<1>5. BusTypeOK'
  <2>1. ASSUME NEW k \in 1..Len(waiters') PROVE phase'[waiters'[k]] \in InLine
    <3>1. PICK i \in 1..Len(waiters) : waiters[i] = waiters'[k]
      BY <1>4
    <3>2. waiters'[k] \in Call \ {c}
      BY <1>4
    <3>. QED BY <1>1, <3>1, <3>2 DEF BusInv, BusTypeOK
  <2>. QED BY <1>1, <1>4, <2>1 DEF Granted, BusInv, BusTypeOK
<1>6. LineInv'
  <2>1. ASSUME NEW d \in Call, phase'[d] \in {"woken", "dropped"} PROVE FALSE
    <3>1. d # c /\ phase[d] \in {"woken", "dropped"}
      BY <1>1, <2>1
    <3>. QED BY <1>2, <3>1 DEF BusInv, LineInv
  <2>2. \A d \in Call : phase'[d] \in InLine => \E k \in 1..Len(waiters') : waiters'[k] = d
    BY <1>1, <1>4 DEF BusInv, LineInv, InLine
  <2>. QED BY <1>4, <2>1, <2>2 DEF LineInv
<1>7. OneOwner'
  BY <1>1, <1>3 DEF Granted, OneOwner, Using
<1>8. HandOver' /\ ThreadInv'
  BY <1>1 DEF Granted, BusInv, BusTypeOK, HandOver, ThreadInv
<1>. QED BY <1>5, <1>6, <1>7, <1>8 DEF BusInv

\* The call is through with the lock, and wakes the first of the line: its thread
\* has ended, or it has been cancelled.
LEMMA BusRelease ==
  ASSUME BusInv, NEW c \in Call, Return(c) \/ AbortInside(c)
  PROVE  BusInv'
<1> DEFINE p == IF Return(c) THEN "returned" ELSE "aborted"
<1>1. /\ phase[c] \in {"using", "finished"} /\ locked' = FALSE
      /\ waiters' = waiters /\ onBus' = onBus
      /\ p = "aborted" \/ phase[c] = "finished"
  BY DEF Return, AbortInside
<1>2. phase' = PhasesAfter(c, p, waiters)
  BY DEF Return, AbortInside
<1>3. p \in {"returned", "aborted"} /\ p \in Phase \ {"waiting"}
  BY DEF Phase
<1> HIDE DEF p
<1>4. waiters \in Seq(Call) /\ BusTypeOK
  BY DEF BusInv, BusTypeOK
<1>5. /\ phase' \in [Call -> Phase] /\ phase'[c] = p
      /\ \A d \in Call \ {c} :
           phase'[d] = IF waiters # <<>> /\ d = waiters[1] /\ phase[d] = "waiting"
                         THEN "woken" ELSE phase[d]
  BY <1>2, <1>3, <1>4, PhasesAfterProperties
<1>6. \A i \in 1..Len(waiters) : waiters[i] \in Call \ {c}
  BY <1>1, <1>4, NotInLine DEF InLine
<1>7. \A d \in Call \ {c} : phase'[d] \in InLine <=> phase[d] \in InLine
  BY <1>5 DEF InLine
<1>8. BusTypeOK'
  <2>1. locked' \in BOOLEAN /\ onBus' \subseteq Call
    BY <1>1 DEF BusInv, BusTypeOK
  <2>2. \A i \in 1..Len(waiters) : phase'[waiters[i]] \in InLine
    BY <1>6, <1>7 DEF BusInv, BusTypeOK
  <2>. QED BY <1>1, <1>4, <1>5, <2>1, <2>2 DEF BusTypeOK
<1>9. LineInv'
  <2>1. \A d \in Call : phase[d] \notin {"woken", "dropped"}
    BY <1>1 DEF BusInv, LineInv, OneOwner, Using
  <2>2. \A d \in Call : phase'[d] \in {"woken", "dropped"} => waiters[1] = d
    BY <1>3, <1>5, <2>1
  <2>3. \A d \in Call : phase'[d] \in InLine => phase[d] \in InLine
    BY <1>3, <1>5, <1>7 DEF InLine
  <2>. QED BY <1>1, <2>2, <2>3 DEF BusInv, LineInv
<1>10. OneOwner'
  <2>1. \A d \in Call \ {c} : phase[d] \notin {"using", "finished"}
    BY <1>1 DEF BusInv, OneOwner, Using
  <2>2. \A d \in Call : phase'[d] \notin {"using", "finished"}
    BY <1>3, <1>5, <2>1
  <2>. QED BY <1>1, <2>2 DEF OneOwner, Using
<1>11. HandOver'
  <2>1. ASSUME waiters # <<>> PROVE phase'[Head(waiters)] \in {"woken", "cancelled", "dropped"}
    <3>1. Head(waiters) \in Call \ {c} /\ Head(waiters) = waiters[1] /\ phase[waiters[1]] \in InLine
      BY <1>6, <2>1, FirstInLine
    <3>. QED BY <1>5, <2>1, <3>1 DEF InLine
  <2>. QED BY <1>1, <2>1 DEF HandOver
<1>12. ThreadInv'
  BY <1>1, <1>5 DEF BusInv, BusTypeOK, ThreadInv
<1>. QED BY <1>8, <1>9, <1>10, <1>11, <1>12 DEF BusInv

\* A thread comes to its end, and with it perhaps a call.
LEMMA BusThreadEnds ==
  ASSUME BusInv, NEW c \in Call, ThreadEnds(c)
  PROVE  BusInv'
<1>1. /\ phase' \in [Call -> Phase]
      /\ phase'[c] = IF phase[c] = "using" THEN "finished" ELSE phase[c]
      /\ \A d \in Call \ {c} : phase'[d] = phase[d]
  BY DEF ThreadEnds, BusInv, BusTypeOK, Phase
<1>2. \A d \in Call : \A p \in InLine : phase'[d] = p <=> phase[d] = p
  BY <1>1 DEF InLine
<1>3. Using' = Using
  BY <1>1 DEF Using
<1>4. BusTypeOK'
  <2>1. \A i \in 1..Len(waiters) : waiters[i] \in Call
    BY DEF BusInv, BusTypeOK
  <2>. QED BY <1>1, <1>2, <2>1 DEF ThreadEnds, BusInv, BusTypeOK
<1>5. LineInv'
  BY <1>2 DEF ThreadEnds, BusInv, LineInv, InLine
<1>6. OneOwner'
  BY <1>3 DEF ThreadEnds, BusInv, OneOwner
<1>7. HandOver'
  <2>1. waiters # <<>> => Head(waiters) \in Call
    BY FirstInLine
  <2>. QED BY <1>2, <2>1 DEF ThreadEnds, BusInv, HandOver, InLine
<1>8. ThreadInv'
  BY <1>1 DEF ThreadEnds, BusInv, BusTypeOK, ThreadInv
<1>. QED BY <1>4, <1>5, <1>6, <1>7, <1>8 DEF BusInv

\* Tasks are cancelled: their calls stay in the line until they resume.
LEMMA BusCancel ==
  ASSUME BusInv, NEW S \in SUBSET Call, CancelWaiting(S), UNCHANGED <<locked, waiters, onBus>>
  PROVE  BusInv'
<1>1. /\ phase' \in [Call -> Phase]
      /\ \A d \in Call :
           \/ phase'[d] = phase[d]
           \/ phase[d] = "woken" /\ phase'[d] = "dropped"
           \/ phase[d] = "waiting" /\ phase'[d] = "cancelled"
  BY DEF CancelWaiting, BusInv, BusTypeOK, Phase, InLine
<1>2. \A d \in Call : phase'[d] \in InLine <=> phase[d] \in InLine
  BY <1>1 DEF InLine
<1>3. BusTypeOK'
  <2>1. \A i \in 1..Len(waiters) : waiters[i] \in Call
    BY DEF BusInv, BusTypeOK
  <2>. QED BY <1>1, <1>2, <2>1 DEF BusInv, BusTypeOK
<1>4. LineInv'
  BY <1>1, <1>2 DEF BusInv, LineInv
<1>5. OneOwner'
  <2>1. Using' = Using BY <1>1 DEF Using
  <2>. QED BY <2>1 DEF BusInv, OneOwner
<1>6. HandOver'
  <2>1. waiters # <<>> => Head(waiters) \in Call
    BY FirstInLine
  <2>. QED BY <1>1, <2>1 DEF BusInv, HandOver
<1>7. ThreadInv'
  BY <1>1 DEF BusInv, BusTypeOK, ThreadInv
<1>. QED BY <1>3, <1>4, <1>5, <1>6, <1>7 DEF BusInv

\* A cancelled call leaves the line, and wakes the first of those that remain if
\* the lock is free.
LEMMA BusWithdraw ==
  ASSUME BusInv, NEW c \in Call, Withdraw(c)
  PROVE  BusInv'
<1>1. /\ phase[c] \in {"cancelled", "dropped"} /\ phase[c] \in InLine
      /\ waiters' = Without(c) /\ locked' = locked /\ onBus' = onBus
  BY DEF Withdraw, InLine
<1>2. /\ waiters' \in Seq(Call)
      /\ \A k \in 1..Len(waiters') :
           waiters'[k] # c /\ \E i \in 1..Len(waiters) : waiters[i] = waiters'[k]
      /\ \A d \in Call \ {c} : (\E i \in 1..Len(waiters) : waiters[i] = d)
                             => \E k \in 1..Len(waiters') : waiters'[k] = d
      /\ \A i, k \in 1..Len(waiters') : waiters'[i] = waiters'[k] => i = k
      /\ waiters[1] # c => waiters' # <<>> /\ waiters'[1] = waiters[1]
  BY <1>1, WithoutProperties DEF BusInv
<1>3. /\ phase' \in [Call -> Phase] /\ phase'[c] = "aborted"
      /\ \A d \in Call \ {c} :
           phase'[d] = IF ~locked /\ waiters' # <<>> /\ d = waiters'[1] /\ phase[d] = "waiting"
                         THEN "woken" ELSE phase[d]
  <2>1. "aborted" \in Phase \ {"waiting"} /\ BusTypeOK
    BY DEF Phase, BusInv
  <2>2. CASE locked
    BY <2>1, <2>2 DEF Withdraw, BusTypeOK
  <2>3. CASE ~locked
    <3>1. phase' = PhasesAfter(c, "aborted", waiters')
      BY <1>1, <2>3 DEF Withdraw
    <3>. QED BY <1>2, <2>1, <2>3, <3>1, PhasesAfterProperties
  <2>. QED BY <2>2, <2>3
<1>4. \A k \in 1..Len(waiters') : waiters'[k] \in Call \ {c} /\ phase[waiters'[k]] \in InLine
  BY <1>2 DEF BusInv, BusTypeOK
<1>5. \A d \in Call \ {c} : phase'[d] \in InLine <=> phase[d] \in InLine
  BY <1>3 DEF InLine
<1>6. BusTypeOK'
  <2>1. locked' \in BOOLEAN /\ onBus' \subseteq Call
    BY <1>1 DEF BusInv, BusTypeOK
  <2>2. \A k \in 1..Len(waiters') : phase'[waiters'[k]] \in InLine
    BY <1>4, <1>5
  <2>. QED BY <1>2, <1>3, <2>1, <2>2 DEF BusTypeOK
<1>7. LineInv'
  <2>1. \A d \in Call : phase'[d] \in InLine => \E k \in 1..Len(waiters') : waiters'[k] = d
    BY <1>2, <1>3, <1>5 DEF BusInv, LineInv, InLine
  <2>2. ASSUME NEW d \in Call, phase'[d] \in {"woken", "dropped"}
        PROVE  ~locked' /\ waiters'[1] = d
    <3>1. d # c
      BY <1>3, <2>2
    <3>2. CASE phase[d] \in {"woken", "dropped"}
      BY <1>1, <1>2, <3>1, <3>2 DEF BusInv, LineInv
    <3>3. CASE phase[d] \notin {"woken", "dropped"}
      BY <1>1, <1>3, <2>2, <3>1, <3>3
    <3>. QED BY <3>2, <3>3
  <2>. QED BY <1>2, <2>1, <2>2 DEF LineInv
<1>8. OneOwner'
  <2>1. Using' = Using BY <1>1, <1>3 DEF Using
  <2>. QED BY <1>1, <2>1 DEF BusInv, OneOwner
<1>9. HandOver'
  <2>1. ASSUME ~locked', waiters' # <<>>
        PROVE  phase'[Head(waiters')] \in {"woken", "cancelled", "dropped"}
    <3>1. 1 \in 1..Len(waiters') /\ Head(waiters') = waiters'[1]
      BY <1>2, <2>1
    <3>2. waiters'[1] \in Call \ {c} /\ phase[waiters'[1]] \in InLine
      BY <1>4, <3>1
    <3>. QED BY <1>1, <1>3, <2>1, <3>1, <3>2 DEF InLine
  <2>. QED BY <2>1 DEF HandOver
<1>10. ThreadInv'
  BY <1>1, <1>3 DEF BusInv, BusTypeOK, ThreadInv
<1>. QED BY <1>6, <1>7, <1>8, <1>9, <1>10 DEF BusInv

\* A listing that is cancelled before its first step asks for nothing.
LEMMA BusNeverStarts ==
  ASSUME BusInv, NEW c \in Call, ListingNeverStarts(c)
  PROVE  BusInv'
<1>1. /\ phase[c] = "idle" /\ UNCHANGED <<locked, waiters, onBus>>
      /\ phase' \in [Call -> Phase] /\ phase'[c] = "aborted"
      /\ \A d \in Call \ {c} : phase'[d] = phase[d]
  BY DEF ListingNeverStarts, BusInv, BusTypeOK, Phase
<1>2. \A i \in 1..Len(waiters) : waiters[i] \in Call \ {c}
  BY <1>1, NotInLine DEF InLine, BusInv, BusTypeOK
<1>3. BusTypeOK'
  BY <1>1, <1>2 DEF BusInv, BusTypeOK
<1>4. LineInv'
  BY <1>1 DEF BusInv, LineInv, InLine
<1>5. OneOwner'
  <2>1. Using' = Using BY <1>1 DEF Using
  <2>. QED BY <1>1, <2>1 DEF BusInv, OneOwner
<1>6. HandOver'
  <2>1. waiters # <<>> => Head(waiters) \in Call \ {c}
    BY <1>2, FirstInLine
  <2>. QED BY <1>1, <2>1 DEF BusInv, HandOver
<1>7. ThreadInv'
  BY <1>1 DEF BusInv, BusTypeOK, ThreadInv
<1>. QED BY <1>3, <1>4, <1>5, <1>6, <1>7 DEF BusInv

LEMMA BusInvStep == BusInv /\ [Next]_vars => BusInv'
<1> SUFFICES ASSUME BusInv, [Next]_vars PROVE BusInv'
  OBVIOUS
<1>1. CASE UNCHANGED bus
  BY <1>1 DEF BusInv, BusTypeOK, LineInv, OneOwner, Using, HandOver, ThreadInv
<1>2. ASSUME NEW c \in Call, JobCalls(c) \/ ListingStarts(c)
      PROVE  BusInv'
  BY <1>2, BusEnterFree, BusEnterWait DEF JobCalls, ListingStarts, Enter
<1>3. ASSUME NEW c \in Call, Thread(c) \/ ListingNeverStarts(c) \/ Resume(c)
      PROVE  BusInv'
  BY <1>3, BusThreadEnds, BusNeverStarts, BusGranted, BusWithdraw, BusRelease DEF Thread, Resume
<1>4. CASE StopWorker \/ Close
  <2>1. JobCall \in SUBSET Call /\ Listing \in SUBSET Call
    BY CallersAssumption
  <2>. QED BY <1>4, <2>1, BusCancel DEF StopWorker, Close
<1>5. CASE TakeJob \/ EndJob \/ StopPoller \/ PollerEnds \/ WorkerEnds \/ Closed
           \/ \E c \in Call : Spawn(c)
  BY <1>1, <1>5 DEF TakeJob, EndJob, StopPoller, PollerEnds, WorkerEnds, Closed, Spawn
<1>. QED
  BY <1>1, <1>2, <1>3, <1>4, <1>5 DEF Next, LoopStep

-----------------------------------------------------------------------------
(* The tasks preserve theirs. *)

TaskTypes ==
  /\ stage \in {"serving", "stopping", "draining", "closing", "closed"}
  /\ poller \in BOOLEAN
  /\ worker \in {"idle", "busy", "gone"}

LEMMA TaskTypesStep == TaskTypes /\ [Next]_vars => TaskTypes'
BY DEF TaskTypes, Next, Spawn, JobCalls, Thread, TakeJob, EndJob, StopPoller, LoopStep,
       ListingStarts, ListingNeverStarts, Resume, Enter, PollerEnds, StopWorker,
       WorkerEnds, Close, Closed

\* A listing that has not been spawned has asked for nothing.
SpawnInv == spawned \subseteq Listing /\ \A c \in Listing \ spawned : phase[c] = "idle"

CallsInv == SpawnInv /\ GivenUp /\ OneEach

LEMMA CallsInvInit == Init => CallsInv
<1> SUFFICES ASSUME Init PROVE CallsInv
  OBVIOUS
<1>1. \A c \in Call : phase[c] = "idle"
  BY DEF Init, BusInit
<1>. QED
  BY <1>1, CallersAssumption DEF Init, CallsInv, SpawnInv, GivenUp, OneEach

\* A step that puts no call under way, and gives none up but for a task that has
\* been cancelled.
LEMMA Calm ==
  ASSUME CallsInv,
         spawned' = spawned,
         \A c \in Call : phase[c] = "idle" /\ c \notin spawned => phase'[c] = "idle",
         \A c \in Call : UnderWay(c)' => UnderWay(c),
         \A c \in Call : phase'[c] \in {"cancelled", "dropped", "aborted"} => c \in Cancelled'
  PROVE  CallsInv'
<1>1. JobCall \subseteq Call /\ Listing \subseteq Call /\ JobCall \cap Listing = {}
  BY CallersAssumption
<1>2. SpawnInv'
  BY <1>1 DEF CallsInv, SpawnInv
<1>3. GivenUp'
  BY DEF GivenUp
<1>4. OneEach'
  <2>1. \A c \in JobCall : phase'[c] # "idle" => phase[c] # "idle"
    BY <1>1 DEF CallsInv, SpawnInv
  <2>2. spawned \subseteq Call
    BY <1>1 DEF CallsInv, SpawnInv
  <2>. QED BY <1>1, <2>1, <2>2 DEF CallsInv, OneEach
<1>. QED BY <1>2, <1>3, <1>4 DEF CallsInv

\* In the steps of a call that has been made.
LEMMA CallsResume ==
  ASSUME BusInv, CallsInv, NEW c \in Call, Resume(c) \/ Thread(c) \/ ListingNeverStarts(c)
  PROVE  CallsInv'
<1>1. spawned' = spawned /\ Cancelled' = Cancelled
  BY DEF Resume, Thread, ListingNeverStarts, Cancelled
<1>2. phase \in [Call -> Phase]
  BY DEF BusInv, BusTypeOK
<1>3. CASE Thread(c)
  <2>1. onBus' \subseteq onBus
        /\ \A d \in Call : phase'[d] = phase[d] \/ (phase[d] = "using" /\ phase'[d] = "finished")
    BY <1>2, <1>3 DEF Thread, ThreadEnds
  <2>. QED BY <1>1, <2>1, Calm DEF CallsInv, GivenUp, UnderWay
<1>4. CASE ListingNeverStarts(c)
  <2>1. /\ onBus' = onBus /\ phase'[c] = "aborted" /\ phase[c] = "idle"
        /\ c \in spawned \cap Cancelled
        /\ \A d \in Call \ {c} : phase'[d] = phase[d]
    BY <1>2, <1>4 DEF ListingNeverStarts
  <2>. QED BY <1>1, <2>1, Calm DEF CallsInv, GivenUp, UnderWay
<1>5. CASE Granted(c) /\ UNCHANGED tasks
  <2>1. /\ onBus' = onBus \cup {c} /\ phase[c] = "woken" /\ phase'[c] = "using"
        /\ \A d \in Call \ {c} : phase'[d] = phase[d]
    BY <1>2, <1>5 DEF Granted
  <2>. QED BY <1>1, <2>1, Calm DEF CallsInv, GivenUp, UnderWay
<1>6. CASE Withdraw(c) \/ Return(c) \/ (c \in Cancelled /\ AbortInside(c))
  <2>1. /\ waiters \in Seq(Call) /\ BusTypeOK
        /\ phase[c] \in InLine => Without(c) \in Seq(Call)
    BY WithoutProperties DEF BusInv, BusTypeOK
  <2>2. PICK p \in {"returned", "aborted"}, line \in Seq(Call) :
          /\ p = "aborted" => c \in Cancelled
          /\ phase' = PhasesAfter(c, p, line) \/ phase' = [phase EXCEPT ![c] = p]
    <3>1. CASE Withdraw(c)
      <4>1. c \in Cancelled /\ Without(c) \in Seq(Call)
        BY <2>1, <3>1 DEF Withdraw, CallsInv, GivenUp, InLine
      <4>. QED BY <3>1, <4>1 DEF Withdraw
    <3>2. CASE Return(c)
      BY <2>1, <3>2 DEF Return
    <3>3. CASE c \in Cancelled /\ AbortInside(c)
      BY <2>1, <3>3 DEF AbortInside
    <3>. QED BY <1>6, <3>1, <3>2, <3>3
  <2>3. /\ phase'[c] = p
        /\ \A d \in Call \ {c} :
             phase'[d] = phase[d] \/ (phase[d] = "waiting" /\ phase'[d] = "woken")
    <3>1. p \in Phase \ {"waiting"}
      BY DEF Phase
    <3>2. CASE phase' = PhasesAfter(c, p, line)
      BY <2>1, <3>1, <3>2, PhasesAfterProperties
    <3>3. CASE phase' = [phase EXCEPT ![c] = p]
      BY <1>2, <3>3
    <3>. QED BY <2>2, <3>2, <3>3
  <2>4. onBus' = onBus /\ phase[c] # "idle" /\ phase[c] \notin {"returned", "aborted"}
    BY <1>6 DEF Withdraw, Return, AbortInside
  <2>. QED BY <1>1, <2>2, <2>3, <2>4, Calm DEF CallsInv, GivenUp, UnderWay
<1>. QED BY <1>3, <1>4, <1>5, <1>6 DEF Resume

\* The worker's job makes its next call only when it has none under way, and a
\* listing is spawned only when all the earlier ones are over.
LEMMA CallsBegin ==
  ASSUME BusInv, CallsInv, NEW c \in Call, JobCalls(c) \/ ListingStarts(c) \/ Spawn(c)
  PROVE  CallsInv'
<1>1. Cancelled' = Cancelled
  BY DEF JobCalls, ListingStarts, Spawn, Enter, Cancelled
<1>2. phase \in [Call -> Phase]
  BY DEF BusInv, BusTypeOK
<1>3. JobCall \subseteq Call /\ Listing \subseteq Call /\ JobCall \cap Listing = {}
  BY CallersAssumption
\* A call that is over with no task cancelled has left the bus.
<1>4. ASSUME NEW d \in Call, phase[d] \in {"returned", "aborted"}, d \notin Cancelled
      PROVE  ~UnderWay(d)
  BY <1>4 DEF BusInv, ThreadInv, CallsInv, GivenUp, UnderWay
<1>5. CASE Spawn(c)
  <2>1. Cancelled = {}
    BY <1>5 DEF Spawn, Cancelled
  <2>2. \A d \in spawned : ~UnderWay(d)
    BY <1>4, <1>5, <2>1 DEF Spawn, Ended
  <2>3. UNCHANGED <<phase, onBus>> /\ spawned' = spawned \cup {c} /\ c \in Listing
    BY <1>5 DEF Spawn
  <2>4. OneEach'
    BY <2>2, <2>3 DEF CallsInv, OneEach, UnderWay
  <2>. QED BY <1>1, <2>3, <2>4 DEF CallsInv, SpawnInv, GivenUp
<1>6. ASSUME Enter(c), phase[c] = "idle"
      PROVE  /\ phase'[c] \in {"using", "waiting"} /\ onBus' \subseteq onBus \cup {c}
             /\ \A d \in Call \ {c} : phase'[d] = phase[d]
             /\ spawned' = spawned
  BY <1>2, <1>6 DEF Enter, EnterFree, EnterWait
<1>7. CASE ListingStarts(c)
  <2>1. c \in spawned /\ phase[c] = "idle" /\ Enter(c)
    BY <1>7 DEF ListingStarts, Enter, EnterFree, EnterWait
  <2>. QED BY <1>1, <1>6, <2>1, Calm DEF CallsInv, GivenUp, UnderWay
<1>8. CASE JobCalls(c)
  <2>1. c \in JobCall /\ c \notin Cancelled /\ Pending = {} /\ phase[c] = "idle" /\ Enter(c)
    BY <1>8 DEF JobCalls, Enter, EnterFree, EnterWait
  <2>2. Cancelled = {}
    BY <1>3, <2>1 DEF Cancelled
  <2>3. \A d \in JobCall : phase[d] # "idle" => ~UnderWay(d)
    BY <1>3, <1>4, <2>1, <2>2 DEF Pending, Ended
  <2>4. OneEach'
    <3>1. \A d \in JobCall \ {c} : phase'[d] # "idle" => ~UnderWay(d)'
      BY <1>3, <1>6, <2>1, <2>3 DEF UnderWay
    <3>2. \A d \in spawned' : UnderWay(d)' => UnderWay(d)
      BY <1>3, <1>6, <2>1 DEF CallsInv, SpawnInv, UnderWay
    <3>3. spawned' = spawned
      BY <1>6, <2>1
    <3>. QED BY <3>1, <3>2, <3>3 DEF CallsInv, OneEach
  <2>5. SpawnInv' /\ GivenUp'
    BY <1>1, <1>3, <1>6, <2>1 DEF CallsInv, SpawnInv, GivenUp
  <2>. QED BY <2>4, <2>5 DEF CallsInv
<1>. QED BY <1>5, <1>7, <1>8

LEMMA CallsInvStep == TaskTypes /\ BusInv /\ CallsInv /\ [Next]_vars => CallsInv'
<1> SUFFICES ASSUME TaskTypes, BusInv, CallsInv, [Next]_vars PROVE CallsInv'
  OBVIOUS
<1>1. JobCall \subseteq Call /\ Listing \subseteq Call
  BY CallersAssumption
<1>2. CASE UNCHANGED bus /\ spawned' = spawned /\ Cancelled \subseteq Cancelled'
  BY <1>2, Calm DEF CallsInv, GivenUp, UnderWay
<1>3. CASE UNCHANGED vars \/ TakeJob \/ EndJob \/ PollerEnds \/ WorkerEnds
  BY <1>2, <1>3 DEF TakeJob, EndJob, PollerEnds, WorkerEnds, Cancelled
<1>4. CASE StopPoller \/ Closed
  BY <1>1, <1>2, <1>4 DEF StopPoller, Closed, Cancelled
<1>5. CASE StopWorker \/ Close
  <2>1. /\ spawned' = spawned /\ onBus' = onBus
        /\ \A d \in Call :
             \/ phase'[d] = phase[d]
             \/ phase[d] \in {"waiting", "woken"} /\ phase'[d] \in {"cancelled", "dropped"}
                /\ d \in Cancelled'
    BY <1>1, <1>5 DEF StopWorker, Close, CancelWaiting, Cancelled
  <2>2. Cancelled \subseteq Cancelled'
    BY <1>1, <1>5 DEF StopWorker, Close, Cancelled
  <2>. QED BY <2>1, <2>2, Calm DEF CallsInv, GivenUp, UnderWay
<1>. QED
  BY <1>3, <1>4, <1>5, CallsResume, CallsBegin DEF Next, LoopStep

-----------------------------------------------------------------------------
LifeInv == TaskTypes /\ BusInv /\ CallsInv

LEMMA LifeInvariant == Spec => []LifeInv
<1>1. Init => LifeInv
  <2>1. Init => TaskTypes
    BY DEF Init, TaskTypes
  <2>2. Init => BusInit
    BY DEF Init
  <2>. QED BY <2>1, <2>2, BusInvInit, CallsInvInit DEF LifeInv
<1>2. LifeInv /\ [Next]_vars => LifeInv'
  BY TaskTypesStep, BusInvStep, CallsInvStep DEF LifeInv
<1>. QED BY <1>1, <1>2, PTL DEF Spec

\* The lock of mtp_helper has at most one owner and is held while it has one; when
\* it is free and calls wait, the first of them has been woken or has a
\* cancellation on its way, whoever was cancelled when (mtp_helper.py:592-636).
THEOREM LockCorrect == Spec => []LockInv
<1>1. LifeInv => LockInv
  BY DEF LifeInv, TaskTypes, BusInv, CallsInv, SpawnInv, LockInv, TypeOK
<1>. QED BY <1>1, LifeInvariant, PTL

\* Two threads share the USB bus only after the shutdown has aborted the call of
\* one of them, and then there are only these two (mtp_helper.py:12-15, 592-636,
\* main.py:51-55).
THEOREM BusSharing == Spec => []BusExclusive
<1>1. LifeInv => BusExclusive
  <2> SUFFICES ASSUME LifeInv, NEW c \in onBus, NEW d \in onBus, c # d
               PROVE  /\ stage \in {"draining", "closing", "closed"}
                      /\ phase[c] = "aborted" \/ phase[d] = "aborted"
                      /\ {c, d} = onBus
    BY DEF BusExclusive
  <2>1. onBus \subseteq Call /\ \A e \in onBus : phase[e] \in {"using", "aborted"}
    BY DEF LifeInv, BusInv, BusTypeOK, ThreadInv
  <2>2. phase[c] = "aborted" \/ phase[d] = "aborted"
    BY <2>1 DEF LifeInv, BusInv, OneOwner, Using
  <2>3. Cancelled # {}
    BY <2>1, <2>2 DEF LifeInv, CallsInv, GivenUp
  <2>4. stage \in {"draining", "closing", "closed"}
    BY <2>3 DEF Cancelled
  <2>5. \A e \in onBus : e \in JobCall \/ e \in spawned
    BY <2>1, CallersAssumption DEF LifeInv, CallsInv, SpawnInv
  <2>6. \A e, f \in onBus : e \in JobCall /\ f \in JobCall => e = f
    BY <2>1 DEF LifeInv, CallsInv, OneEach, UnderWay
  <2>7. \A e, f \in onBus : e \in spawned /\ f \in spawned => e = f
    BY <2>1 DEF LifeInv, CallsInv, OneEach, UnderWay
  <2>8. {c, d} = onBus
    BY <2>5, <2>6, <2>7
  <2>. QED BY <2>2, <2>4, <2>8
<1>. QED BY <1>1, LifeInvariant, PTL

\* No call overtakes: one that enters the lock was the first of the line, or those
\* in it have all been cancelled (mtp_helper.py:592-636).
NoOvertaking ==
  \A c \in Call : phase[c] # "using" /\ phase'[c] = "using"
     => \/ waiters[1] = c
        \/ \A i \in 1..Len(waiters) : phase[waiters[i]] = "cancelled"

\* The step that FirstComeFirstServed turns on: every entry into the lock is of
\* the first call in the line, or passes cancelled ones only, in every behaviour of
\* the tasks and whoever is cancelled when (mtp_helper.py:592-636).
THEOREM ServedInOrder == Spec => [][NoOvertaking]_vars
<1>1. ASSUME LifeInv, Next, NEW c \in Call, phase[c] # "using", phase'[c] = "using"
      PROVE  EnterFree(c) \/ Granted(c)
  <2>1. phase \in [Call -> Phase] /\ BusTypeOK /\ waiters \in Seq(Call)
    BY <1>1 DEF LifeInv, BusInv, BusTypeOK
  <2>2. phase' # phase
    BY <1>1
  <2>3. CASE \E d \in Call : JobCalls(d) \/ ListingStarts(d)
    BY <1>1, <2>1, <2>3 DEF JobCalls, ListingStarts, Enter, EnterFree, EnterWait
  <2>4. CASE \E d \in Call : Thread(d) \/ ListingNeverStarts(d)
    BY <1>1, <2>1, <2>4 DEF Thread, ThreadEnds, ListingNeverStarts
  <2>5. ASSUME NEW d \in Call, Resume(d)
        PROVE  Granted(c)
    <3>1. CASE Granted(d)
      BY <1>1, <2>1, <3>1 DEF Granted
    <3>2. CASE Withdraw(d) \/ Return(d) \/ AbortInside(d)
      <4>1. phase[d] \in InLine => Without(d) \in Seq(Call)
        BY <1>1, WithoutProperties DEF LifeInv, BusInv
      <4>2. PICK p \in {"returned", "aborted"}, line \in Seq(Call) :
              phase' = PhasesAfter(d, p, line) \/ phase' = [phase EXCEPT ![d] = p]
        BY <2>1, <3>2, <4>1 DEF Withdraw, Return, AbortInside, InLine
      <4>3. p \in Phase \ {"waiting"}
        BY DEF Phase
      <4>4. phase'[c] = phase[c] \/ phase'[c] \in {p, "woken"}
        <5>1. CASE phase' = PhasesAfter(d, p, line)
          BY <2>1, <4>3, <5>1, PhasesAfterProperties
        <5>2. CASE phase' = [phase EXCEPT ![d] = p]
          BY <2>1, <5>2
        <5>. QED BY <4>2, <5>1, <5>2
      <4>. QED BY <1>1, <4>4
    <3>. QED BY <2>5, <3>1, <3>2 DEF Resume
  <2>6. ASSUME StopWorker \/ Close
        PROVE  FALSE
    BY <1>1, <2>1, <2>6 DEF StopWorker, Close, CancelWaiting
  <2>. QED
    BY <1>1, <2>2, <2>3, <2>4, <2>5, <2>6
    DEF Next, LoopStep, Spawn, TakeJob, EndJob, StopPoller, PollerEnds, WorkerEnds, Closed
<1>2. LifeInv /\ [Next]_vars => [NoOvertaking]_vars
  <2> SUFFICES ASSUME LifeInv, Next, NEW c \in Call, phase[c] # "using", phase'[c] = "using"
               PROVE  \/ waiters[1] = c
                      \/ \A i \in 1..Len(waiters) : phase[waiters[i]] = "cancelled"
    BY DEF NoOvertaking
  <2>1. CASE EnterFree(c)
    BY <2>1 DEF EnterFree
  <2>2. CASE Granted(c)
    BY <2>2 DEF Granted, LifeInv, BusInv, LineInv
  <2>. QED BY <1>1, <2>1, <2>2
<1>. QED BY <1>2, LifeInvariant, PTL DEF Spec

-----------------------------------------------------------------------------
(* The lock implements FifoLock: each step of a call is a step of the line, *)
(* or leaves the line as it is.                                            *)

LineStep == [Line!LineNext]_(Line!line)

\* Whoever waits is in the order, behind itself.
LEMMA WaitingIsLive ==
  ASSUME BusInv
  PROVE  Line!Waiting = Live
<1>1. ASSUME NEW c \in Live PROVE Ahead(c, c)
  <2>1. PICK i \in 1..Len(waiters) : waiters[i] = c
    BY DEF Live, BusInv, LineInv, InLine
  <2>2. i <= i
    OBVIOUS
  <2>. QED BY <2>1, <2>2 DEF Ahead
<1>2. Live \subseteq Call
  BY DEF Live
<1>. QED BY <1>1, <1>2 DEF Line!Waiting, Order

\* The line when the calls in S are gone from it and the others stay as they were.
LEMMA OrderRemains ==
  ASSUME NEW S, Live' = Live \ S,
         \A d, e \in Live \ S : Ahead(d, e)' <=> Ahead(d, e)
  PROVE  Order' = Line!Remaining(S)
BY DEF Order, Line!Remaining

LEMMA OrderKept ==
  ASSUME Live' = Live, \A d, e \in Live : Ahead(d, e)' <=> Ahead(d, e)
  PROVE  Order' = Order
BY DEF Order

LEMMA EnterFreeEnters ==
  ASSUME BusInv, NEW c \in Call, EnterFree(c)
  PROVE  LineStep
<1>1. /\ phase' \in [Call -> Phase] /\ phase'[c] = "using"
      /\ \A d \in Call \ {c} : phase'[d] = phase[d]
  BY DEF EnterFree, BusInv, BusTypeOK, Phase
<1>2. Using = {} /\ Using' = {c}
  <2>1. Using = {}
    BY DEF EnterFree, BusInv, OneOwner
  <2>. QED BY <1>1, <2>1 DEF Using
<1>3. Live = {}
  <2> SUFFICES ASSUME NEW d \in Call, phase[d] \in {"waiting", "woken"} PROVE FALSE
    BY DEF Live
  <2>1. PICK i \in 1..Len(waiters) : waiters[i] = d
    BY DEF BusInv, LineInv, InLine
  <2>. QED BY <2>1 DEF EnterFree
<1>4. Live' = {}
  BY <1>1, <1>3 DEF Live
<1>5. Order' = Order
  BY <1>3, <1>4, OrderKept
<1>6. Line!Enter(c)
  BY <1>2, <1>3, <1>5, WaitingIsLive DEF Line!Enter
<1>. QED BY <1>6 DEF LineStep, Line!LineNext

LEMMA EnterWaitJoins ==
  ASSUME BusInv, NEW c \in Call, EnterWait(c)
  PROVE  LineStep
<1>1. /\ phase' \in [Call -> Phase] /\ phase'[c] = "waiting" /\ phase[c] = "idle"
      /\ \A d \in Call \ {c} : phase'[d] = phase[d]
  BY DEF EnterWait, BusInv, BusTypeOK, Phase, InLine
<1>2. Using' = Using /\ c \notin Using
  BY <1>1 DEF Using
<1>3. Live' = Live \cup {c} /\ c \notin Live /\ Live \subseteq Call
  BY <1>1 DEF Live
<1>4. \A i \in 1..Len(waiters) : waiters[i] # c
  BY <1>1, NotInLine DEF InLine
<1>5. /\ Len(waiters) \in Nat /\ Len(waiters') = Len(waiters) + 1
      /\ waiters'[Len(waiters) + 1] = c
      /\ \A i \in 1..Len(waiters) : waiters'[i] = waiters[i]
  BY DEF EnterWait, BusInv, BusTypeOK
<1> DEFINE last == Len(waiters')
<1>6. /\ last \in 1..last
      /\ \A i \in 1..last : i <= last /\ (i = last \/ i \in 1..Len(waiters))
      /\ \A i \in 1..Len(waiters) : i \in 1..last /\ i < last
      /\ waiters'[last] = c
  BY <1>5
<1> HIDE DEF last
<1>7. ASSUME NEW d \in Live, NEW e \in Live PROVE Ahead(d, e)' <=> Ahead(d, e)
  <2>1. d # c /\ e # c
    BY <1>3
  <2>2. Ahead(d, e) => Ahead(d, e)'
    BY <1>5, <1>6 DEF Ahead, last
  <2>3. Ahead(d, e)' => Ahead(d, e)
    BY <1>5, <1>6, <2>1 DEF Ahead, last
  <2>. QED BY <2>2, <2>3
<1>8. ASSUME NEW d \in Live \cup {c} PROVE Ahead(d, c)'
  <2>1. CASE d = c
    BY <1>6, <2>1 DEF Ahead, last
  <2>2. CASE d \in Live
    <3>1. PICK i \in 1..Len(waiters) : waiters[i] = d
      BY <2>2 DEF Live, BusInv, LineInv, InLine
    <3>. QED BY <1>5, <1>6, <3>1 DEF Ahead, last
  <2>. QED BY <2>1, <2>2
<1>9. ASSUME NEW d \in Live PROVE ~Ahead(c, d)'
  <2> SUFFICES ASSUME NEW i \in 1..last, NEW k \in 1..last, i <= k,
                      waiters'[i] = c, waiters'[k] = d
               PROVE  FALSE
    BY DEF Ahead, last
  <2>1. k \in 1..Len(waiters)
    BY <1>3, <1>6
  <2>2. i \in 1..Len(waiters)
    BY <1>5, <1>6, <2>1 DEF last
  <2>. QED BY <1>4, <1>5, <2>2
<1>10. Order' = Order \cup ((Live \cup {c}) \X {c})
  BY <1>3, <1>7, <1>8, <1>9 DEF Order
<1>11. Line!Join(c)
  BY <1>2, <1>3, <1>10, WaitingIsLive DEF Line!Join
<1>. QED BY <1>11 DEF LineStep, Line!LineNext

LEMMA GrantedIsFirst ==
  ASSUME BusInv, NEW c \in Call, Granted(c)
  PROVE  LineStep
<1>1. /\ phase' \in [Call -> Phase] /\ phase'[c] = "using" /\ phase[c] = "woken"
      /\ \A d \in Call \ {c} : phase'[d] = phase[d]
  BY DEF Granted, BusInv, BusTypeOK, Phase
<1>2. ~locked /\ waiters[1] = c
  BY <1>1 DEF BusInv, LineInv
<1>3. Using = {} /\ Using' = {c}
  <2>1. Using = {}
    BY <1>2 DEF BusInv, OneOwner
  <2>. QED BY <1>1, <2>1 DEF Using
<1>4. Live' = Live \ {c} /\ c \in Live /\ Live \subseteq Call
  BY <1>1 DEF Live
<1>5. ASSUME NEW d \in Live PROVE Ahead(c, d)
  <2>1. PICK k \in 1..Len(waiters) : waiters[k] = d
    BY DEF Live, BusInv, LineInv, InLine
  <2>2. Len(waiters) \in Nat
    BY DEF BusInv, BusTypeOK
  <2>3. 1 \in 1..Len(waiters) /\ 1 <= k
    BY <2>2
  <2>. QED BY <1>2, <2>1, <2>3 DEF Ahead
<1>6. \A d, e \in Live \ {c} : Ahead(d, e)' <=> Ahead(d, e)
  <2>1. waiters' = Without(c)
    BY DEF Granted
  <2>2. Live \ {c} \subseteq Call \ {c}
    BY <1>4
  <2>. QED BY <1>1, <2>1, <2>2, WithoutKeepsOrder DEF Ahead, BusInv, InLine
<1>7. Order' = Line!Remaining({c})
  BY <1>4, <1>6, OrderRemains
<1>8. Line!First(c)
  BY <1>4, <1>5, WaitingIsLive DEF Line!First, Order
<1>9. Line!Grant(c)
  BY <1>3, <1>7, <1>8 DEF Line!Grant
<1>. QED BY <1>9 DEF LineStep, Line!LineNext

\* Waking the first of the line changes neither who waits nor in which order.
LEMMA WakingKeepsLine ==
  ASSUME BusTypeOK, NEW c \in Call, c \notin Live, NEW p \in {"returned", "aborted"},
         NEW line \in Seq(Call),
         phase' = PhasesAfter(c, p, line) \/ phase' = [phase EXCEPT ![c] = p]
  PROVE  /\ Live' = Live
         /\ Using' = Using \ {c}
<1>1. p \in Phase \ {"waiting"}
  BY DEF Phase
<1>2. /\ phase'[c] = p
      /\ \A d \in Call \ {c} :
           phase'[d] = phase[d] \/ (phase[d] = "waiting" /\ phase'[d] = "woken")
  <2>1. CASE phase' = PhasesAfter(c, p, line)
    BY <1>1, <2>1, PhasesAfterProperties
  <2>2. CASE phase' = [phase EXCEPT ![c] = p]
    BY <2>2 DEF BusTypeOK
  <2>. QED BY <2>1, <2>2
<1>. QED BY <1>2 DEF Live, Using

LEMMA ReleaseLeaves ==
  ASSUME BusInv, NEW c \in Call, Return(c) \/ AbortInside(c)
  PROVE  LineStep
<1>1. c \in Using /\ c \notin Live /\ waiters' = waiters
  BY DEF Return, AbortInside, Using, Live
<1>2. Using = {c}
  BY <1>1 DEF BusInv, OneOwner
<1>3. BusTypeOK /\ waiters \in Seq(Call)
  BY DEF BusInv, BusTypeOK
<1>4. Live' = Live /\ Using' = Using \ {c}
  BY <1>1, <1>3, WakingKeepsLine DEF Return, AbortInside
<1>5. Order' = Order
  BY <1>1, <1>4, OrderKept DEF Ahead
<1>6. Line!Leave
  BY <1>2, <1>4, <1>5 DEF Line!Leave
<1>. QED BY <1>6 DEF LineStep, Line!LineNext

LEMMA WithdrawIsSilent ==
  ASSUME BusInv, NEW c \in Call, Withdraw(c)
  PROVE  LineStep
<1>1. c \notin Live /\ c \notin Using /\ phase[c] \in InLine /\ waiters' = Without(c)
  BY DEF Withdraw, Live, Using, InLine
<1>2. BusTypeOK /\ LineInv /\ Without(c) \in Seq(Call)
  BY <1>1, WithoutProperties DEF BusInv
<1>3. Live' = Live /\ Using' = Using \ {c}
  BY <1>1, <1>2, WakingKeepsLine DEF Withdraw
<1>4. \A d, e \in Live : Ahead(d, e)' <=> Ahead(d, e)
  <2>1. Live \subseteq Call \ {c}
    BY <1>1 DEF Live
  <2>2. ASSUME NEW d \in Call \ {c}, NEW e \in Call \ {c}
        PROVE  Ahead(d, e) <=> \E i, k \in 1..Len(waiters') :
                                  i <= k /\ waiters'[i] = d /\ waiters'[k] = e
    BY <1>1, <1>2, WithoutKeepsOrder
  <2>. QED BY <2>1, <2>2 DEF Ahead
<1>5. Order' = Order /\ Using' = Using
  BY <1>1, <1>3, <1>4, OrderKept
<1>. QED BY <1>5 DEF LineStep, Line!line

LEMMA CancelWithdraws ==
  ASSUME BusInv, NEW S \in SUBSET Call, CancelWaiting(S), waiters' = waiters
  PROVE  LineStep
<1>1. \A c \in Call : phase'[c] = IF c \in S /\ phase[c] \in {"waiting", "woken"}
                                   THEN IF phase[c] = "woken" THEN "dropped" ELSE "cancelled"
                                   ELSE phase[c]
  BY DEF CancelWaiting
<1>2. Live' = Live \ S
  BY <1>1 DEF Live
<1>3. Using' = Using
  BY <1>1 DEF Using
<1>4. Order' = Line!Remaining(S)
  BY <1>2, OrderRemains DEF Ahead
<1>5. Line!Withdraw(S)
  BY <1>3, <1>4 DEF Line!Withdraw
<1>. QED BY <1>5 DEF LineStep, Line!LineNext

\* The end of a thread, and a cancellation before the first step, leave it alone.
LEMMA OthersAreSilent ==
  ASSUME BusInv, NEW c \in Call, ThreadEnds(c) \/ ListingNeverStarts(c)
  PROVE  LineStep
<1>1. waiters' = waiters /\ phase \in [Call -> Phase]
  BY DEF ThreadEnds, ListingNeverStarts, BusInv, BusTypeOK
<1>2. Live' = Live /\ Using' = Using
  BY <1>1 DEF ThreadEnds, ListingNeverStarts, Live, Using
<1>3. Order' = Order
  BY <1>1, <1>2, OrderKept DEF Ahead
<1>. QED BY <1>2, <1>3 DEF LineStep, Line!line

\* The verbs' lock is a first-come-first-served line with one owner: the states and
\* steps of the calls, with any cancellations, map to those of FifoLock
\* (mtp_helper.py:592-636).
THEOREM LockIsLine == Spec => FirstComeFirstServed
<1>1. Init => Line!LineInit
  BY DEF Init, BusInit, Line!LineInit, Using, Live, Order
<1>2. BusInv /\ [Next]_vars => LineStep
  <2> SUFFICES ASSUME BusInv, [Next]_vars PROVE LineStep
    OBVIOUS
  <2>1. CASE UNCHANGED bus
    <3>1. Using' = Using /\ Order' = Order
      BY <2>1 DEF Using, Order, Live, Ahead
    <3>. QED BY <3>1 DEF LineStep, Line!line
  <2>2. ASSUME NEW c \in Call, JobCalls(c) \/ ListingStarts(c)
        PROVE  LineStep
    BY <2>2, EnterFreeEnters, EnterWaitJoins DEF JobCalls, ListingStarts, Enter
  <2>3. ASSUME NEW c \in Call, Thread(c) \/ ListingNeverStarts(c) \/ Resume(c)
        PROVE  LineStep
    BY <2>3, OthersAreSilent, GrantedIsFirst, WithdrawIsSilent, ReleaseLeaves DEF Thread, Resume
  <2>4. CASE StopWorker \/ Close
    <3>1. JobCall \in SUBSET Call /\ Listing \in SUBSET Call
      BY CallersAssumption
    <3>. QED BY <2>4, <3>1, CancelWithdraws DEF StopWorker, Close
  <2>5. CASE TakeJob \/ EndJob \/ StopPoller \/ PollerEnds \/ WorkerEnds \/ Closed
             \/ \E c \in Call : Spawn(c)
    BY <2>1, <2>5 DEF TakeJob, EndJob, StopPoller, PollerEnds, WorkerEnds, Closed, Spawn
  <2>. QED BY <2>1, <2>2, <2>3, <2>4, <2>5 DEF Next, LoopStep
<1>3. LifeInv => BusInv
  BY DEF LifeInv
<1>. QED
  BY <1>1, <1>2, <1>3, LifeInvariant, PTL DEF Spec, FirstComeFirstServed, Line!LineSpec, LineStep

=============================================================================
