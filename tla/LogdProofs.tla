----------------------------- MODULE LogdProofs -----------------------------
(***************************************************************************)
(* What the unlocked opening of the log socket costs at most, for any      *)
(* number of threads, messages and failures.  Both bounds are kept by      *)
(* counting, next to what has been spent, the threads that could still     *)
(* spend: every failure stored makes room for one more of each.            *)
(***************************************************************************)
EXTENDS Logd, FiniteSetTheorems, TLAPS

N == Cardinality(Threads)

At(l) == {t \in Threads : pc[t] = l}

\* The threads whose socket() has failed, and that have yet to store it.
Failing == {t \in Threads : pc[t] = "store" /\ fd[t] = -1}
\* The failures stored.
Outages == fails - Cardinality(Failing)

\* The threads that can open one more before the next failure is stored.
Openers ==
  {t \in Threads : \/ pc[t] = "socket"
                   \/ _logfd = -1 /\ ~(pc[t] = "store" /\ fd[t] # -1)}
\* The threads about to send to no socket.
Doomed == {t \in Threads : _logfd = -1 /\ pc[t] = "send"}
\* The threads whose message may yet cost a socket().
Undecided == At("check") \cup At("socket")

TypeInv ==
  /\ _logfd \in Int /\ pc \in [Threads -> {"idle", "check", "socket", "store", "send"}]
  /\ fd \in [Threads -> Int]
  /\ msgs \in 0..MaxMsgs /\ fails \in 0..MaxFails /\ refused \in 0..MaxRefused
  /\ opened \in Nat /\ lost \in Nat
  /\ _logfd \in -1..opened /\ \A t \in Threads : fd[t] \in -1..opened

Costs ==
  /\ opened + fails + Cardinality(Undecided) <= msgs
  /\ opened + Cardinality(Openers) <= N * (Outages + 1)
  /\ lost + Cardinality(Doomed) <= N * Outages + refused

LogInv == TypeInv /\ Costs

\* Sets of threads are finite, and one thread more or less is one element.
LEMMA Countable ==
  ASSUME NEW S \in SUBSET Threads
  PROVE  Cardinality(S) \in Nat /\ N \in Nat /\ Cardinality(S) <= N
BY ConstantsAssumption, FS_Subset, FS_CardinalityType DEF N

LEMMA Counting ==
  ASSUME NEW S \in SUBSET Threads, NEW T \in SUBSET Threads
  PROVE  /\ S \subseteq T => Cardinality(S) <= Cardinality(T)
         /\ \A t \in T : S \subseteq T \ {t} => Cardinality(S) + 1 <= Cardinality(T)
         /\ \A t \in T : T \subseteq S \cup {t} => Cardinality(T) <= Cardinality(S) + 1
<1>1. IsFiniteSet(Threads) /\ IsFiniteSet(S) /\ IsFiniteSet(T) /\ N \in Nat
  BY ConstantsAssumption, FS_Subset, FS_CardinalityType DEF N
<1>2. /\ Cardinality(S) \in Nat /\ Cardinality(T) \in Nat /\ Cardinality(S) <= N
      /\ S \subseteq T => Cardinality(S) <= Cardinality(T)
  BY <1>1, FS_Subset, FS_CardinalityType DEF N
<1>3. ASSUME NEW t \in T, S \subseteq T \ {t} PROVE Cardinality(S) + 1 <= Cardinality(T)
  <2>1. IsFiniteSet(T \ {t}) /\ Cardinality(T \ {t}) = Cardinality(T) - 1
    BY <1>1, FS_RemoveElement
  <2>2. Cardinality(S) <= Cardinality(T \ {t})
    BY <1>3, <2>1, FS_Subset
  <2>3. QED  BY <1>2, <2>1, <2>2
<1>4. ASSUME NEW t \in T, T \subseteq S \cup {t} PROVE Cardinality(T) <= Cardinality(S) + 1
  <2>1. IsFiniteSet(S \cup {t}) /\ Cardinality(S \cup {t}) \in {Cardinality(S), Cardinality(S) + 1}
    BY <1>1, FS_AddElement
  <2>2. Cardinality(T) <= Cardinality(S \cup {t})
    BY <1>4, <2>1, FS_Subset
  <2>3. QED  BY <1>2, <2>1, <2>2
<1>5. QED  BY <1>2, <1>3, <1>4

LEMMA SetsOfThreads ==
  /\ Undecided \in SUBSET Threads /\ Openers \in SUBSET Threads
  /\ Doomed \in SUBSET Threads /\ Failing \in SUBSET Threads
BY DEF Undecided, At, Openers, Doomed, Failing

LEMMA LogInit == Init => LogInv
<1> SUFFICES ASSUME Init PROVE LogInv
  OBVIOUS
<1>1. Undecided = {} /\ Doomed = {} /\ Failing = {}
  BY DEF Init, Undecided, At, Doomed, Failing
<1>2. Cardinality({}) = 0
  BY FS_EmptySet
<1>3. Cardinality(Openers) <= N /\ Cardinality(Openers) \in Nat /\ N \in Nat
  BY Countable, SetsOfThreads
<1>4. TypeInv
  BY ConstantsAssumption DEF Init, TypeInv
<1>5. Costs
  BY <1>1, <1>2, <1>3 DEF Init, Costs, Outages
<1>6. QED  BY <1>4, <1>5 DEF LogInv

\* A step that stores no failure pays for what it spends with the thread that takes it.
LEMMA Spend ==
  ASSUME LogInv, TypeInv',
         Cardinality(Undecided') + (opened' - opened) + (fails' - fails)
           <= Cardinality(Undecided) + (msgs' - msgs),
         Cardinality(Openers') + (opened' - opened) <= Cardinality(Openers),
         Cardinality(Doomed') + (lost' - lost) <= Cardinality(Doomed) + (refused' - refused),
         Outages' = Outages
  PROVE  LogInv'
<1>1. /\ Cardinality(Undecided) \in Nat /\ Cardinality(Undecided') \in Nat
      /\ Cardinality(Openers) \in Nat /\ Cardinality(Openers') \in Nat
      /\ Cardinality(Doomed) \in Nat /\ Cardinality(Doomed') \in Nat
      /\ Cardinality(Failing) \in Nat /\ N \in Nat
  <2>1. /\ Undecided' \in SUBSET Threads /\ Openers' \in SUBSET Threads
        /\ Doomed' \in SUBSET Threads
    BY DEF Undecided, At, Openers, Doomed
  <2>2. QED  BY <2>1, SetsOfThreads, Countable
<1> DEFINE A == N * (Outages + 1)
           B == N * Outages
<1>2. /\ opened + fails + Cardinality(Undecided) <= msgs
      /\ opened + Cardinality(Openers) <= A /\ lost + Cardinality(Doomed) <= B + refused
  BY DEF LogInv, Costs
<1>3. A \in Int /\ B \in Int /\ N * (Outages' + 1) = A /\ N * Outages' = B
  BY <1>1 DEF LogInv, TypeInv, Outages
<1>4. /\ opened \in Nat /\ opened' \in Nat /\ fails \in Nat /\ fails' \in Nat
      /\ msgs \in Nat /\ msgs' \in Nat /\ lost \in Nat /\ lost' \in Nat
      /\ refused \in Nat /\ refused' \in Nat
  BY ConstantsAssumption DEF LogInv, TypeInv
<1> HIDE DEF A, B
<1>5. opened' + fails' + Cardinality(Undecided') <= msgs'
  BY <1>1, <1>2, <1>4
<1>6. opened' + Cardinality(Openers') <= A
  BY <1>1, <1>2, <1>3, <1>4
<1>7. lost' + Cardinality(Doomed') <= B + refused'
  BY <1>1, <1>2, <1>3, <1>4
<1>8. QED  BY <1>3, <1>5, <1>6, <1>7 DEF LogInv, Costs

\* Where the sets are after a step of one thread.
LEMMA PrimedSets ==
  /\ Undecided' \in SUBSET Threads /\ Openers' \in SUBSET Threads
  /\ Doomed' \in SUBSET Threads /\ Failing' \in SUBSET Threads
BY DEF Undecided, At, Openers, Doomed, Failing

\* A step that spends nothing and lets no thread spend more.
LEMMA Idles ==
  ASSUME LogInv, TypeInv', UNCHANGED <<opened, fails, refused, lost>>, Failing' = Failing,
         Openers' \subseteq Openers, Doomed' \subseteq Doomed,
         Cardinality(Undecided') <= Cardinality(Undecided) + (msgs' - msgs)
  PROVE  LogInv'
<1>1. /\ Cardinality(Openers') <= Cardinality(Openers)
      /\ Cardinality(Doomed') <= Cardinality(Doomed)
  BY SetsOfThreads, Counting
<1>2. /\ Cardinality(Openers) \in Nat /\ Cardinality(Openers') \in Nat
      /\ Cardinality(Doomed) \in Nat /\ Cardinality(Doomed') \in Nat
      /\ Cardinality(Undecided) \in Nat /\ Cardinality(Undecided') \in Nat
  BY SetsOfThreads, PrimedSets, Countable
<1>3. Outages' = Outages
  BY DEF Outages
<1>4. /\ opened \in Nat /\ fails \in Nat /\ lost \in Nat /\ msgs \in Nat /\ msgs' \in Nat
      /\ refused \in Nat
  BY ConstantsAssumption DEF LogInv, TypeInv
<1>5. QED  BY <1>1, <1>2, <1>3, <1>4, Spend

LEMMA LogKeeps == ASSUME NEW t \in Threads, LogInv, Log(t) PROVE LogInv'
<1> USE DEF LogInv, TypeInv
<1>1. TypeInv'
  BY ConstantsAssumption DEF Log, Goto
<1>2. \A u \in Threads : pc'[u] = IF u = t THEN "check" ELSE pc[u]
  BY DEF Log, Goto
<1>3. /\ UNCHANGED <<_logfd, fd, opened, fails, refused, lost>> /\ msgs' = msgs + 1 /\ msgs \in Nat
      /\ pc[t] = "idle"
  BY ConstantsAssumption DEF Log
<1>4. Undecided' \subseteq Undecided \cup {t}
  BY <1>2 DEF Undecided, At
<1>5. t \in Undecided'
  BY <1>2 DEF Undecided, At
<1>6. Cardinality(Undecided') <= Cardinality(Undecided) + 1
  BY <1>4, <1>5, SetsOfThreads, PrimedSets, Counting
<1>7. Openers' \subseteq Openers /\ Doomed' \subseteq Doomed /\ Failing' = Failing
  BY <1>2, <1>3 DEF Openers, Doomed, Failing
<1>8. Cardinality(Undecided) \in Nat /\ Cardinality(Undecided') \in Nat
  BY SetsOfThreads, PrimedSets, Countable
<1>9. Cardinality(Undecided') <= Cardinality(Undecided) + (msgs' - msgs)
  BY <1>3, <1>6, <1>8
<1>10. QED  BY <1>1, <1>3, <1>7, <1>9, Idles

LEMMA CheckKeeps == ASSUME NEW t \in Threads, LogInv, Check(t) PROVE LogInv'
<1>1. TypeInv'
  BY ConstantsAssumption DEF LogInv, TypeInv, Check, Goto
<1>2. /\ pc[t] = "check" /\ pc' \in [Threads -> {"idle", "check", "socket", "store", "send"}]
      /\ \A u \in Threads : u # t => pc'[u] = pc[u]
      /\ pc'[t] = IF _logfd = -1 THEN "socket" ELSE "send"
      /\ UNCHANGED <<_logfd, fd, msgs, opened, fails, refused, lost>> /\ msgs \in Nat
  BY <1>1, ConstantsAssumption DEF LogInv, TypeInv, Check, Goto, Opened
<1>3. Undecided' \subseteq Undecided
  BY <1>2 DEF Undecided, At
<1>4. Openers' \subseteq Openers /\ Doomed' \subseteq Doomed
  BY <1>2 DEF Openers, Doomed
<1>5. Failing' = Failing
  BY <1>2 DEF Failing
<1>6. Cardinality(Undecided') <= Cardinality(Undecided)
  BY <1>3, SetsOfThreads, PrimedSets, Counting
<1>7. Cardinality(Undecided) \in Nat /\ Cardinality(Undecided') \in Nat
  BY SetsOfThreads, PrimedSets, Countable
<1>8. QED  BY <1>1, <1>2, <1>4, <1>5, <1>6, <1>7, Idles

\* A descriptor is paid for by the opener that gets it; a failure by its message.
LEMMA SocketKeeps == ASSUME NEW t \in Threads, LogInv, Socket(t) PROVE LogInv'
<1>1. TypeInv'
  BY ConstantsAssumption DEF LogInv, TypeInv, Socket, Goto
<1>2. /\ pc[t] = "socket" /\ pc'[t] = "store" /\ UNCHANGED <<_logfd, msgs, refused, lost>>
      /\ \A u \in Threads : u # t => pc'[u] = pc[u] /\ fd'[u] = fd[u]
      /\ opened \in Nat /\ fails \in Nat /\ lost \in Nat /\ msgs \in Nat /\ refused \in Nat
  BY ConstantsAssumption DEF LogInv, TypeInv, Socket, Goto
<1>3. /\ Cardinality(Undecided) \in Nat /\ Cardinality(Undecided') \in Nat
      /\ Cardinality(Openers) \in Nat /\ Cardinality(Openers') \in Nat
      /\ Cardinality(Doomed) \in Nat /\ Cardinality(Doomed') \in Nat
      /\ Cardinality(Failing) \in Nat /\ Cardinality(Failing') \in Nat
  BY SetsOfThreads, PrimedSets, Countable
<1>4. Cardinality(Undecided') + 1 <= Cardinality(Undecided)
  <2>1. t \in Undecided /\ Undecided' \subseteq Undecided \ {t}
    BY <1>2 DEF Undecided, At
  <2>2. QED  BY <2>1, SetsOfThreads, PrimedSets, Counting
<1>5. Cardinality(Doomed') <= Cardinality(Doomed)
  <2>1. Doomed' \subseteq Doomed
    BY <1>2 DEF Doomed
  <2>2. QED  BY <2>1, SetsOfThreads, PrimedSets, Counting
<1>6. CASE fd' = [fd EXCEPT ![t] = opened + 1] /\ opened' = opened + 1 /\ UNCHANGED fails
  <2>1. fd'[t] # -1
    BY <1>2, <1>6 DEF LogInv, TypeInv
  <2>2. t \in Openers /\ Openers' \subseteq Openers \ {t}
    BY <1>2, <2>1 DEF Openers
  <2>3. Cardinality(Openers') + 1 <= Cardinality(Openers)
    BY <2>2, SetsOfThreads, PrimedSets, Counting
  <2>4. Failing' = Failing
    BY <1>2, <2>1 DEF Failing
  <2>5. Outages' = Outages
    BY <1>6, <2>4 DEF Outages
  <2>6. QED  BY <1>1, <1>2, <1>3, <1>4, <1>5, <1>6, <2>3, <2>5, Spend
<1>7. CASE fails' = fails + 1 /\ fd' = [fd EXCEPT ![t] = -1] /\ UNCHANGED opened
  <2>1. fd'[t] = -1
    BY <1>7 DEF LogInv, TypeInv
  <2>2. Openers' \subseteq Openers
    BY <1>2 DEF Openers
  <2>3. Cardinality(Openers') <= Cardinality(Openers)
    BY <2>2, SetsOfThreads, PrimedSets, Counting
  <2>4. t \in Failing' /\ Failing \subseteq Failing' \ {t} /\ Failing' \subseteq Failing \cup {t}
    BY <1>2, <2>1 DEF Failing
  <2>5. Cardinality(Failing') = Cardinality(Failing) + 1
    <3>1. Cardinality(Failing) + 1 <= Cardinality(Failing')
      BY <2>4, SetsOfThreads, PrimedSets, Counting
    <3>2. Cardinality(Failing') <= Cardinality(Failing) + 1
      BY <2>4, SetsOfThreads, PrimedSets, Counting
    <3>3. QED  BY <1>3, <3>1, <3>2
  <2>6. Outages' = Outages
    BY <1>2, <1>3, <1>7, <2>5 DEF Outages
  <2>7. QED  BY <1>1, <1>2, <1>3, <1>4, <1>5, <1>7, <2>3, <2>6, Spend
<1>8. QED  BY <1>6, <1>7 DEF Socket

\* A failure that is stored makes room for one descriptor and one loss of every thread.
LEMMA StoreKeeps == ASSUME NEW t \in Threads, LogInv, Store(t) PROVE LogInv'
<1>1. TypeInv'
  BY ConstantsAssumption DEF LogInv, TypeInv, Store, Goto, AfterFailure
<1>2. /\ pc[t] = "store" /\ _logfd' = fd[t] /\ UNCHANGED <<fd, msgs, opened, fails, refused>>
      /\ \A u \in Threads : u # t => pc'[u] = pc[u]
      /\ pc'[t] \in {"idle", "send"}
      /\ opened \in Nat /\ fails \in Nat /\ lost \in Nat /\ msgs \in Nat /\ refused \in Nat
  BY ConstantsAssumption DEF LogInv, TypeInv, Store, Goto, AfterFailure
<1>3. /\ Cardinality(Undecided) \in Nat /\ Cardinality(Undecided') \in Nat
      /\ Cardinality(Openers) \in Nat /\ Cardinality(Openers') \in Nat
      /\ Cardinality(Doomed) \in Nat /\ Cardinality(Doomed') \in Nat
      /\ Cardinality(Failing) \in Nat /\ Cardinality(Failing') \in Nat /\ N \in Nat
  BY SetsOfThreads, PrimedSets, Countable
<1>4. Cardinality(Undecided') <= Cardinality(Undecided)
  <2>1. Undecided' \subseteq Undecided
    BY <1>2 DEF Undecided, At
  <2>2. QED  BY <2>1, SetsOfThreads, PrimedSets, Counting
<1>5. fd[t] = -1 \/ fd[t] >= 0
  BY <1>2 DEF LogInv, TypeInv
<1>6. CASE fd[t] >= 0
  <2>1. _logfd' # -1 /\ pc'[t] = "send" /\ fd[t] # -1 /\ UNCHANGED lost
    BY <1>2, <1>6 DEF Store, Goto, LogInv, TypeInv
  <2>2. Openers' \subseteq Openers /\ Doomed' \subseteq Doomed
    BY <1>2, <2>1 DEF Openers, Doomed
  <2>3. Failing' = Failing
    BY <1>2, <2>1 DEF Failing
  <2>4. QED  BY <1>1, <1>2, <1>3, <1>4, <2>1, <2>2, <2>3, Idles
<1>7. CASE fd[t] = -1
  <2>1. pc'[t] = "idle" /\ lost' = lost + 1
    BY <1>2, <1>7 DEF Store, Goto, AfterFailure, LogInv, TypeInv
  <2>2. t \in Failing /\ Failing' \subseteq Failing \ {t} /\ Failing \subseteq Failing' \cup {t}
    BY <1>2, <1>7, <2>1 DEF Failing
  <2>3. Cardinality(Failing) = Cardinality(Failing') + 1
    <3>1. Cardinality(Failing') + 1 <= Cardinality(Failing)
      BY <2>2, SetsOfThreads, PrimedSets, Counting
    <3>2. Cardinality(Failing) <= Cardinality(Failing') + 1
      BY <2>2, SetsOfThreads, PrimedSets, Counting
    <3>3. QED  BY <1>3, <3>1, <3>2
  <2>4. Outages' = Outages + 1 /\ Outages \in Int
    BY <1>2, <1>3, <2>3 DEF Outages
  <2>5. Cardinality(Openers') <= N
    BY PrimedSets, Countable
  <2>6. Cardinality(Doomed') + 1 <= N
    <3>1. Doomed' \subseteq Threads \ {t} /\ Threads \in SUBSET Threads
      BY <2>1 DEF Doomed
    <3>2. QED  BY <3>1, PrimedSets, Counting DEF N
  <2> DEFINE A == N * (Outages + 1)
             B == N * Outages
  <2>7. A \in Int /\ B \in Int /\ N * (Outages' + 1) = A + N /\ N * Outages' = B + N
    BY <1>3, <2>4
  <2>8. /\ opened + fails + Cardinality(Undecided) <= msgs
        /\ opened + Cardinality(Openers) <= A /\ lost + Cardinality(Doomed) <= B + refused
    BY DEF LogInv, Costs
  <2> HIDE DEF A, B
  <2>9. opened' + fails' + Cardinality(Undecided') <= msgs'
    BY <1>2, <1>3, <1>4, <2>8
  <2>10. opened' + Cardinality(Openers') <= A + N
    BY <1>2, <1>3, <2>5, <2>7, <2>8
  <2>11. lost' + Cardinality(Doomed') <= B + N + refused'
    BY <1>2, <1>3, <2>1, <2>6, <2>7, <2>8
  <2>12. QED  BY <1>1, <2>7, <2>9, <2>10, <2>11 DEF LogInv, Costs
<1>8. QED  BY <1>5, <1>6, <1>7

LEMMA SendKeeps == ASSUME NEW t \in Threads, LogInv, Send(t) PROVE LogInv'
<1>1. TypeInv'
  BY ConstantsAssumption DEF LogInv, TypeInv, Send, Goto, AfterSend
<1>2. /\ pc[t] = "send" /\ pc'[t] = "idle" /\ UNCHANGED <<_logfd, fd, msgs, opened, fails>>
      /\ \A u \in Threads : u # t => pc'[u] = pc[u]
      /\ opened \in Nat /\ fails \in Nat /\ lost \in Nat /\ msgs \in Nat /\ refused \in Nat
  BY ConstantsAssumption DEF LogInv, TypeInv, Send, Goto, AfterSend
<1>3. /\ Cardinality(Undecided) \in Nat /\ Cardinality(Undecided') \in Nat
      /\ Cardinality(Openers) \in Nat /\ Cardinality(Openers') \in Nat
      /\ Cardinality(Doomed) \in Nat /\ Cardinality(Doomed') \in Nat
  BY SetsOfThreads, PrimedSets, Countable
<1>4. Openers' \subseteq Openers /\ Undecided' \subseteq Undecided
  BY <1>2 DEF Openers, Undecided, At
<1>5. Failing' = Failing
  BY <1>2 DEF Failing
<1>6. /\ Cardinality(Openers') <= Cardinality(Openers)
      /\ Cardinality(Undecided') <= Cardinality(Undecided)
  BY <1>4, SetsOfThreads, PrimedSets, Counting
<1>7. Cardinality(Doomed') + (lost' - lost) <= Cardinality(Doomed) + (refused' - refused)
  <2>1. CASE _logfd = -1
    <3>1. t \in Doomed /\ Doomed' \subseteq Doomed \ {t}
      BY <1>2, <2>1 DEF Doomed
    <3>2. Cardinality(Doomed') + 1 <= Cardinality(Doomed)
      BY <3>1, SetsOfThreads, PrimedSets, Counting
    <3>3. lost' = lost + 1 /\ refused' = refused
      BY <2>1 DEF Send
    <3>4. QED  BY <1>2, <1>3, <3>2, <3>3
  <2>2. CASE _logfd # -1
    <3>1. Doomed' \subseteq Doomed /\ lost' - lost = refused' - refused
      BY <1>2, <2>2 DEF Doomed, Send
    <3>2. Cardinality(Doomed') <= Cardinality(Doomed)
      BY <3>1, SetsOfThreads, PrimedSets, Counting
    <3>3. lost' \in Nat /\ refused' \in Nat
      BY <1>1, ConstantsAssumption DEF TypeInv
    <3>4. QED  BY <1>2, <1>3, <3>1, <3>2, <3>3
  <2>3. QED  BY <2>1, <2>2
<1>8. Outages' = Outages
  BY <1>2, <1>5 DEF Outages
<1>9. QED  BY <1>1, <1>2, <1>3, <1>6, <1>7, <1>8, Spend

LEMMA LogStep == LogInv /\ [Next]_vars => LogInv'
<1>1. ASSUME LogInv, UNCHANGED vars PROVE LogInv'
  BY <1>1 DEF vars, LogInv, TypeInv, Costs, Outages, Undecided, At, Openers, Doomed, Failing
<1>2. QED  BY <1>1, LogKeeps, CheckKeeps, SocketKeeps, StoreKeeps, SendKeeps DEF Next

THEOREM LogInvariant == Spec => []LogInv
BY LogInit, LogStep, PTL DEF Spec

\* What the sets of the invariant weigh.
LEMMA Weights ==
  ASSUME LogInv
  PROVE  /\ Cardinality(Undecided) \in Nat /\ Cardinality(Openers) \in Nat
         /\ Cardinality(Doomed) \in Nat /\ Outages \in Int /\ Outages <= fails
         /\ N \in Nat /\ fails \in Nat
         /\ N * Outages <= N * fails /\ N * (Outages + 1) <= N * (fails + 1)
<1>1. /\ Cardinality(Undecided) \in Nat /\ Cardinality(Openers) \in Nat
      /\ Cardinality(Doomed) \in Nat /\ Cardinality(Failing) \in Nat /\ N \in Nat
  BY SetsOfThreads, Countable
<1>2. fails \in Nat
  BY DEF LogInv, TypeInv
<1>3. \A n, k, m \in Int : n >= 0 /\ k <= m => n * k <= n * m
  OBVIOUS
<1>4. Outages \in Int /\ Outages <= fails
  BY <1>1, <1>2 DEF Outages
<1>5. QED  BY <1>1, <1>2, <1>3, <1>4

-----------------------------------------------------------------------------
(* The properties.                                                         *)

\* The types, and that a message costs one socket() at most.
THEOREM LogTypes == Spec => []TypeOK
<1>1. LogInv => TypeOK
  BY Weights, ConstantsAssumption DEF LogInv, TypeInv, Costs, TypeOK
<1>2. QED  BY <1>1, LogInvariant, PTL

\* Descriptors leaked by the race: one per thread and outage at most.
THEOREM LeaksBounded == Spec => []LeakBounded
<1>1. LogInv => LeakBounded
  <2> SUFFICES ASSUME LogInv PROVE opened <= N * (fails + 1)
    BY DEF LeakBounded, N
  <2>1. N * (Outages + 1) \in Int /\ N * (fails + 1) \in Int
    BY Weights
  <2>2. QED  BY <2>1, Weights DEF LogInv, TypeInv, Costs
<1>2. QED  BY <1>1, LogInvariant, PTL

\* Messages lost: those sendto dropped, and one per thread and failure of socket().
THEOREM LossesBounded == Spec => []LossBounded
<1>1. LogInv => LossBounded
  <2> SUFFICES ASSUME LogInv PROVE lost <= N * fails + refused
    BY DEF LossBounded, N
  <2>1. N * Outages \in Int /\ N * fails \in Int
    BY Weights
  <2>2. lost + Cardinality(Doomed) <= N * Outages + refused /\ lost \in Nat /\ refused \in Nat
    BY ConstantsAssumption DEF LogInv, TypeInv, Costs
  <2>3. QED  BY <2>1, <2>2, Weights
<1>2. QED  BY <1>1, LogInvariant, PTL
=============================================================================
