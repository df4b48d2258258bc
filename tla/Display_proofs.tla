--------------------------- MODULE Display_proofs ---------------------------
(***************************************************************************)
(* Proofs about the devices at a desk: the interrupt controller, the       *)
(* console over it, and the window beside it, for any number of sources,   *)
(* any script of keys, any window and any framebuffer.  Of Plic: what the  *)
(* loop of best_pending returns, and that a claim drops only what it       *)
(* claimed.  Of Console: that the bytes typed reach the guest in order,    *)
(* none is lost on the way, and none waits in the FIFO unannounced.  Of    *)
(* Display: that the console keeps its promises where the process may also *)
(* die of a key pushed too early, and that the keys typed in the window    *)
(* reach the guest in order.                                               *)
(***************************************************************************)
EXTENDS Display, Arithmetic, SequenceTheorems, TLAPS

-----------------------------------------------------------------------------
(* The registers of the interrupt controller.                              *)

(* Sources are numbered from 1, and each has a bit of one word.            *)
LEMMA SourceNumbers ==
    /\ NUM_SOURCES \in Nat /\ NUM_SOURCES - 1 \in Nat
    /\ Sources \subseteq Nat /\ 0 \notin Sources
    /\ \A s \in Sources : s % 32 = s
  BY SourcesAssumption DEF Sources

-----------------------------------------------------------------------------
(* The registers hold what the masks of the code let through.              *)

RegistersOK ==
    /\ priority \in [Sources -> Priorities]
    /\ enable \in [Contexts -> SUBSET Sources]
    /\ threshold \in [Contexts -> Priorities]
    /\ claimed \in [Contexts -> Sources \union {0}]
    /\ pending \subseteq Sources
    /\ claim # NoClaim => claim.ctx \in Contexts /\ claimed[claim.ctx] = claim.src

-----------------------------------------------------------------------------
(* The loop of best_pending.  TLA+ defines a recursive function as some    *)
(* function that satisfies its equation, so that there is one has to be    *)
(* shown; the loop invariant is then shown turn by turn.                   *)

Start(c) == [src |-> 0, pri |-> threshold[c]]

IsScan(f, n, c) ==
    f = [s \in 0..n |-> IF s = 0 THEN Start(c) ELSE Challenge(f[s - 1], s, c)]

Scan(c) ==
    CHOOSE f : f = [s \in 0..(NUM_SOURCES - 1) |->
                      IF s = 0 THEN Start(c) ELSE Challenge(f[s - 1], s, c)]

(* The loop of best_pending can be run to any source.                      *)
LEMMA ScanExists ==
    ASSUME NEW c
    PROVE  \A n \in Nat : \E f : IsScan(f, n, c)
  <1> DEFINE A == {n \in Nat : \E f : IsScan(f, n, c)}
  <1>1. 0 \in A
    <2> DEFINE f == [s \in 0..0 |-> Start(c)]
    <2>1. IsScan(f, 0, c)
      BY DEF IsScan
    <2> QED
      BY <2>1
  <1>2. ASSUME NEW n \in Nat, n \in A
        PROVE  n + 1 \in A
    <2>1. PICK f : IsScan(f, n, c)
      BY <1>2
    <2> DEFINE next == Challenge(f[n], n + 1, c)
               g == [s \in 0..(n + 1) |-> IF s = n + 1 THEN next ELSE f[s]]
    <2>2. \A s \in 0..n : f[s] = IF s = 0 THEN Start(c) ELSE Challenge(f[s - 1], s, c)
      BY <2>1, Zenon DEF IsScan
    <2>3. \A s \in 0..(n + 1) : g[s] = IF s = n + 1 THEN next ELSE f[s]
      OBVIOUS
    <2> HIDE DEF next
    <2>4. ASSUME NEW s \in 0..(n + 1)
          PROVE  g[s] = IF s = 0 THEN Start(c) ELSE Challenge(g[s - 1], s, c)
      <3>1. CASE s = n + 1
        <4>1. s # 0 /\ s - 1 = n /\ n \in 0..(n + 1) /\ n # n + 1
          BY <3>1
        <4>2. g[n] = f[n] /\ g[s] = next
          BY <2>3, <3>1, <4>1
        <4> QED
          BY <3>1, <4>1, <4>2 DEF next
      <3>2. CASE s # n + 1 /\ s # 0
        <4>1. s \in 0..n /\ s - 1 \in 0..(n + 1) /\ s - 1 # n + 1
          BY <3>2
        <4>2. g[s] = f[s] /\ g[s - 1] = f[s - 1]
          BY <2>3, <3>2, <4>1
        <4> HIDE DEF g
        <4> QED
          BY <2>2, <3>2, <4>1, <4>2
      <3>3. CASE s # n + 1 /\ s = 0
        <4>1. s \in 0..n /\ g[s] = f[s]
          BY <2>3, <3>3
        <4> HIDE DEF g
        <4> QED
          BY <2>2, <3>3, <4>1
      <3> QED
        BY <3>1, <3>2, <3>3
    <2>5. g = [s \in 0..(n + 1) |-> IF s = 0 THEN Start(c) ELSE Challenge(g[s - 1], s, c)]
      <3> DEFINE h == [s \in 0..(n + 1) |-> IF s = 0 THEN Start(c) ELSE Challenge(g[s - 1], s, c)]
      <3>1. \A s \in 0..(n + 1) : g[s] = h[s]
        BY <2>4
      <3>2. g = [s \in 0..(n + 1) |-> g[s]] /\ h = [s \in 0..(n + 1) |-> h[s]]
        OBVIOUS
      <3> HIDE DEF g, h
      <3>3. g = h
        BY <3>1, <3>2
      <3> QED
        BY <3>3 DEF h
    <2> HIDE DEF g
    <2> QED
      BY <2>5 DEF IsScan
  <1> HIDE DEF A
  <1>3. Nat \subseteq A
    BY <1>1, <1>2, SetInduction
  <1> QED
    BY <1>3 DEF A

(* Its turns are those of Scan (best_pending's for).                       *)
LEMMA ScanStep ==
    ASSUME NEW c
    PROVE  /\ Scan(c)[0] = Start(c)
           /\ \A s \in 1..(NUM_SOURCES - 1) : Scan(c)[s] = Challenge(Scan(c)[s - 1], s, c)
  <1>1. \E f : IsScan(f, NUM_SOURCES - 1, c)
    BY ScanExists, SourceNumbers
  <1>2. IsScan(Scan(c), NUM_SOURCES - 1, c)
    BY <1>1 DEF IsScan, Scan
  <1> DEFINE f == Scan(c)
  <1>3. f = [s \in 0..(NUM_SOURCES - 1) |-> IF s = 0 THEN Start(c) ELSE Challenge(f[s - 1], s, c)]
    BY <1>2 DEF IsScan
  <1> HIDE DEF f
  <1>4. \A s \in 0..(NUM_SOURCES - 1) : f[s] = IF s = 0 THEN Start(c) ELSE Challenge(f[s - 1], s, c)
    BY <1>3, Zenon
  <1>5. f[0] = Start(c) /\ \A s \in 1..(NUM_SOURCES - 1) : f[s] = Challenge(f[s - 1], s, c)
    BY <1>4, SourceNumbers
  <1> QED
    BY <1>5 DEF f

(* It returns the source its last turn leaves.                             *)
LEMMA BestIsScan ==
    ASSUME NEW c
    PROVE  best_pending(c) = Scan(c)[NUM_SOURCES - 1].src
  BY DEF best_pending, Scan, Start

\* After the turns up to s, b holds the best of the eligible sources seen, or
\* the threshold when there is none.
BestSoFar(b, s, c) ==
    IF b.src = 0
    THEN b.pri = threshold[c] /\ \A t \in Eligible(c) : t > s
    ELSE /\ b.src \in Eligible(c) /\ b.src <= s /\ b.pri = priority[b.src]
         /\ \A t \in Eligible(c) : t <= s =>
               \/ priority[t] < b.pri
               \/ priority[t] = b.pri /\ b.src <= t

(* A turn keeps the best of the sources it has seen.                       *)
LEMMA TurnKeepsBest ==
    ASSUME RegistersOK, NEW c \in Contexts, NEW b, NEW s \in Sources, BestSoFar(b, s - 1, c)
    PROVE  BestSoFar(Challenge(b, s, c), s, c)
  <1>1. /\ \A t \in Sources : priority[t] \in Int /\ t \in Int /\ t # 0
        /\ threshold[c] \in Int /\ Active(c) \subseteq Sources
    BY SourceNumbers DEF RegistersOK, Priorities, Active
  <1>2. Eligible(c) = {t \in Active(c) : priority[t] > threshold[c]}
    BY DEF Eligible
  <1>3. /\ b.pri \in Int /\ threshold[c] <= b.pri
        /\ \A t \in Eligible(c) : t <= s - 1 => priority[t] <= b.pri
    BY <1>1, <1>2 DEF BestSoFar
  <1>4. \A t \in Eligible(c) : t \in Sources /\ (t <= s <=> t <= s - 1 \/ t = s) /\ (t > s - 1 <=> t = s \/ t > s)
    BY <1>1, <1>2
  <1>5. CASE s \in Active(c) /\ priority[s] > b.pri
    <2> DEFINE d == [src |-> s, pri |-> priority[s]]
    <2>1. Challenge(b, s, c) = d
      BY <1>5 DEF Challenge
    <2>2. s \in Eligible(c)
      BY <1>1, <1>2, <1>3, <1>5
    <2>3. ASSUME NEW t \in Eligible(c), t <= s
          PROVE  priority[t] < priority[s] \/ (priority[t] = priority[s] /\ s <= t)
      <3>1. CASE t = s
        BY <1>1, <3>1
      <3>2. CASE t # s
        BY <1>1, <1>3, <1>4, <1>5, <2>3, <3>2
      <3> QED
        BY <3>1, <3>2
    <2>4. BestSoFar(d, s, c)
      BY <1>1, <2>2, <2>3 DEF BestSoFar
    <2> QED
      BY <2>1, <2>4
  <1>6. CASE ~(s \in Active(c) /\ priority[s] > b.pri)
    <2>1. Challenge(b, s, c) = b
      BY <1>6 DEF Challenge
    <2>2. s \in Eligible(c) => priority[s] <= b.pri
      BY <1>1, <1>2, <1>6, <1>3
    <2>3. CASE b.src = 0
      <3>1. b.pri = threshold[c] /\ s \notin Eligible(c)
        BY <1>1, <1>2, <2>2, <2>3 DEF BestSoFar
      <3>2. \A t \in Eligible(c) : t > s
        BY <1>4, <2>3, <3>1 DEF BestSoFar
      <3> QED
        BY <2>1, <2>3, <3>1, <3>2 DEF BestSoFar
    <2>4. CASE b.src # 0
      <3>1. b.src \in Eligible(c) /\ b.src <= s - 1 /\ b.pri = priority[b.src]
        BY <2>4 DEF BestSoFar
      <3>2. b.src <= s
        BY <1>1, <1>4, <3>1
      <3> QED
        BY <1>1, <1>4, <2>1, <2>2, <2>4, <3>1, <3>2 DEF BestSoFar
    <2> QED
      BY <2>3, <2>4
  <1> QED
    BY <1>5, <1>6

(* So the loop ends with the best of all.                                  *)
LEMMA ScanFindsBest ==
    ASSUME RegistersOK, NEW c \in Contexts
    PROVE  BestSoFar(Scan(c)[NUM_SOURCES - 1], NUM_SOURCES - 1, c)
  <1> DEFINE f == Scan(c)
             last == NUM_SOURCES - 1
             A == {n \in Nat : n <= last => BestSoFar(f[n], n, c)}
  <1>0. last \in Nat /\ Sources = 1..last
    BY SourceNumbers DEF Sources
  <1>1. 0 \in A
    <2>1. \A t \in Eligible(c) : t > 0
      BY DEF Eligible, Active, RegistersOK, Sources
    <2>2. f[0] = Start(c)
      BY ScanStep
    <2> HIDE DEF f
    <2>3. BestSoFar(f[0], 0, c)
      BY <2>1, <2>2 DEF BestSoFar, Start
    <2> QED
      BY <2>3
  <1>2. ASSUME NEW n \in Nat, n \in A
        PROVE  n + 1 \in A
    <2>1. CASE n + 1 <= last
      <3>1. n + 1 \in Sources /\ n <= last /\ n + 1 \in 1..last /\ (n + 1) - 1 = n
        BY <1>0, <2>1
      <3>2. f[n + 1] = Challenge(f[n], n + 1, c)
        BY <3>1, ScanStep
      <3> HIDE DEF f, last
      <3>3. BestSoFar(f[n], n, c)
        BY <1>2, <3>1
      <3>4. BestSoFar(f[n + 1], n + 1, c)
        BY <3>1, <3>2, <3>3, TurnKeepsBest
      <3> QED
        BY <3>4
    <2>2. CASE ~(n + 1 <= last)
      BY <2>2
    <2> QED
      BY <2>1, <2>2
  <1> HIDE DEF A
  <1>3. Nat \subseteq A
    BY <1>1, <1>2, SetInduction
  <1>4. last \in A /\ last <= last
    BY <1>0, <1>3
  <1> HIDE DEF last, f
  <1>5. BestSoFar(f[last], last, c)
    BY <1>4 DEF A
  <1> QED
    BY <1>5 DEF f, last

(* What the loop returns.                                                  *)
LEMMA BestWins ==
    ASSUME RegistersOK, NEW c \in Contexts
    PROVE  /\ best_pending(c) = 0 => Eligible(c) = {}
           /\ best_pending(c) # 0 => Wins(best_pending(c), c)
           /\ best_pending(c) \in Sources \union {0}
  <1> DEFINE b == Scan(c)[NUM_SOURCES - 1]
  <1>1. BestSoFar(b, NUM_SOURCES - 1, c) /\ best_pending(c) = b.src
    BY ScanFindsBest, BestIsScan
  <1>2. \A t \in Eligible(c) : t \in Sources /\ t <= NUM_SOURCES - 1 /\ ~(t > NUM_SOURCES - 1)
    BY SourceNumbers DEF Eligible, Active, RegistersOK, Sources
  <1> HIDE DEF b
  <1> QED
    BY <1>1, <1>2 DEF BestSoFar, Wins

(* The registers are in order at reset.                                    *)
LEMMA PlicInitOK == ASSUME PlicInit PROVE RegistersOK
  BY DEF PlicInit, RegistersOK, Priorities, Contexts, CTX_MACHINE, CTX_SUPERVISOR

\* Any access of the CPU's and any interrupt, with whatever value.
AnyPlicStep ==
    \/ \E s \in Sources, v \in Nat : WritePriority(s, v)
    \/ \E c \in Contexts : \E bits : WriteEnable(c, bits)
    \/ \E c \in Contexts, v \in Nat : WriteThreshold(c, v)
    \/ \E c \in Contexts : ClaimLoad(c)
    \/ \E c \in Contexts : \E v : Complete(c, v)
    \/ ClaimClear
    \/ \E s \in Sources : set_pending(s)

(* The masks read32 and write32 apply keep every register in its range.    *)
LEMMA RegistersKept ==
    ASSUME RegistersOK, AnyPlicStep
    PROVE  RegistersOK'
  <1>0. \A v \in Nat : v % 8 \in Priorities
    BY DEF Priorities
  <1>1. ASSUME NEW s \in Sources, NEW v \in Nat, WritePriority(s, v)
        PROVE  RegistersOK'
    BY <1>0, <1>1 DEF WritePriority, RegistersOK
  <1>2. ASSUME NEW c \in Contexts, NEW bits, WriteEnable(c, bits)
        PROVE  RegistersOK'
    <2>1. EnableMask(bits) \in SUBSET Sources
      BY DEF EnableMask
    <2> QED
      BY <1>2, <2>1 DEF WriteEnable, RegistersOK
  <1>3. ASSUME NEW c \in Contexts, NEW v \in Nat, WriteThreshold(c, v)
        PROVE  RegistersOK'
    BY <1>0, <1>3 DEF WriteThreshold, RegistersOK
  <1>4. ASSUME NEW c \in Contexts, ClaimLoad(c)
        PROVE  RegistersOK'
    <2>1. best_pending(c) \in Sources \union {0}
      BY BestWins
    <2>2. /\ UNCHANGED <<priority, enable, threshold, pending>>
          /\ claim' = [ctx |-> c, src |-> best_pending(c)]
          /\ claimed' = [claimed EXCEPT ![c] = best_pending(c)]
      BY <1>4 DEF ClaimLoad
    <2> QED
      BY <2>1, <2>2 DEF RegistersOK
  <1>5. ASSUME NEW c \in Contexts, NEW v, Complete(c, v)
        PROVE  RegistersOK'
    BY <1>5 DEF Complete, RegistersOK
  <1>6. CASE ClaimClear
    BY <1>6 DEF ClaimClear, RegistersOK
  <1>7. ASSUME NEW s \in Sources, set_pending(s)
        PROVE  RegistersOK'
    BY <1>7 DEF set_pending, RegistersOK
  <1> QED
    BY <1>1, <1>2, <1>3, <1>4, <1>5, <1>6, <1>7 DEF AnyPlicStep

(* ... and so does every step of the guest of PlicSpec.                    *)
LEMMA RegistersStep ==
    ASSUME RegistersOK, [PlicNext]_plicVars
    PROVE  RegistersOK'
  <1>1. CASE PlicNext
    <2>1. AnyPlicStep
      BY <1>1, PlicWritesAssumption
         DEF AnyPlicStep, PlicNext, PlicConfigure, CompleteClaimed
    <2> QED
      BY <2>1, RegistersKept
  <1>2. CASE UNCHANGED plicVars
    BY <1>2 DEF plicVars, RegistersOK
  <1> QED
    BY <1>1, <1>2

(* The loop returns the winner, whatever the registers hold.               *)
THEOREM ArbiterIsAlwaysFair == PlicSpec => []ArbiterIsFair
  <1>1. RegistersOK => ArbiterIsFair
    BY BestWins DEF ArbiterIsFair
  <1> QED
    BY <1>1, PlicInitOK, RegistersStep, PTL DEF PlicSpec

\* The guest's other completions name no source.
CompletesOwn == \A v \in CompleteWrites : v % 32 \notin Sources

(* No bit that another thread sets around a claim is swept away with it.   *)
THEOREM OnlyServedAreDropped == ASSUME CompletesOwn PROVE PlicSpec => DroppedOnlyInService
  <1> DEFINE A == \A s \in pending \ pending' : \E c \in Contexts : claimed[c] = s
  <1>1. ASSUME RegistersOK, [PlicNext]_plicVars
        PROVE  [A]_plicVars
    <2>1. ASSUME NEW c \in Contexts, CompleteClaimed(c)
          PROVE  A
      <3>1. claimed[c] \in Sources
        BY <1>1, <2>1 DEF CompleteClaimed, RegistersOK
      <3>2. pending' = pending \ {claimed[c]}
        BY <2>1, <3>1, SourceNumbers DEF CompleteClaimed, Complete
      <3> QED
        BY <3>2
    <2>2. ASSUME NEW c \in Contexts, NEW v \in CompleteWrites, Complete(c, v)
          PROVE  A
      BY <1>1, <2>2 DEF Complete, CompletesOwn, RegistersOK
    <2>3. ASSUME ClaimClear PROVE A
      BY <1>1, <2>3 DEF ClaimClear, Dropped, RegistersOK
    <2>4. ASSUME pending \subseteq pending' PROVE A
      BY <2>4
    <2>5. CASE PlicConfigure \/ \E c \in Contexts : ClaimLoad(c)
      BY <2>4, <2>5 DEF PlicConfigure, WritePriority, WriteEnable, WriteThreshold, ClaimLoad
    <2>6. CASE \E s \in Sources : set_pending(s)
      BY <2>4, <2>6 DEF set_pending
    <2> QED
      BY <1>1, <2>1, <2>2, <2>3, <2>5, <2>6 DEF PlicNext
  <1>2. PlicSpec => [][A]_plicVars
    BY <1>1, PlicInitOK, RegistersStep, PTL DEF PlicSpec
  <1> QED
    BY <1>2 DEF DroppedOnlyInService

-----------------------------------------------------------------------------
(* The meaning of what is typed, one byte at a time.                       *)

PushedBytes == Bytes \cup {CtrlA}
Meanings == [out : Seq(PushedBytes), esc : BOOLEAN]
Nothing == [out |-> <<>>, esc |-> FALSE]

(* Before anything is typed no byte has been pushed and no escape is open. *)
LEMMA NothingMeant == Nothing \in Meanings
  <1>1. <<>> \in Seq(PushedBytes)
    BY EmptySeq
  <1> QED
    BY <1>1 DEF Nothing, Meanings

(* The guest is sent bytes that were typed, and Ctrl+A for a doubled one.  *)
LEMMA MeansSomething ==
    ASSUME NEW last \in Meanings, NEW b \in Bytes
    PROVE  Means(last, b) \in Meanings
  <1>1. last.out \in Seq(PushedBytes) /\ last.esc \in BOOLEAN /\ b \in PushedBytes /\ CtrlA \in PushedBytes
    BY DEF Meanings, PushedBytes
  <1>2. Append(last.out, CtrlA) \in Seq(PushedBytes) /\ Append(last.out, b) \in Seq(PushedBytes)
    BY <1>1, AppendProperties
  <1>3. last.out \o <<CtrlA, b>> \in Seq(PushedBytes)
    BY <1>1, ConcatProperties
  <1> QED
    BY <1>1, <1>2, <1>3, ConsoleAssumption DEF Means, Meanings

IsMeaning(m, bytes) ==
    m = [i \in 0..Len(bytes) |->
            IF i = 0 THEN [out |-> <<>>, esc |-> FALSE]
            ELSE Means(m[i - 1], bytes[i])]

Turns(bytes) == CHOOSE m : IsMeaning(m, bytes)

(* Every typed sequence has a meaning, byte by byte: the recursion of      *)
(* Meaning is one (read_char's escape_mode).                               *)
LEMMA MeaningExists ==
    ASSUME NEW bytes \in Seq(Bytes)
    PROVE  \E m \in [0..Len(bytes) -> Meanings] : IsMeaning(m, bytes)
  <1>0. Len(bytes) \in Nat /\ \A i \in 1..Len(bytes) : bytes[i] \in Bytes
    BY LenProperties, ElementOfSeq
  <1> DEFINE g == [i \in 1..Len(bytes) |-> [x \in Meanings |-> Means(x, bytes[i])]]
  <1>1. \A i \in 1..Len(bytes) : \A x \in Meanings : g[i][x] = Means(x, bytes[i])
    OBVIOUS
  <1> HIDE DEF g
  <1> DEFINE n == Len(bytes)
  <1>2. \A i \in 1..Len(bytes) : \A x \in Meanings : g[i][x] \in Meanings
    BY <1>0, <1>1, MeansSomething
  <1>3. Nothing \in Meanings
    BY NothingMeant
  <1>4. PICK f \in [0..Len(bytes) -> Meanings] :
           f[0] = Nothing /\ \A i \in 1..Len(bytes) : f[i] = g[i][f[i - 1]]
    <2>1. n \in Nat /\ \A i \in 1..n : \A x \in Meanings : g[i][x] \in Meanings
      BY <1>0, <1>2
    <2> HIDE DEF n
    <2>2. \E f \in [0..n -> Meanings] : Recurses(f, Nothing, g, n)
      BY <1>3, <2>1, RecursionExists
    <2> QED
      BY <2>2 DEF n, Recurses
  <1> DEFINE h == [i \in 0..Len(bytes) |->
                     IF i = 0 THEN [out |-> <<>>, esc |-> FALSE]
                     ELSE Means(f[i - 1], bytes[i])]
  <1>5. ASSUME NEW i \in 0..Len(bytes) PROVE f[i] = h[i]
    <2>1. CASE i = 0
      BY <1>4, <2>1 DEF Nothing
    <2>2. CASE i # 0
      <3>1. i \in 1..Len(bytes) /\ i - 1 \in 0..Len(bytes)
        BY <1>0, <2>2
      <3>2. f[i - 1] \in Meanings
        BY <3>1
      <3>3. f[i] = Means(f[i - 1], bytes[i])
        BY <1>1, <1>4, <3>1, <3>2
      <3> QED
        BY <2>2, <3>3
    <2> QED
      BY <2>1, <2>2
  <1>6. f = [i \in 0..Len(bytes) |-> f[i]] /\ h = [i \in 0..Len(bytes) |-> h[i]]
    OBVIOUS
  <1> HIDE DEF h
  <1>7. f = h
    BY <1>5, <1>6
  <1> QED
    BY <1>7, Zenon DEF IsMeaning, h

(* ... and it is the one Meaning picks.                                    *)
LEMMA TurnsAre ==
    ASSUME NEW bytes \in Seq(Bytes)
    PROVE  /\ Turns(bytes)[0] = Nothing
           /\ \A i \in 1..Len(bytes) : Turns(bytes)[i] = Means(Turns(bytes)[i - 1], bytes[i])
           /\ Meaning(bytes) = Turns(bytes)[Len(bytes)].out
  <1>0. Len(bytes) \in Nat
    BY LenProperties
  <1> DEFINE m == Turns(bytes)
  <1>1. IsMeaning(m, bytes)
    BY MeaningExists, Zenon DEF Turns
  <1>2. Meaning(bytes) = m[Len(bytes)].out
    BY DEF Meaning, Turns, IsMeaning
  <1> HIDE DEF m
  <1>3. \A i \in 0..Len(bytes) :
            m[i] = IF i = 0 THEN Nothing ELSE Means(m[i - 1], bytes[i])
    BY <1>1, Zenon DEF IsMeaning, Nothing
  <1>4. m[0] = Nothing /\ \A i \in 1..Len(bytes) : m[i] = Means(m[i - 1], bytes[i])
    BY <1>0, <1>3
  <1> QED
    BY <1>2, <1>4 DEF m

(* One more byte leaves the meaning of those before it as it was.          *)
LEMMA EarlierTurnsStay ==
    ASSUME NEW bytes \in Seq(Bytes), NEW b \in Bytes
    PROVE  \A i \in 0..Len(bytes) : Turns(Append(bytes, b))[i] = Turns(bytes)[i]
  <1> DEFINE more == Append(bytes, b)
  <1>1. /\ more \in Seq(Bytes) /\ Len(bytes) \in Nat /\ Len(more) = Len(bytes) + 1
        /\ \A i \in 1..Len(bytes) : more[i] = bytes[i]
    BY AppendProperties, LenProperties
  <1> HIDE DEF more
  <1> DEFINE A == {n \in Nat : n <= Len(bytes) => Turns(more)[n] = Turns(bytes)[n]}
  <1>2. 0 \in A
    BY <1>1, TurnsAre
  <1>3. ASSUME NEW n \in Nat, n \in A PROVE n + 1 \in A
    <2>1. n + 1 \in Nat
      OBVIOUS
    <2>2. ASSUME n + 1 <= Len(bytes)
          PROVE  Turns(more)[n + 1] = Turns(bytes)[n + 1]
      <3>1. /\ n + 1 \in 1..Len(bytes) /\ n + 1 \in 1..Len(more)
            /\ (n + 1) - 1 = n /\ n <= Len(bytes)
        BY <1>1, <2>2
      <3>2. Turns(more)[n] = Turns(bytes)[n] /\ more[n + 1] = bytes[n + 1]
        BY <1>1, <1>3, <3>1
      <3>3. Turns(more)[n + 1] = Means(Turns(more)[n], more[n + 1])
        BY <1>1, <3>1, TurnsAre
      <3>4. Turns(bytes)[n + 1] = Means(Turns(bytes)[n], bytes[n + 1])
        BY <3>1, TurnsAre
      <3> QED
        BY <3>2, <3>3, <3>4
    <2> QED
      BY <2>1, <2>2
  <1> HIDE DEF A
  <1>4. Nat \subseteq A
    BY <1>2, <1>3, SetInduction
  <1> QED
    BY <1>1, <1>4 DEF A, more

(* One more byte typed is one more turn of the thread's loop.              *)
LEMMA OneMoreByte ==
    ASSUME NEW bytes \in Seq(Bytes), NEW b \in Bytes
    PROVE  /\ Turns(bytes)[Len(bytes)] \in Meanings
           /\ Turns(Append(bytes, b))[Len(Append(bytes, b))]
                = Means(Turns(bytes)[Len(bytes)], b)
  <1> DEFINE more == Append(bytes, b)
  <1>1. /\ more \in Seq(Bytes) /\ Len(bytes) \in Nat /\ Len(more) = Len(bytes) + 1
        /\ more[Len(bytes) + 1] = b
    BY AppendProperties, LenProperties
  <1>2. Turns(more)[Len(bytes)] = Turns(bytes)[Len(bytes)]
    BY <1>1, EarlierTurnsStay
  <1> HIDE DEF more
  <1>3. Len(more) \in 1..Len(more) /\ Len(more) - 1 = Len(bytes)
    BY <1>1
  <1>4. Turns(more)[Len(more)] = Means(Turns(more)[Len(more) - 1], more[Len(more)])
    BY <1>1, <1>3, TurnsAre
  <1>5. Turns(more)[Len(more)] = Means(Turns(bytes)[Len(bytes)], b)
    BY <1>1, <1>2, <1>3, <1>4
  <1>6. Turns(bytes)[Len(bytes)] \in Meanings
    <2>1. PICK m \in [0..Len(bytes) -> Meanings] : IsMeaning(m, bytes)
      BY MeaningExists
    <2> DEFINE A == {n \in Nat : n <= Len(bytes) => Turns(bytes)[n] \in Meanings}
    <2>2. 0 \in A
      BY NothingMeant, TurnsAre
    <2>3. ASSUME NEW n \in Nat, n \in A PROVE n + 1 \in A
      <3>1. n + 1 \in Nat
        OBVIOUS
      <3>2. ASSUME n + 1 <= Len(bytes) PROVE Turns(bytes)[n + 1] \in Meanings
        <4>1. n + 1 \in 1..Len(bytes) /\ (n + 1) - 1 = n /\ n <= Len(bytes)
          BY <1>1, <3>2
        <4>2. Turns(bytes)[n] \in Meanings /\ bytes[n + 1] \in Bytes
          BY <2>3, <4>1, ElementOfSeq
        <4>3. Turns(bytes)[n + 1] = Means(Turns(bytes)[n], bytes[n + 1])
          BY <4>1, TurnsAre
        <4> QED
          BY <4>2, <4>3, MeansSomething
      <3> QED
        BY <3>1, <3>2
    <2> HIDE DEF A
    <2>4. Nat \subseteq A
      BY <2>2, <2>3, SetInduction
    <2> QED
      BY <1>1, <2>4 DEF A
  <1> QED
    BY <1>5, <1>6 DEF more

(* A sequence is its first element and the rest.                           *)
LEMMA HeadAndTail ==
    ASSUME NEW S, NEW s \in Seq(S), s # <<>>
    PROVE  /\ Head(s) \in S /\ Tail(s) \in Seq(S) /\ <<Head(s)>> \in Seq(S)
           /\ s = <<Head(s)>> \o Tail(s)
  <1>1. Len(s) \in Nat /\ Len(s) # 0
    BY LenProperties, EmptySeq
  <1>2. 1 \in 1..Len(s) /\ Len(s) \in 1..Len(s)
    BY <1>1
  <1>3. /\ SubSeq(s, 1, Len(s)) = s
        /\ SubSeq(s, 1, Len(s)) = <<s[1]>> \o SubSeq(s, 2, Len(s))
    BY <1>2, SubSeqFull, SubSeqRecursiveFirst
  <1>4. Head(s) \in S /\ Tail(s) \in Seq(S) /\ Tail(s) = SubSeq(s, 2, Len(s))
    BY HeadTailProperties, TailIsSubSeq
  <1>5. Head(s) = s[1]
    BY <1>2, <1>3, SMT
  <1> QED
    BY <1>3, <1>4, <1>5

-----------------------------------------------------------------------------
(* The stream.                                                             *)

\* What the stream is made of: sequences of bytes.
StreamOK ==
    /\ keys \in Seq(Bytes) /\ typed \in Seq(Bytes)
    /\ todo \in Seq(PushedBytes) /\ rx_fifo \in Seq(PushedBytes) /\ gone \in Seq(PushedBytes)
    /\ escape_mode \in BOOLEAN

\* The input thread reads a byte only after it has pushed all of the last one,
\* and escape_mode remembers whether a Ctrl+A is open.
StreamInv ==
    /\ StreamOK
    /\ StreamIntact
    /\ escape_mode = Turns(typed)[Len(typed)].esc
    /\ input \in {"top", "read"} => todo = <<>>
    /\ input = "push" => todo # <<>>

(* The stream is empty at first.                                           *)
LEMMA InitStream == ASSUME Init PROVE StreamInv
  <1>1. keys \in Seq(Bytes) /\ typed = <<>> /\ todo = <<>> /\ rx_fifo = <<>> /\ gone = <<>>
        /\ escape_mode = FALSE /\ input = "top"
    BY ConsoleAssumption DEF Init
  <1>2. <<>> \in Seq(Bytes) /\ <<>> \in Seq(PushedBytes) /\ Len(<<>>) = 0
    BY EmptySeq
  <1>3. StreamOK
    BY <1>1, <1>2 DEF StreamOK
  <1>4. Turns(typed)[Len(typed)] = Nothing /\ Meaning(typed) = <<>>
    <2>1. Turns(<<>>)[0] = Nothing /\ Meaning(<<>>) = Turns(<<>>)[Len(<<>>)].out
      BY <1>2, TurnsAre
    <2> QED
      BY <1>1, <1>2, <2>1 DEF Nothing
  <1>5. gone \o rx_fifo \o todo = <<>>
    <2>1. <<>> \o <<>> = <<>>
      BY <1>2, ConcatEmptySeq
    <2> QED
      BY <1>1, <2>1
  <1>6. escape_mode = Turns(typed)[Len(typed)].esc
    <2>1. Nothing.esc = FALSE
      BY DEF Nothing
    <2> QED
      BY <1>1, <1>4, <2>1, Zenon
  <1> QED
    BY <1>1, <1>3, <1>4, <1>5, <1>6 DEF StreamInv, StreamIntact

(* read_char pushes what a byte adds to the meaning of those before it.    *)
LEMMA PushesWhatItMeans ==
    ASSUME NEW b \in Bytes, NEW last \in Meanings, last.esc = escape_mode, Tty
    PROVE  /\ Pushes(b) \in Seq(PushedBytes)
           /\ Means(last, b).out = last.out \o Pushes(b)
           /\ Means(last, b).esc = (b = CtrlA /\ ~escape_mode)
  <1>1. last.out \in Seq(PushedBytes) /\ last.esc \in BOOLEAN /\ b \in PushedBytes /\ CtrlA \in PushedBytes
    BY DEF Meanings, PushedBytes
  <1>2. /\ Append(last.out, CtrlA) = last.out \o <<CtrlA>>
        /\ Append(last.out, b) = last.out \o <<b>>
    BY <1>1, AppendIsConcat
  <1>3. last.out \o <<>> = last.out
    BY <1>1, ConcatEmptySeq
  <1>4. /\ <<>> \in Seq(PushedBytes) /\ <<b>> \in Seq(PushedBytes) /\ <<CtrlA>> \in Seq(PushedBytes)
        /\ <<CtrlA, b>> \in Seq(PushedBytes)
    BY <1>1
  <1>5. CtrlA # Quit
    BY ConsoleAssumption
  <1>6. CASE last.esc /\ b = Quit
    BY <1>3, <1>4, <1>5, <1>6 DEF Means, Pushes
  <1>7. CASE last.esc /\ b = CtrlA
    BY <1>2, <1>4, <1>5, <1>7 DEF Means, Pushes
  <1>8. CASE last.esc /\ b \notin {Quit, CtrlA}
    BY <1>4, <1>5, <1>8 DEF Means, Pushes
  <1>9. CASE ~last.esc /\ b = CtrlA
    BY <1>3, <1>4, <1>5, <1>9 DEF Means, Pushes
  <1>10. CASE ~last.esc /\ b # CtrlA
    BY <1>2, <1>4, <1>5, <1>10 DEF Means, Pushes
  <1> QED
    BY <1>1, <1>6, <1>7, <1>8, <1>9, <1>10

(* read_char consumes a byte: what it means joins what is still to push.   *)
LEMMA ReadCharKeepsStream == ASSUME Tty, StreamInv, ReadChar PROVE StreamInv'
  <1> DEFINE b == Head(keys)
             more == Append(typed, b)
             last == Turns(typed)[Len(typed)]
  <1>1. b \in Bytes /\ Tail(keys) \in Seq(Bytes)
    BY HeadTailProperties DEF StreamInv, StreamOK, ReadChar
  <1>2. /\ typed' = more /\ todo' = Pushes(b) /\ keys' = Tail(keys)
        /\ escape_mode' = (b = CtrlA /\ ~escape_mode)
        /\ rx_fifo' = rx_fifo /\ gone' = gone /\ todo = <<>>
        /\ input' = IF Pushes(b) = <<>> THEN "top" ELSE "push"
    BY DEF ReadChar, StreamInv
  <1>3. /\ typed \in Seq(Bytes) /\ rx_fifo \in Seq(PushedBytes) /\ gone \in Seq(PushedBytes)
        /\ gone \o rx_fifo \o todo = Meaning(typed) /\ last.esc = escape_mode
    BY DEF StreamInv, StreamOK, StreamIntact
  <1>4. /\ last \in Meanings
        /\ Turns(more)[Len(more)] = Means(last, b)
        /\ more \in Seq(Bytes)
    BY <1>1, <1>3, OneMoreByte, AppendProperties
  <1>5. Meaning(typed) = last.out /\ Meaning(more) = Means(last, b).out
    BY <1>3, <1>4, TurnsAre
  <1> HIDE DEF b, more, last
  <1>6. /\ Pushes(b) \in Seq(PushedBytes)
        /\ Means(last, b).out = last.out \o Pushes(b)
        /\ Means(last, b).esc = (b = CtrlA /\ ~escape_mode)
    BY <1>1, <1>3, <1>4, PushesWhatItMeans
  <1>7. gone \o rx_fifo \in Seq(PushedBytes) /\ (gone \o rx_fifo) \o <<>> = gone \o rx_fifo
    BY <1>3, ConcatProperties, ConcatEmptySeq
  <1>8. gone' \o rx_fifo' \o todo' = Meaning(typed')
    BY <1>2, <1>3, <1>5, <1>6, <1>7
  <1>9. escape_mode' = Turns(typed')[Len(typed')].esc
    BY <1>2, <1>4, <1>6, Zenon
  <1>10. escape_mode' \in BOOLEAN
    BY <1>2
  <1>11. StreamOK'
    BY <1>1, <1>2, <1>3, <1>4, <1>6, <1>10 DEF StreamOK
  <1> QED
    BY <1>2, <1>8, <1>9, <1>11 DEF StreamInv, StreamIntact

(* rx_push moves the first byte still to push to the end of the FIFO.      *)
LEMMA PushKeepsStream == ASSUME StreamInv, Push PROVE StreamInv'
  <1>1. /\ todo \in Seq(PushedBytes) /\ todo # <<>>
        /\ rx_fifo \in Seq(PushedBytes) /\ gone \in Seq(PushedBytes)
    BY DEF StreamInv, StreamOK, Push
  <1>2. /\ rx_fifo' = Append(rx_fifo, Head(todo)) /\ todo' = Tail(todo)
        /\ gone' = gone /\ typed' = typed /\ keys' = keys /\ escape_mode' = escape_mode
        /\ input' = "notify"
    BY DEF Push
  <1>3. /\ Head(todo) \in PushedBytes /\ Tail(todo) \in Seq(PushedBytes)
        /\ <<Head(todo)>> \in Seq(PushedBytes) /\ todo = <<Head(todo)>> \o Tail(todo)
    BY <1>1, HeadAndTail
  <1> DEFINE h == <<Head(todo)>>
             t == Tail(todo)
  <1>4. rx_fifo' = rx_fifo \o h /\ rx_fifo' \in Seq(PushedBytes)
    BY <1>1, <1>2, <1>3, AppendIsConcat, AppendProperties
  <1> HIDE DEF h, t
  <1>5. h \in Seq(PushedBytes) /\ t \in Seq(PushedBytes) /\ todo = h \o t
    BY <1>3 DEF h, t
  <1>6. gone \o rx_fifo \in Seq(PushedBytes)
    BY <1>1, ConcatProperties
  <1>a. /\ gone \in Seq(PushedBytes) /\ rx_fifo \in Seq(PushedBytes)
        /\ h \in Seq(PushedBytes) /\ t \in Seq(PushedBytes)
    BY <1>1, <1>5
  <1>7. (gone \o rx_fifo) \o h = gone \o (rx_fifo \o h)
    BY ONLY <1>a, ConcatAssociative
  <1>8. ((gone \o rx_fifo) \o h) \o t = (gone \o rx_fifo) \o todo
    <2> DEFINE front == gone \o rx_fifo
    <2>1. front \in Seq(PushedBytes)
      BY <1>6
    <2> HIDE DEF front
    <2>2. (front \o h) \o t = front \o (h \o t)
      BY ONLY <1>a, <2>1, ConcatAssociative
    <2> QED
      BY <1>5, <2>2, Zenon DEF front
  <1>9. gone' \o rx_fifo' \o todo' = gone \o rx_fifo \o todo
    BY <1>2, <1>4, <1>7, <1>8 DEF t
  <1> QED
    BY <1>2, <1>3, <1>4, <1>9 DEF StreamInv, StreamIntact, StreamOK

(* A read of RBR takes the first byte of the FIFO.                         *)
LEMMA RbrKeepsStream == ASSUME StreamInv, rx_fifo # <<>>, ReadRbr PROVE StreamInv'
  <1>1. todo \in Seq(PushedBytes) /\ rx_fifo \in Seq(PushedBytes) /\ gone \in Seq(PushedBytes)
    BY DEF StreamInv, StreamOK
  <1>2. /\ gone' = Append(gone, Head(rx_fifo)) /\ rx_fifo' = Tail(rx_fifo)
        /\ todo' = todo /\ typed' = typed /\ keys' = keys /\ escape_mode' = escape_mode
        /\ input' = input
    BY DEF ReadRbr, thread
  <1> DEFINE h == <<Head(rx_fifo)>>
             t == Tail(rx_fifo)
  <1>3. /\ Head(rx_fifo) \in PushedBytes /\ t \in Seq(PushedBytes)
        /\ h \in Seq(PushedBytes) /\ rx_fifo = h \o t
    BY <1>1, HeadAndTail
  <1>4. gone' = gone \o h /\ gone' \in Seq(PushedBytes)
    BY <1>1, <1>2, <1>3, AppendIsConcat, AppendProperties
  <1>5. rx_fifo' = t
    BY <1>2
  <1> HIDE DEF h, t
  <1>6. (gone \o h) \o t = gone \o rx_fifo
    <2>1. gone \in Seq(PushedBytes) /\ h \in Seq(PushedBytes) /\ t \in Seq(PushedBytes)
      BY <1>1, <1>3
    <2>2. (gone \o h) \o t = gone \o (h \o t)
      BY ONLY <2>1, ConcatAssociative
    <2> QED
      BY <1>3, <2>2, Zenon
  <1> QED
    BY <1>2, <1>3, <1>4, <1>5, <1>6 DEF StreamInv, StreamIntact, StreamOK

(* A reset of the FIFO flushes all of it.                                  *)
LEMMA FcrKeepsStream == ASSUME StreamInv, WriteFcrReset PROVE StreamInv'
  <1>1. rx_fifo \in Seq(PushedBytes) /\ gone \in Seq(PushedBytes)
    BY DEF StreamInv, StreamOK
  <1>2. /\ gone' = gone \o rx_fifo /\ rx_fifo' = <<>>
        /\ todo' = todo /\ typed' = typed /\ keys' = keys /\ escape_mode' = escape_mode
        /\ input' = input
    BY DEF WriteFcrReset, thread
  <1>3. gone' \in Seq(PushedBytes) /\ gone' \o rx_fifo' = gone \o rx_fifo /\ rx_fifo' \in Seq(PushedBytes)
    BY <1>1, <1>2, ConcatProperties, ConcatEmptySeq, EmptySeq
  <1> QED
    BY <1>2, <1>3 DEF StreamInv, StreamIntact, StreamOK

(* Steps of the input thread between two reads leave the stream alone.     *)
LEMMA NotifyKeepsStream ==
    ASSUME StreamInv, UNCHANGED <<keys, rx>>,
           \/ input' = input \/ input' = "done"
           \/ input = "top" /\ input' = "read"
           \/ input = "read" /\ input' = "top"
           \/ input' = AfterPush
    PROVE  StreamInv'
  BY DEF StreamInv, StreamIntact, StreamOK, rx, AfterPush

(* Every step of the two threads keeps the stream intact.                  *)
LEMMA StreamStep == ASSUME Tty, StreamInv, [Next]_vars PROVE StreamInv'
  <1>1. CASE ReadChar
    BY <1>1, ReadCharKeepsStream
  <1>2. CASE Push
    BY <1>2, PushKeepsStream
  <1>3. CASE LoopTop \/ ReadNothing \/ Notify
    <2>1. UNCHANGED <<keys, rx>>
      BY <1>3 DEF LoopTop, ReadNothing, Notify
    <2>2. \/ input' = "done" \/ input' = AfterPush
          \/ input = "top" /\ input' = "read"
          \/ input = "read" /\ input' = "top"
      BY <1>3 DEF LoopTop, ReadNothing, Notify
    <2> QED
      BY <2>1, <2>2, NotifyKeepsStream
  <1>4. CASE Boot
    <2>1. CASE WriteFcrReset
      BY <2>1, FcrKeepsStream
    <2>2. CASE \E bit \in BOOLEAN : WriteLcr(bit)
      BY <2>2, NotifyKeepsStream DEF WriteLcr, thread
    <2> QED
      BY <1>4, <2>1, <2>2 DEF Boot
  <1>5. CASE Drain
    <2>1. CASE rx_fifo # <<>> /\ ReadRbr
      BY <2>1, RbrKeepsStream
    <2>2. CASE UNCHANGED <<keys, thread, rx>>
      BY <2>2, NotifyKeepsStream DEF thread
    <2> QED
      BY <1>5, <2>1, <2>2 DEF Drain
  <1>6. CASE StoreDrains \/ Setup \/ StartSend \/ SwitchReceive \/ Sample \/ Shutdown
             \/ Finish
    <2>1. UNCHANGED <<keys, input, rx>>
      BY <1>6 DEF StoreDrains, Setup, SetPlic, StartDriver, StartSend, SwitchReceive,
                  Sample, Shutdown, Finish, StopInputThread, Join, thread
    <2> QED
      BY <2>1, NotifyKeepsStream
  <1>7. CASE TakeInterrupt \/ Claim \/ Eoi \/ Identify \/ Transmit
    <2>1. UNCHANGED <<keys, input, rx>>
      BY <1>7 DEF TakeInterrupt, Claim, Eoi, Identify, Transmit, WriteThr, thread
    <2> QED
      BY <2>1, NotifyKeepsStream
  <1>8. CASE UNCHANGED vars
    BY <1>8, NotifyKeepsStream DEF vars, stepVars, thread
  <1> QED
    BY <1>1, <1>2, <1>3, <1>4, <1>5, <1>6, <1>7, <1>8 DEF Next, Step, InputThread, Handler

(* At a terminal no byte is lost, duplicated or reordered between the      *)
(* keyboard and the guest, whatever is typed and whenever the guest reads  *)
(* or flushes the FIFO.                                                    *)
THEOREM StreamStaysIntact == ASSUME Tty PROVE Spec => []StreamIntact
  <1>1. StreamInv => StreamIntact
    BY DEF StreamInv
  <1> QED
    BY <1>1, InitStream, StreamStep, PTL DEF Spec

-----------------------------------------------------------------------------
(* The interrupt.                                                          *)

\* The guest is not looking at the FIFO, and will not before an interrupt.
Away == {"run", "claim", "eoi"}

\* What is pending only a claim and a completion take away.  After a claim the
\* handler looks at the FIFO, and so do those that complete before that look:
\* it is the completion after it that may leave data behind, and the look at
\* ier_ that comes too early.
AnnounceInv ==
    Live /\ guest \in Away /\ RDI \in ier /\ rx_fifo # <<>>
        => IRQ \in pending \/ input = "notify" \/ unheard

(* At first there is nothing to announce.                                  *)
LEMMA InitAnnounce == ASSUME Init PROVE AnnounceInv
  BY DEF Init, AnnounceInv, Away

(* What a step that leaves the FIFO alone must not do: stop the machine's  *)
(* stop, forget a raise, or stop the thread on its way to one.             *)
LEMMA AnnounceKept ==
    ASSUME AnnounceInv, unheard' = Unheard, halted => halted',
           guest' \in Away => guest \in Away, RDI \in ier' => RDI \in ier,
           UNCHANGED rx_fifo, pending \subseteq pending',
           input = "notify" => input' = "notify"
    PROVE  AnnounceInv'
  BY DEF AnnounceInv, Live, Unheard

(* The input thread raises the interrupt after each byte it pushes, or has *)
(* looked at ier_ too early (uart.cpp, line 105).                          *)
LEMMA ThreadAnnounces ==
    ASSUME AnnounceInv, InputThread, unheard' = Unheard
    PROVE  AnnounceInv'
  <1>1. CASE LoopTop \/ ReadNothing
    BY <1>1, AnnounceKept DEF LoopTop, ReadNothing, plicVars, uartRegs, rx
  <1>2. CASE ReadChar
    <2>1. /\ input = "read" /\ (halted => halted')
          /\ UNCHANGED <<pending, ier, guest, rx_fifo>>
      BY <1>2 DEF ReadChar, plicVars, uartRegs
    <2> QED
      BY <2>1, AnnounceKept
  <1>3. CASE Push
    BY <1>3 DEF Push, AnnounceInv
  <1>4. CASE Notify
    <2>1. /\ input = "notify" /\ input' # "notify"
          /\ UNCHANGED <<ier, ierSeen, guest, rx_fifo, halted>>
          /\ IRQ \in pending' \/ RDI \notin ierSeen
      BY <1>4 DEF Notify, AfterPush, Wanted, set_pending, uartRegs, rx
    <2>2. RDI \in ier /\ RDI \notin ierSeen => Overlooked
      BY <2>1 DEF Overlooked
    <2> QED
      BY <2>1, <2>2 DEF AnnounceInv, Unheard
  <1> QED
    BY <1>1, <1>2, <1>3, <1>4 DEF InputThread

(* A write of IER takes nothing from what is pending, and if it turns the  *)
(* receive interrupt on while data waits it announces the data (uart.cpp,  *)
(* line 70).                                                               *)
LEMMA IerWriteAnnounces ==
    ASSUME AnnounceInv, NEW bits, WriteIer(bits), unheard' = Unheard,
           guest' \in Away /\ RDI \in ier => guest \in Away,
           UNCHANGED <<halted, input, rx_fifo>>
    PROVE  AnnounceInv'
  <1>1. CASE RDI \in ier /\ guest \in Away
    <2>1. pending \subseteq pending'
      BY DEF WriteIer, set_pending, plicVars
    <2> QED
      BY <1>1, <2>1 DEF AnnounceInv, Live, Unheard
  <1>2. CASE RDI \notin ier
    <2>1. RDI \in ier' /\ rx_fifo # <<>> => IRQ \in pending'
      BY <1>2 DEF WriteIer, IerRaises, set_pending
    <2> QED
      BY <2>1 DEF AnnounceInv
  <1>3. CASE guest' \notin Away
    BY <1>3 DEF AnnounceInv
  <1> QED
    BY <1>1, <1>2, <1>3

(* The guest may start, send, and turn the receive interrupt off and on.   *)
LEMMA SetupAnnounces ==
    ASSUME AnnounceInv, Boot \/ Setup \/ StartSend \/ SwitchReceive, unheard' = Unheard
    PROVE  AnnounceInv'
  <1>1. CASE Boot
    BY <1>1 DEF Boot, AnnounceInv, Away
  <1>2. CASE SetPlic
    BY <1>2 DEF SetPlic, AnnounceInv, Away
  <1>3. CASE StartDriver
    <2>1. /\ guest = "boot" /\ ~dlab /\ WriteIer({RDI}) /\ UNCHANGED rx_fifo
      BY <1>3 DEF StartDriver, rx
    <2>2. rx_fifo # <<>> => IRQ \in pending'
      BY <2>1 DEF WriteIer, IerRaises, set_pending
    <2> QED
      BY <2>1, <2>2 DEF AnnounceInv
  <1>4. CASE StartSend \/ SwitchReceive
    <2>1. UNCHANGED <<guest, halted, input, rx_fifo>>
      BY <1>4 DEF StartSend, SwitchReceive, thread, rx
    <2>2. \E bits : WriteIer(bits)
      BY <1>4 DEF StartSend, SwitchReceive
    <2> QED
      BY <2>1, <2>2, IerWriteAnnounces
  <1> QED
    BY <1>1, <1>2, <1>3, <1>4 DEF Setup

(* The handler leaves by IIR, and IIR reports no reason only with the FIFO *)
(* empty or the receive interrupt off (uart.cpp, the IIR case).  A raise   *)
(* after that look is pending, until a completion (plic.cpp, line 56).     *)
LEMMA HandlerAnnounces ==
    ASSUME AnnounceInv, Handler, unheard' = Unheard
    PROVE  AnnounceInv'
  <1>1. CASE TakeInterrupt
    <2>1. /\ guest \in Away
          /\ UNCHANGED <<pending, ier, halted, input, rx_fifo>>
      BY <1>1 DEF TakeInterrupt, Away, plicVars, thread, rx, uartRegs
    <2> QED
      BY <2>1, AnnounceKept
  <1>2. CASE Claim
    <2>1. /\ guest \in Away
          /\ guest' = "iir" \/ pending' = pending
          /\ UNCHANGED <<ier, halted, input, rx_fifo>>
      BY <1>2 DEF Claim, ClaimLoad, Away, plicVars, thread, rx, uartRegs
    <2>2. CASE guest' = "iir"
      BY <2>2 DEF AnnounceInv, Away
    <2> QED
      BY <2>1, <2>2, AnnounceKept
  <1>3. CASE Eoi
    <2>1. /\ UNCHANGED <<ier, halted, input, rx_fifo>>
          /\ guest = "eoi" \/ guest' \in {"iir", "drain"}
          /\ guest = "eoi" => guest' = "run"
      BY <1>3 DEF Eoi, thread, rx, uartRegs
    <2>2. CASE guest = "eoi"
      <3>1. IRQ \in pending => Overlooked
        BY <2>1, <2>2 DEF Overlooked
      <3> QED
        BY <2>1, <2>2, <3>1 DEF AnnounceInv, Away, Live, Unheard
    <2> QED
      BY <2>1, <2>2 DEF AnnounceInv, Away
  <1>4. CASE Identify
    <2>1. /\ read_iir # THRI /\ UNCHANGED <<ier, rx_fifo>>
          /\ guest' = "drain" \/ read_iir # RDI
      BY <1>4 DEF Identify, rx, uartRegs
    <2>2. guest' # "drain" => rx_fifo' = <<>> \/ RDI \notin ier'
      BY <2>1 DEF read_iir
    <2> QED
      BY <2>2 DEF AnnounceInv, Away
  <1>5. CASE Transmit
    BY <1>5 DEF Transmit, AnnounceInv, Away
  <1>6. CASE Drain
    <2>1. guest' \in {"drain", "iir"}
      BY <1>6 DEF Drain
    <2> QED
      BY <2>1 DEF AnnounceInv, Away
  <1> QED
    BY <1>1, <1>2, <1>3, <1>4, <1>5, <1>6 DEF Handler

(* Every step keeps what is announced announced (rx_push, the IER write,   *)
(* and the driver's claim and complete).                                   *)
LEMMA AnnounceStep == ASSUME AnnounceInv, [Next]_vars PROVE AnnounceInv'
  <1>1. CASE UNCHANGED vars
    BY <1>1 DEF vars, stepVars, AnnounceInv, Live, plicVars, thread, rx, uartRegs
  <1>2. CASE Next
    <2>0. unheard' = Unheard
      BY <1>2 DEF Next
    <2>1. CASE StoreDrains \/ Sample \/ Shutdown
      <3>1. /\ UNCHANGED <<pending, ier, guest, input, rx_fifo>>
            /\ halted => halted'
        BY <2>1 DEF StoreDrains, Sample, Shutdown, plicVars, thread, rx, uartRegs
      <3> QED
        BY <2>0, <3>1, AnnounceKept
    <2>2. CASE Finish
      BY <2>2 DEF Finish, StopInputThread, Join, AnnounceInv, Away
    <2> QED
      BY <1>2, <2>0, <2>1, <2>2, ThreadAnnounces, SetupAnnounces, HandlerAnnounces
         DEF Next, Step
  <1> QED
    BY <1>1, <1>2

(* Whenever keys are typed, whatever the guest's driver does with IER and  *)
(* wherever in its handler it completes: no byte waits in the FIFO without *)
(* an interrupt, in whatever order the two threads' steps and the store of *)
(* ier_ take effect, except after one of the two steps of Overlooked, and  *)
(* then only until the next raise.                                         *)
THEOREM DataIsAnnounced == Spec => []DataAnnounced
  <1>1. AnnounceInv => DataAnnounced
    BY DEF AnnounceInv, DataAnnounced, Away
  <1> QED
    BY <1>1, InitAnnounce, AnnounceStep, PTL DEF Spec

-----------------------------------------------------------------------------
(* The console over the PLIC.                                              *)

\* What the console's two threads do to the PLIC.
ConsoleUses ==
    \/ WritePriority(IRQ, 1)
    \/ WriteEnable(CTX_SUPERVISOR, {IRQ})
    \/ ClaimLoad(CTX_SUPERVISOR) \/ ClaimClear \/ CompleteClaimed(CTX_SUPERVISOR)
    \/ set_pending(IRQ)

(* The console, its driver included, touches the PLIC through its          *)
(* registers and set_pending only.                                         *)
LEMMA ConsoleUsesPlic == ASSUME [Next]_vars PROVE [ConsoleUses]_plicVars
  <1>1. CASE InputThread
    BY <1>1 DEF InputThread, LoopTop, ReadNothing, ReadChar, Push, Notify, ConsoleUses
  <1>2. CASE Boot
    BY <1>2 DEF Boot, WriteFcrReset, WriteLcr
  <1>3. CASE Setup
    BY <1>3 DEF Setup, SetPlic, StartDriver, WriteIer, ConsoleUses
  <1>4. CASE StartSend \/ SwitchReceive
    BY <1>4 DEF StartSend, SwitchReceive, WriteIer, ConsoleUses
  <1>5. CASE TakeInterrupt \/ Identify \/ Drain
    BY <1>5 DEF TakeInterrupt, Identify, Drain, ReadRbr
  <1>6. CASE Claim
    BY <1>6 DEF Claim, ConsoleUses
  <1>7. CASE Eoi
    BY <1>7 DEF Eoi, ConsoleUses
  <1>8. CASE Transmit
    BY <1>8 DEF Transmit, WriteThr, WriteIer, ConsoleUses
  <1>9. CASE StoreDrains \/ Sample \/ Shutdown \/ Finish
    BY <1>9 DEF StoreDrains, Sample, Shutdown, Finish, StopInputThread, Join
  <1>10. CASE UNCHANGED vars
    BY <1>10 DEF vars, stepVars
  <1> QED
    BY <1>1, <1>2, <1>3, <1>4, <1>5, <1>6, <1>7, <1>8, <1>9, <1>10 DEF Next, Step, Handler

(* So the PLIC's registers stay in order, and it drops only what is        *)
(* served.                                                                 *)
LEMMA ConsoleKeepsRegisters ==
    ASSUME RegistersOK, [Next]_vars
    PROVE  /\ RegistersOK'
           /\ [\A s \in pending \ pending' : \E c \in Contexts : claimed[c] = s]_plicVars
  <1>1. /\ IRQ \in Sources /\ CTX_SUPERVISOR \in Contexts /\ 1 \in Nat
    BY ConsoleAssumption DEF Contexts
  <1>2. CASE ConsoleUses
    <2>1. AnyPlicStep
      BY <1>1, <1>2 DEF ConsoleUses, AnyPlicStep, CompleteClaimed
    <2>2. \A s \in pending \ pending' : \E c \in Contexts : claimed[c] = s
      <3>1. CASE ClaimClear
        BY <1>1, <3>1 DEF ClaimClear, Dropped, RegistersOK
      <3>2. CASE CompleteClaimed(CTX_SUPERVISOR)
        <4>1. claimed[CTX_SUPERVISOR] \in Sources
          BY <1>1, <3>2 DEF CompleteClaimed, RegistersOK
        <4>2. pending' = pending \ {claimed[CTX_SUPERVISOR]}
          BY <3>2, <4>1, SourceNumbers DEF CompleteClaimed, Complete
        <4> QED
          BY <1>1, <4>2
      <3>3. CASE pending \subseteq pending'
        BY <3>3
      <3> QED
        BY <1>2, <3>1, <3>2, <3>3
           DEF ConsoleUses, WritePriority, WriteEnable, ClaimLoad, set_pending
    <2> QED
      BY <1>2, <2>1, <2>2, RegistersKept
  <1>3. CASE UNCHANGED plicVars
    BY <1>3 DEF plicVars, RegistersOK
  <1> QED
    BY <1>2, <1>3, ConsoleUsesPlic

(* Under the console's two threads the PLIC keeps its promises: the claim  *)
(* its guest makes returns the winner, and no bit the input thread sets    *)
(* around a claim or a completion is swept away on behalf of another.      *)
THEOREM PlicServesConsole == Spec => []ArbiterIsFair /\ DroppedOnlyInService
  <1> DEFINE A == \A s \in pending \ pending' : \E c \in Contexts : claimed[c] = s
  <1>1. RegistersOK => ArbiterIsFair
    BY BestWins DEF ArbiterIsFair
  <1>2. Init => RegistersOK
    BY PlicInitOK DEF Init
  <1>3. RegistersOK /\ [Next]_vars => RegistersOK' /\ [A]_plicVars
    BY ConsoleKeepsRegisters
  <1>4. Spec => []ArbiterIsFair /\ [][A]_plicVars
    BY <1>1, <1>2, <1>3, PTL DEF Spec
  <1> QED
    BY <1>4 DEF DroppedOnlyInService

-----------------------------------------------------------------------------
(* The console at a desk.                                                  *)

(* A machine at a desk takes steps of the console's, or dies of the stray  *)
(* key: starting and ending it touches nothing of the console's state.     *)
LEMMA DeskIsConsole == ASSUME [DeskNext]_deskVars PROVE [Next]_vars \/ Crash
  <1>1. CASE ConsoleStep
    BY <1>1 DEF ConsoleStep
  <1>2. CASE StartThread \/ AssignInput \/ Draw \/ PopEvent
    BY <1>2 DEF StartThread, AssignInput, Draw, PopEvent
  <1>3. CASE Render
    BY <1>3 DEF Render, OpenWindow, RenderTop, PollNothing, PollEvent, push_event,
                UpdateTexture, Present
  <1>4. CASE TearDown
    BY <1>4 DEF TearDown, DestroyInput, StopRender, JoinRender
  <1>5. CASE UNCHANGED deskVars
    BY <1>5 DEF deskVars
  <1> QED
    BY <1>1, <1>2, <1>3, <1>4, <1>5 DEF DeskNext

(* At a desk too, no byte typed at the terminal is lost, duplicated or     *)
(* reordered (read_char, rx_push, the RBR and FCR cases).                  *)
THEOREM StreamStaysIntactAtDesk == ASSUME Tty PROVE DeskSpec => []StreamIntact
  <1>1. DeskInit => StreamInv
    BY InitStream DEF DeskInit
  <1>2. ASSUME StreamInv, [DeskNext]_deskVars PROVE StreamInv'
    <2>1. CASE [Next]_vars
      BY <1>2, <2>1, StreamStep
    <2>2. CASE Crash
      <3>1. UNCHANGED <<keys, rx>> /\ input' = "done"
        BY <2>2 DEF Crash
      <3> QED
        BY <1>2, <3>1, NotifyKeepsStream
    <2> QED
      BY <1>2, <2>1, <2>2, DeskIsConsole
  <1>3. StreamInv => StreamIntact
    BY DEF StreamInv
  <1> QED
    BY <1>1, <1>2, <1>3, PTL DEF DeskSpec

(* ... and no byte waits unannounced, but for the two steps of Overlooked  *)
(* (rx_push, write8 of IER, the PLIC's completion).                        *)
THEOREM DataIsAnnouncedAtDesk == DeskSpec => []DataAnnounced
  <1>1. DeskInit => AnnounceInv
    BY InitAnnounce DEF DeskInit
  <1>2. ASSUME AnnounceInv, [DeskNext]_deskVars PROVE AnnounceInv'
    <2>1. CASE [Next]_vars
      BY <1>2, <2>1, AnnounceStep
    <2>2. CASE Crash
      BY <2>2 DEF Crash, AnnounceInv, Live
    <2> QED
      BY <1>2, <2>1, <2>2, DeskIsConsole
  <1>3. AnnounceInv => DataAnnounced
    BY DEF AnnounceInv, DataAnnounced, Away
  <1> QED
    BY <1>1, <1>2, <1>3, PTL DEF DeskSpec

-----------------------------------------------------------------------------
(* The codes of a sequence of events, one event at a time.                 *)

KeyCodes == {Code(e) : e \in Events}

NextCodes(known, e) == IF IsKey(e) THEN Append(known, Code(e)) ELSE known

(* One event adds at most one key code (SDL_PollEvent's KEYDOWN and        *)
(* KEYUP).                                                                 *)
LEMMA CodesAreCodes ==
    ASSUME NEW known \in Seq(KeyCodes), NEW e \in Events
    PROVE  NextCodes(known, e) \in Seq(KeyCodes)
  <1>1. Code(e) \in KeyCodes
    BY DEF KeyCodes
  <1> QED
    BY <1>1, AppendProperties DEF NextCodes

AreCodes(c, events) ==
    c = [i \in 0..Len(events) |->
            IF i = 0 THEN <<>>
            ELSE IF IsKey(events[i]) THEN Append(c[i - 1], Code(events[i]))
                                     ELSE c[i - 1]]

Known(events) == CHOOSE c : AreCodes(c, events)

(* TLA+ defines a recursive function as some function that satisfies its   *)
(* equation: there is one.                                                 *)
LEMMA CodesExist ==
    ASSUME NEW events \in Seq(Events)
    PROVE  \E c \in [0..Len(events) -> Seq(KeyCodes)] : AreCodes(c, events)
  <1> DEFINE n == Len(events)
             S == Seq(KeyCodes)
             g == [i \in 1..n |-> [x \in S |-> NextCodes(x, events[i])]]
  <1>1. n \in Nat /\ \A i \in 1..n : events[i] \in Events
    BY LenProperties, ElementOfSeq
  <1>2. <<>> \in S
    BY EmptySeq
  <1>3. \A i \in 1..n : \A x \in S : g[i][x] = NextCodes(x, events[i])
    OBVIOUS
  <1> HIDE DEF g
  <1>4. \A i \in 1..n : \A x \in S : g[i][x] \in S
    BY <1>1, <1>3, CodesAreCodes
  <1> HIDE DEF n, S
  <1>5. PICK f \in [0..n -> S] : Recurses(f, <<>>, g, n)
    BY <1>1, <1>2, <1>4, RecursionExists
  <1> DEFINE h == [i \in 0..n |-> IF i = 0 THEN <<>>
                                  ELSE IF IsKey(events[i]) THEN Append(f[i - 1], Code(events[i]))
                                                           ELSE f[i - 1]]
  <1>6. ASSUME NEW i \in 0..n PROVE f[i] = h[i]
    <2>1. CASE i = 0
      BY <1>5, <2>1 DEF Recurses
    <2>2. CASE i # 0
      <3>1. i \in 1..n /\ i - 1 \in 0..n
        BY <1>1, <2>2
      <3>2. f[i - 1] \in S /\ f[i] = g[i][f[i - 1]]
        BY <1>5, <3>1 DEF Recurses
      <3>3. f[i] = NextCodes(f[i - 1], events[i])
        BY <1>3, <3>1, <3>2
      <3> QED
        BY <2>2, <3>3 DEF NextCodes
    <2> QED
      BY <2>1, <2>2
  <1>7. f = [i \in 0..n |-> f[i]] /\ h = [i \in 0..n |-> h[i]]
    OBVIOUS
  <1> HIDE DEF h
  <1>8. f = h
    BY <1>6, <1>7
  <1>9. AreCodes(f, events)
    BY <1>8, Zenon DEF AreCodes, h, n
  <1> QED
    BY <1>9 DEF n, S

(* The codes known after each event are those of the recursion Codes       *)
(* makes.                                                                  *)
LEMMA KnownAre ==
    ASSUME NEW events \in Seq(Events)
    PROVE  /\ Known(events)[0] = <<>>
           /\ \A i \in 1..Len(events) :
                  Known(events)[i] = NextCodes(Known(events)[i - 1], events[i])
           /\ Codes(events) = Known(events)[Len(events)]
  <1>0. Len(events) \in Nat
    BY LenProperties
  <1> DEFINE c == Known(events)
  <1>1. AreCodes(c, events)
    BY CodesExist, Zenon DEF Known
  <1>2. Codes(events) = c[Len(events)]
    BY DEF Codes, Known, AreCodes
  <1> HIDE DEF c
  <1>3. \A i \in 0..Len(events) :
            c[i] = IF i = 0 THEN <<>> ELSE NextCodes(c[i - 1], events[i])
    BY <1>1, Zenon DEF AreCodes, NextCodes
  <1>4. c[0] = <<>> /\ \A i \in 1..Len(events) : c[i] = NextCodes(c[i - 1], events[i])
    BY <1>0, <1>3
  <1> QED
    BY <1>2, <1>4 DEF c

(* One more event leaves the codes of those before it as they were.        *)
LEMMA EarlierCodesStay ==
    ASSUME NEW events \in Seq(Events), NEW e \in Events
    PROVE  \A i \in 0..Len(events) : Known(Append(events, e))[i] = Known(events)[i]
  <1> DEFINE more == Append(events, e)
  <1>1. /\ more \in Seq(Events) /\ Len(events) \in Nat /\ Len(more) = Len(events) + 1
        /\ \A i \in 1..Len(events) : more[i] = events[i]
    BY AppendProperties, LenProperties
  <1> HIDE DEF more
  <1> DEFINE A == {n \in Nat : n <= Len(events) => Known(more)[n] = Known(events)[n]}
  <1>2. 0 \in A
    BY <1>1, KnownAre
  <1>3. ASSUME NEW n \in Nat, n \in A PROVE n + 1 \in A
    <2>1. n + 1 \in Nat
      OBVIOUS
    <2>2. ASSUME n + 1 <= Len(events) PROVE Known(more)[n + 1] = Known(events)[n + 1]
      <3>1. /\ n + 1 \in 1..Len(events) /\ n + 1 \in 1..Len(more)
            /\ (n + 1) - 1 = n /\ n <= Len(events)
        BY <1>1, <2>2
      <3>2. Known(more)[n] = Known(events)[n] /\ more[n + 1] = events[n + 1]
        BY <1>1, <1>3, <3>1
      <3>3. Known(more)[n + 1] = NextCodes(Known(more)[n], more[n + 1])
        BY <1>1, <3>1, KnownAre
      <3>4. Known(events)[n + 1] = NextCodes(Known(events)[n], events[n + 1])
        BY <3>1, KnownAre
      <3> QED
        BY <3>2, <3>3, <3>4
    <2> QED
      BY <2>1, <2>2
  <1> HIDE DEF A
  <1>4. Nat \subseteq A
    BY <1>2, <1>3, SetInduction
  <1> QED
    BY <1>1, <1>4 DEF A, more

(* One more event polled is one more turn of the render thread's loop.     *)
LEMMA OneMoreEvent ==
    ASSUME NEW events \in Seq(Events), NEW e \in Events
    PROVE  /\ Codes(Append(events, e)) = NextCodes(Codes(events), e)
           /\ Codes(events) \in Seq(KeyCodes)
  <1> DEFINE more == Append(events, e)
  <1>1. /\ more \in Seq(Events) /\ Len(events) \in Nat /\ Len(more) = Len(events) + 1
        /\ more[Len(events) + 1] = e
    BY AppendProperties, LenProperties
  <1>2. Known(more)[Len(events)] = Known(events)[Len(events)]
    BY <1>1, EarlierCodesStay
  <1> HIDE DEF more
  <1>3. Len(more) \in 1..Len(more) /\ Len(more) - 1 = Len(events)
    BY <1>1
  <1>4. Known(more)[Len(more)] = NextCodes(Known(more)[Len(more) - 1], more[Len(more)])
    BY <1>1, <1>3, KnownAre
  <1>5. /\ Codes(more) = Known(more)[Len(more)]
        /\ Codes(events) = Known(events)[Len(events)]
    BY <1>1, KnownAre
  <1>6. Codes(more) = NextCodes(Codes(events), e)
    BY <1>1, <1>2, <1>3, <1>4, <1>5
  <1>7. Codes(events) \in Seq(KeyCodes)
    <2> DEFINE A == {n \in Nat : n <= Len(events) => Known(events)[n] \in Seq(KeyCodes)}
    <2>1. 0 \in A
      BY KnownAre, EmptySeq
    <2>2. ASSUME NEW n \in Nat, n \in A PROVE n + 1 \in A
      <3>1. n + 1 \in Nat
        OBVIOUS
      <3>2. ASSUME n + 1 <= Len(events) PROVE Known(events)[n + 1] \in Seq(KeyCodes)
        <4>1. n + 1 \in 1..Len(events) /\ (n + 1) - 1 = n /\ n <= Len(events)
          BY <1>1, <3>2
        <4>2. Known(events)[n] \in Seq(KeyCodes) /\ events[n + 1] \in Events
          BY <2>2, <4>1, ElementOfSeq
        <4>3. Known(events)[n + 1] = NextCodes(Known(events)[n], events[n + 1])
          BY <4>1, KnownAre
        <4> QED
          BY <4>2, <4>3, CodesAreCodes
      <3> QED
        BY <3>1, <3>2
    <2> HIDE DEF A
    <2>3. Nat \subseteq A
      BY <2>1, <2>2, SetInduction
    <2> QED
      BY <1>1, <1>5, <2>3 DEF A
  <1> QED
    BY <1>6, <1>7 DEF more

-----------------------------------------------------------------------------
(* The keys.                                                               *)

KeysOK ==
    /\ window \in Seq(Events) /\ polled \in Seq(Events)
    /\ hand \in Seq(KeyCodes) /\ queue \in Seq(KeyCodes) /\ popped \in Seq(KeyCodes)

\* The render thread polls the next event only with its hands empty.
KeysInv ==
    /\ KeysOK
    /\ KeysIntact
    /\ render \notin {"push", "done"} => hand = <<>>
    /\ setup = "init" => render = "none"

(* No key is pressed at first.                                             *)
LEMMA InitKeys == ASSUME DeskInit PROVE KeysInv
  <1>1. <<>> \in Seq(Events) /\ <<>> \in Seq(KeyCodes) /\ Len(<<>>) = 0
    BY EmptySeq
  <1>2. /\ window \in Seq(Events) /\ polled = <<>> /\ hand = <<>> /\ queue = <<>>
        /\ popped = <<>> /\ render = "none"
    BY <1>1, DisplayAssumption DEF DeskInit
  <1>3. Codes(<<>>) = <<>>
    <2>1. Known(<<>>)[0] = <<>> /\ Codes(<<>>) = Known(<<>>)[Len(<<>>)]
      BY <1>1, KnownAre
    <2> QED
      BY <1>1, <2>1
  <1>4. <<>> \o <<>> = <<>>
    BY <1>1, ConcatEmptySeq
  <1>5. popped \o queue \o hand = Codes(polled)
    BY <1>2, <1>3, <1>4
  <1> QED
    BY <1>1, <1>2, <1>5 DEF KeysInv, KeysOK, KeysIntact

(* The key an event stands for joins what is on its way, or the event      *)
(* stands for none (framebuffer_sdl.cpp:69-78).                            *)
LEMMA PollKeepsKeys == ASSUME KeysInv, PollEvent PROVE KeysInv'
  <1> DEFINE e == Head(window)
  <1>1. /\ window \in Seq(Events) /\ polled \in Seq(Events) /\ hand = <<>>
        /\ queue \in Seq(KeyCodes) /\ popped \in Seq(KeyCodes)
        /\ ~stray => popped \o queue \o hand = Codes(polled)
    BY DEF KeysInv, KeysOK, KeysIntact, PollEvent
  <1>2. e \in Events /\ Tail(window) \in Seq(Events)
    BY <1>1, HeadTailProperties DEF PollEvent
  <1>3. /\ window' = Tail(window) /\ polled' = Append(polled, e)
        /\ hand' = IF IsKey(e) THEN <<Code(e)>> ELSE <<>>
        /\ render' \notin {"push", "done"} => ~IsKey(e)
        /\ queue' = queue /\ popped' = popped /\ stray' = stray
        /\ setup' = setup /\ render = "poll"
    <2>1. e.type = "quit" => ~IsKey(e)
      BY DEF IsKey
    <2>2. /\ polled' = Append(polled, e)
          /\ hand' = IF Pushed(e) THEN <<Code(e)>> ELSE <<>>
          /\ render' = IF e.type = "quit" THEN AfterEvents
                       ELSE IF Pushed(e) THEN "push" ELSE "poll"
          /\ window' = Tail(window) /\ render = "poll"
      BY DEF PollEvent
    <2>3. UNCHANGED <<setup, queue, popped, stray>>
      BY DEF PollEvent
    <2> HIDE DEF e
    <2> QED
      BY <2>1, <2>2, <2>3 DEF Pushed, AfterEvents
  <1>4. Append(polled, e) \in Seq(Events)
    BY <1>1, <1>2, AppendProperties
  <1>5. Codes(Append(polled, e)) = NextCodes(Codes(polled), e) /\ Codes(polled) \in Seq(KeyCodes)
    BY <1>1, <1>2, OneMoreEvent
  <1> HIDE DEF e
  <1>6. Code(e) \in KeyCodes
    BY <1>2 DEF KeyCodes
  <1>7. hand' \in Seq(KeyCodes)
    <2>1. <<>> \in Seq(KeyCodes)
      BY EmptySeq
    <2> QED
      BY <1>3, <1>6, <2>1
  <1>8. /\ popped \o queue \in Seq(KeyCodes)
        /\ (popped \o queue) \o <<>> = popped \o queue
    BY <1>1, ConcatProperties, ConcatEmptySeq
  <1>9. Append(popped \o queue, Code(e)) = (popped \o queue) \o <<Code(e)>>
    BY <1>6, <1>8, AppendIsConcat
  <1>10. ~stray' => popped' \o queue' \o hand' = Codes(polled')
    BY <1>1, <1>3, <1>5, <1>8, <1>9 DEF NextCodes
  <1> QED
    BY <1>1, <1>2, <1>3, <1>4, <1>7, <1>10 DEF KeysInv, KeysOK, KeysIntact

(* A push through a live pointer puts the key at the end of the queue; any *)
(* other loses it (input.cpp:3-8).                                         *)
LEMMA PushKeepsKeys == ASSUME KeysInv, push_event PROVE KeysInv'
  <1>1. /\ hand \in Seq(KeyCodes) /\ queue \in Seq(KeyCodes) /\ popped \in Seq(KeyCodes)
        /\ ~stray => popped \o queue \o hand = Codes(polled)
    BY DEF KeysInv, KeysOK, KeysIntact
  <1>2. /\ \/ queue' = queue \o hand /\ stray' = stray
           \/ queue' = queue /\ stray' = TRUE
        /\ hand' = <<>> /\ window' = window /\ polled' = polled /\ popped' = popped
        /\ setup' = setup /\ render = "push"
    BY DEF push_event, lifetime
  <1>3. queue \o hand \in Seq(KeyCodes) /\ <<>> \in Seq(KeyCodes)
    BY <1>1, ConcatProperties, EmptySeq
  <1>4. popped \o (queue \o hand) = (popped \o queue) \o hand
    BY <1>1, ConcatAssociative
  <1>5. (popped \o (queue \o hand)) \o <<>> = popped \o (queue \o hand)
    BY <1>1, <1>3, ConcatProperties, ConcatEmptySeq
  <1>6. ~stray' => popped' \o queue' \o hand' = Codes(polled')
    BY <1>1, <1>2, <1>4, <1>5
  <1>7. KeysOK'
    BY <1>1, <1>2, <1>3 DEF KeysInv, KeysOK
  <1> QED
    BY <1>2, <1>6, <1>7 DEF KeysInv, KeysIntact

(* The guest takes the first key of the queue (input.cpp:10-17).           *)
LEMMA PopKeepsKeys == ASSUME KeysInv, PopEvent PROVE KeysInv'
  <1>1. /\ queue \in Seq(KeyCodes) /\ queue # <<>> /\ popped \in Seq(KeyCodes)
        /\ ~stray => popped \o queue \o hand = Codes(polled)
    BY DEF KeysInv, KeysOK, KeysIntact, PopEvent
  <1>2. /\ popped' = Append(popped, Head(queue)) /\ queue' = Tail(queue)
        /\ UNCHANGED <<render, window, polled, hand, stray, setup>>
    BY DEF PopEvent, lifetime
  <1> DEFINE h == <<Head(queue)>>
             t == Tail(queue)
  <1>3. /\ Head(queue) \in KeyCodes /\ t \in Seq(KeyCodes) /\ h \in Seq(KeyCodes)
        /\ queue = h \o t
    BY <1>1, HeadAndTail
  <1>4. popped' = popped \o h /\ popped' \in Seq(KeyCodes)
    BY <1>1, <1>2, <1>3, AppendIsConcat, AppendProperties
  <1>5. queue' = t
    BY <1>2
  <1> HIDE DEF h, t
  <1>6. (popped \o h) \o t = popped \o queue
    BY <1>1, <1>3, ConcatAssociative
  <1> QED
    BY <1>1, <1>2, <1>3, <1>4, <1>5, <1>6 DEF KeysInv, KeysOK, KeysIntact

(* Steps that move no key leave the queue and the hand alone.              *)
LEMMA RestKeepsKeys ==
    ASSUME KeysInv, UNCHANGED <<window, polled, hand, queue, popped>>,
           stray' = stray \/ stray',
           \/ render' = render \/ render' = "done"
           \/ render \notin {"push", "done"},
           setup' = "init" => render' = render /\ setup' = setup
    PROVE  KeysInv'
  BY DEF KeysInv, KeysOK, KeysIntact

(* Every step of the desk keeps every key where it was, or moves it on.    *)
LEMMA KeysStep == ASSUME KeysInv, [DeskNext]_deskVars PROVE KeysInv'
  <1>1. CASE PollEvent
    BY <1>1, PollKeepsKeys
  <1>2. CASE push_event
    BY <1>2, PushKeepsKeys
  <1>3. CASE PopEvent
    BY <1>3, PopKeepsKeys
  <1>4. CASE OpenWindow \/ RenderTop \/ PollNothing \/ UpdateTexture \/ Present
    <2>1. UNCHANGED <<keyboard, setup>> /\ render \notin {"push", "done", "none"}
      BY <1>4 DEF OpenWindow, RenderTop, PollNothing, UpdateTexture, Present, lifetime
    <2> QED
      BY <2>1, RestKeepsKeys DEF keyboard, KeysInv
  <1>5. CASE Crash
    <2>1. /\ UNCHANGED <<window, polled, hand, queue, popped, setup>> /\ stray'
          /\ render = "push" /\ render' = "done"
      BY <1>5 DEF Crash, lifetime
    <2> QED
      BY <2>1, RestKeepsKeys DEF KeysInv
  <1>6. CASE StartThread
    <2>1. UNCHANGED keyboard /\ setup = "init" /\ setup' = "assign"
      BY <1>6 DEF StartThread
    <2> QED
      BY <2>1, RestKeepsKeys DEF keyboard, KeysInv
  <1>7. CASE ConsoleStep \/ AssignInput \/ Draw \/ TearDown
    <2>1. UNCHANGED <<keyboard, render>> /\ setup' \in {setup, "up"}
      BY <1>7 DEF ConsoleStep, displayVars, AssignInput, Draw, TearDown, DestroyInput,
                  StopRender, JoinRender, keyboard, lifetime
    <2> QED
      BY <2>1, RestKeepsKeys DEF keyboard
  <1>8. CASE UNCHANGED deskVars
    BY <1>8, RestKeepsKeys DEF deskVars, displayVars, keyboard, lifetime
  <1> QED
    BY <1>1, <1>2, <1>3, <1>4, <1>5, <1>6, <1>7, <1>8 DEF DeskNext, Render

(* Unless a key meets no queue, every press and release in the window that *)
(* has a code is on its way to the guest or has reached it, in order.      *)
THEOREM KeysStayIntact == DeskSpec => []KeysIntact
  <1>1. KeysInv => KeysIntact
    BY DEF KeysInv
  <1> QED
    BY <1>1, InitKeys, KeysStep, PTL DEF DeskSpec

-----------------------------------------------------------------------------
(* The transmitter.                                                        *)

\* Bytes in the driver's buffer wait for an interrupt that is enabled and
\* pending, or the driver is in its handler, where IIR reports it.
TransmitAnnounced ==
    Live /\ tosend > 0
        => THRI \in ier /\ (IRQ \in pending \/ guest \in {"eoi", "iir", "drain"})

\* The driver at work.
Up == {"run", "claim", "eoi", "iir", "drain"}

\* A driver that completes after it serves drops the pending bit last: by
\* then it has turned the interrupt off, and has nothing left to send.
TransmitInv ==
    /\ Live => guest \in Up \union {"boot"}
    /\ guest \in Up => ~dlab
    /\ guest = "boot" => ~(tosend > 0)
    /\ guest = "eoi" => THRI \notin ier
    /\ Live /\ tosend > 0 => THRI \in ier
    /\ Live /\ tosend > 0 /\ guest \in {"run", "claim"} => IRQ \in pending

(* At first there is nothing to send.                                      *)
LEMMA InitTransmit == ASSUME Init PROVE TransmitInv
  BY DEF Init, TransmitInv, Up

(* The input thread takes nothing away from what is pending.               *)
LEMMA OthersKeepTransmit ==
    ASSUME TransmitInv, pending \subseteq pending', halted => halted',
           UNCHANGED <<ier, dlab, guest, tosend>>
    PROVE  TransmitInv'
  BY DEF TransmitInv, Live

(* The driver enables the transmitter's interrupt when it has bytes to     *)
(* send, and the device raises it at once: the transmitter is always empty.*)
LEMMA SetupKeepsTransmit ==
    ASSUME TransmitInv, Boot \/ Setup \/ StartSend \/ SwitchReceive
    PROVE  TransmitInv'
  <1>1. CASE Boot
    <2>1. guest = "boot" /\ UNCHANGED <<guest, halted, ier, tosend>>
      BY <1>1 DEF Boot, WriteFcrReset, WriteLcr, tx, uartRegs
    <2> QED
      BY <2>1 DEF TransmitInv, Up, Live
  <1>2. CASE SetPlic
    BY <1>2 DEF SetPlic, TransmitInv, Up, tx, uartRegs, Live
  <1>3. CASE StartDriver
    <2>1. guest = "boot" /\ guest' = "run" /\ ~dlab /\ UNCHANGED <<halted, dlab, tosend>>
      BY <1>3 DEF StartDriver, tx
    <2> QED
      BY <2>1 DEF TransmitInv, Up, Live
  <1>4. CASE StartSend
    <2>1. /\ guest = "run" /\ WriteIer(ier \cup {THRI}) /\ UNCHANGED <<guest, halted, dlab>>
      BY <1>4 DEF StartSend
    <2>2. ~dlab
      BY <2>1 DEF TransmitInv, Up
    <2>3. THRI \in ier' /\ IRQ \in pending'
      BY <2>1, <2>2 DEF WriteIer, IerRaises, set_pending
    <2> QED
      BY <2>1, <2>2, <2>3 DEF TransmitInv, Up, Live
  <1>5. CASE SwitchReceive
    <2>1. PICK bits : /\ guest = "run" /\ WriteIer(bits) /\ (THRI \in ier => THRI \in bits)
                      /\ UNCHANGED <<guest, halted, dlab, tosend>>
      BY <1>5 DEF SwitchReceive, tx, RDI, THRI
    <2>2. (THRI \in ier => THRI \in ier') /\ pending \subseteq pending'
      BY <2>1 DEF WriteIer, set_pending, plicVars
    <2> QED
      BY <2>1, <2>2 DEF TransmitInv, Up, Live
  <1> QED
    BY <1>1, <1>2, <1>3, <1>4, <1>5 DEF Setup

(* A claim takes the bit away and the handler then sends until the buffer  *)
(* is empty: IIR reports the transmitter as long as its interrupt is on.   *)
LEMMA HandlerKeepsTransmit ==
    ASSUME TransmitInv, Handler
    PROVE  TransmitInv'
  <1>1. CASE TakeInterrupt
    BY <1>1 DEF TakeInterrupt, TransmitInv, Up, Live, plicVars, tx, uartRegs
  <1>2. CASE Claim
    <2>1. /\ guest = "claim" /\ UNCHANGED <<ier, dlab, halted, tosend>>
          /\ \/ guest' \in {"claim", "run"} /\ pending' = pending
             \/ guest' = "iir"
      BY <1>2 DEF Claim, ClaimLoad, plicVars, tx, uartRegs
    <2> QED
      BY <2>1 DEF TransmitInv, Up, Live
  <1>3. CASE Eoi
    <2>1. /\ guest \in {"iir", "drain", "eoi"}
          /\ guest' = IF guest = "eoi" THEN "run" ELSE guest
          /\ UNCHANGED <<ier, dlab, halted, tosend>> /\ Live
      BY <1>3 DEF Eoi, tx, uartRegs
    <2> QED
      BY <2>1 DEF TransmitInv, Up, Live
  <1>4. CASE Identify
    <2>1. /\ guest = "iir" /\ read_iir # THRI /\ Live
          /\ guest' = IF read_iir = RDI THEN "drain"
                      ELSE IF claimed[CTX_SUPERVISOR] = 0 THEN "run" ELSE "eoi"
          /\ UNCHANGED <<pending, ier, dlab, halted, tosend>>
      BY <1>4 DEF Identify, plicVars, tx, uartRegs
    <2>2. read_iir # RDI => THRI \notin ier
      BY <2>1 DEF read_iir
    <2>3. guest' \in Up
      BY <2>1 DEF Up
    <2> QED
      BY <2>1, <2>2, <2>3 DEF TransmitInv, Up, Live
  <1>5. CASE Transmit
    <2>1. /\ guest = "iir" /\ UNCHANGED <<guest, halted, dlab>>
          /\ \/ ier' = ier /\ tosend > 0
             \/ tosend' = tosend /\ tosend = 0
      BY <1>5 DEF Transmit, WriteThr, uartRegs, tx
    <2> QED
      BY <2>1 DEF TransmitInv, Up, Live
  <1>6. CASE Drain
    <2>1. /\ guest = "drain" /\ guest' \in {"drain", "iir"}
          /\ UNCHANGED <<halted, ier, dlab, tosend>>
      BY <1>6 DEF Drain, ReadRbr, tx
    <2> QED
      BY <2>1 DEF TransmitInv, Up, Live
  <1> QED
    BY <1>1, <1>2, <1>3, <1>4, <1>5, <1>6 DEF Handler

(* Every step leaves what is to be sent announced.                         *)
LEMMA TransmitStep == ASSUME TransmitInv, [Next]_vars PROVE TransmitInv'
  <1>1. CASE InputThread
    <2>1. CASE LoopTop \/ ReadNothing \/ Push
      BY <2>1, OthersKeepTransmit DEF LoopTop, ReadNothing, Push, plicVars, uartRegs, tx
    <2>2. CASE ReadChar
      BY <2>2, OthersKeepTransmit DEF ReadChar, plicVars, uartRegs, tx
    <2>3. CASE Notify
      BY <2>3, OthersKeepTransmit DEF Notify, set_pending, plicVars, uartRegs, tx
    <2> QED
      BY <1>1, <2>1, <2>2, <2>3 DEF InputThread
  <1>2. CASE StoreDrains \/ Sample
    BY <1>2, OthersKeepTransmit DEF StoreDrains, Sample, plicVars, uartRegs, tx
  <1>3. CASE Shutdown
    BY <1>3, OthersKeepTransmit DEF Shutdown, plicVars, uartRegs, tx
  <1>4. CASE Finish
    <2>1. /\ guest' \in {"join", "exited"} /\ UNCHANGED halted
          /\ halted \/ guest \notin Up \union {"boot"}
      BY <1>4 DEF Finish, StopInputThread, Join, Up
    <2> QED
      BY <2>1 DEF TransmitInv, Up, Live
  <1>5. CASE UNCHANGED vars
    BY <1>5, OthersKeepTransmit DEF vars, stepVars, plicVars, uartRegs, tx
  <1> QED
    BY <1>1, <1>2, <1>3, <1>4, <1>5, SetupKeepsTransmit, HandlerKeepsTransmit
       DEF Next, Step

(* The same in one formula.                                                *)
LEMMA TransmitInvAnnounces == ASSUME TransmitInv PROVE TransmitAnnounced
  BY DEF TransmitInv, TransmitAnnounced, Up

(* What the driver queues for transmission never waits for an interrupt    *)
(* nobody will raise, whichever way round the driver completes: the safety *)
(* half of TransmitDrains (the THRI raises of write8).                     *)
THEOREM TransmitIsAnnounced == Spec => []TransmitAnnounced
  BY InitTransmit, TransmitStep, TransmitInvAnnounces, PTL DEF Spec

(* At a desk too.                                                          *)
THEOREM TransmitIsAnnouncedAtDesk == DeskSpec => []TransmitAnnounced
  <1>1. DeskInit => TransmitInv
    BY InitTransmit DEF DeskInit
  <1>2. ASSUME TransmitInv, [DeskNext]_deskVars PROVE TransmitInv'
    <2>1. CASE Crash
      BY <1>2, <2>1 DEF Crash, TransmitInv, Up, Live
    <2> QED
      BY <1>2, <2>1, TransmitStep, DeskIsConsole
  <1> QED
    BY <1>1, <1>2, TransmitInvAnnounces, PTL DEF DeskSpec

-----------------------------------------------------------------------------
(* The end of the process.                                                 *)

\* No thread outlives the objects it works on: the render thread is over when
\* the framebuffer is gone, and both are when the process has ended.
ThreadsJoined ==
    /\ torn = "framebuffer" => render \in {"none", "done"}
    /\ guest \in {"exited", "crashed"} => input = "done" /\ render \in {"none", "done"}

\* A key meets no queue only while there is none: before init has set input_,
\* or when ~Bus has destroyed what it points to.
StrayAtTheEdges ==
    [][stray' # stray => setup = "assign" \/ torn \in {"input", "stopped"}]_deskVars

Over == {"none", "done"}

\* Until init is done there is nothing to tear down, and every thread is
\* joined before the members it uses go.
EndInv ==
    /\ setup \in {"init", "assign", "up"}
    /\ torn \in {"no", "input", "stopped", "framebuffer"}
    /\ setup = "init" => render = "none" /\ guest \notin {"join", "exited", "crashed"}
    /\ halted => setup = "up" \/ guest = "crashed"
    /\ torn # "no" => setup = "up"
    /\ torn = "framebuffer" => render \in Over
    /\ torn = "no" /\ setup = "up" /\ render # "none" => input_ = "live"
    /\ running = FALSE \/ guest = "join" => torn = "framebuffer"
    /\ guest \in {"exited", "crashed"} => input = "done" /\ render \in Over

(* A machine starts with no thread but the console's.                      *)
LEMMA InitEnd == ASSUME DeskInit PROVE EndInv
  BY DEF DeskInit, Init, EndInv, Over

(* A step of the console's ends no process whose threads are not joined.   *)
LEMMA ConsoleKeepsEnd == ASSUME EndInv, ConsoleStep PROVE EndInv'
  <1>1. /\ UNCHANGED <<setup, torn, input_, render>>
        /\ halted' = halted \/ setup = "up"
        /\ running' = running \/ torn = "framebuffer"
    BY DEF ConsoleStep, displayVars, lifetime
  <1>2. CASE Finish
    <2>1. CASE StopInputThread
      <3>1. running' = FALSE /\ guest' = "join" /\ halted
            /\ guest \notin {"join", "exited", "crashed"} /\ UNCHANGED <<input, halted>>
        BY <2>1 DEF StopInputThread, StopFlag
      <3>2. setup = "up" /\ torn = "framebuffer"
        BY <1>1, <3>1 DEF EndInv
      <3> QED
        BY <1>1, <3>1, <3>2 DEF EndInv
    <2>2. CASE Join
      <3>1. guest = "join" /\ guest' = "exited" /\ input = "done"
            /\ UNCHANGED <<running, input, halted>>
        BY <2>2 DEF Join, thread
      <3> QED
        BY <1>1, <3>1 DEF EndInv
    <2> QED
      BY <1>2, <2>1, <2>2 DEF Finish
  <1>3. CASE guest' = guest /\ running' = running /\ (input = "done" => input' = "done")
    BY <1>1, <1>3 DEF EndInv
  <1>4. CASE /\ guest \in Up \union {"boot"} /\ guest' \in Up
             /\ UNCHANGED <<running, input, halted>>
    BY <1>1, <1>4 DEF EndInv, Up
  <1>5. \/ Finish
        \/ guest' = guest /\ running' = running /\ (input = "done" => input' = "done")
        \/ /\ guest \in Up \union {"boot"} /\ guest' \in Up
           /\ UNCHANGED <<running, input, halted>>
    <2>1. CASE InputThread
      <3>1. UNCHANGED <<guest, running>>
        BY <2>1 DEF InputThread, LoopTop, ReadNothing, ReadChar, Push, Notify
      <3>2. input # "done"
        BY <2>1 DEF InputThread, LoopTop, ReadNothing, ReadChar, Push, Notify
      <3> QED
        BY <3>1, <3>2
    <2>2. CASE StoreDrains \/ Boot \/ SetPlic \/ StartSend \/ SwitchReceive \/ Sample
               \/ Shutdown
      BY <2>2 DEF StoreDrains, Boot, WriteFcrReset, WriteLcr, SetPlic, StartSend,
                  SwitchReceive, Sample, Shutdown, thread
    <2>3. CASE StartDriver
      BY <2>3 DEF StartDriver, thread, Up
    <2>4. CASE TakeInterrupt \/ Claim \/ Eoi
      BY <2>4 DEF TakeInterrupt, Claim, Eoi, thread, Up
    <2>5. CASE Identify \/ Transmit \/ Drain
      BY <2>5 DEF Identify, Transmit, WriteThr, Drain, ReadRbr, thread, Up
    <2> QED
      BY <2>1, <2>2, <2>3, <2>4, <2>5 DEF ConsoleStep, Next, Step, Setup, Handler
  <1> QED
    BY <1>2, <1>3, <1>4, <1>5

(* The render thread ends itself, and ~Bus waits for it.                   *)
LEMMA WindowKeepsEnd ==
    ASSUME EndInv, StartThread \/ AssignInput \/ Render \/ Crash \/ Draw \/ PopEvent
                   \/ TearDown
    PROVE  EndInv'
  <1>1. CASE StartThread \/ AssignInput
    BY <1>1 DEF StartThread, AssignInput, EndInv, vars, stepVars, thread
  <1>2. CASE Render
    <2>1. /\ UNCHANGED <<setup, torn, input_, guest, halted, running, input>>
          /\ render \notin Over /\ render' # "none"
      <3>1. CASE OpenWindow \/ RenderTop \/ PollNothing \/ push_event
        BY <3>1 DEF OpenWindow, RenderTop, PollNothing, AfterEvents, push_event, lifetime,
                    vars, stepVars, thread, Over
      <3>2. CASE PollEvent
        BY <3>2 DEF PollEvent, AfterEvents, vars, stepVars, thread, Over
      <3>3. CASE UpdateTexture \/ Present
        BY <3>3 DEF UpdateTexture, Present, lifetime, vars, stepVars, thread, Over
      <3> QED
        BY <1>2, <3>1, <3>2, <3>3 DEF Render
    <2> QED
      BY <2>1 DEF EndInv, Over
  <1>3. CASE Crash
    <2>1. /\ render = "push" /\ render' = "done" /\ input' = "done" /\ guest' = "crashed"
          /\ UNCHANGED <<setup, torn, input_, running>>
      BY <1>3 DEF Crash, lifetime
    <2> QED
      BY <2>1 DEF EndInv, Over
  <1>4. CASE Draw \/ PopEvent
    BY <1>4 DEF Draw, PopEvent, EndInv, lifetime, vars, stepVars, thread
  <1>5. CASE TearDown
    <2>1. /\ UNCHANGED <<setup, render, guest, halted, running, input>>
          /\ torn # "framebuffer" /\ guest # "crashed"
          /\ torn' = "framebuffer" => render \in Over
          /\ torn' \in {"input", "stopped", "framebuffer"}
          /\ torn # "no" \/ halted
      BY <1>5 DEF TearDown, DestroyInput, StopRender, JoinRender, vars, stepVars, thread, Over
    <2> QED
      BY <2>1 DEF EndInv
  <1> QED
    BY <1>1, <1>2, <1>3, <1>4, <1>5

(* Every step of a machine at a desk.                                      *)
LEMMA EndStep == ASSUME EndInv, [DeskNext]_deskVars PROVE EndInv'
  <1>1. CASE UNCHANGED deskVars
    BY <1>1 DEF deskVars, displayVars, lifetime, vars, stepVars, thread, EndInv
  <1> QED
    BY <1>1, ConsoleKeepsEnd, WindowKeepsEnd DEF DeskNext

(* However the machine stops - by its guest, at the keyboard, by a closed  *)
(* window or by a stray key - no thread is left running on what is gone:   *)
(* the safety half of ShutdownEnds (~FrameBuffer, ~UART).                 *)
THEOREM ThreadsAreJoined == DeskSpec => []ThreadsJoined
  <1>1. EndInv => ThreadsJoined
    BY DEF EndInv, ThreadsJoined, Over
  <1> QED
    BY <1>1, InitEnd, EndStep, PTL DEF DeskSpec

(* The two windows in which a key can go astray are the only two           *)
(* (bus.cpp:18-25, framebuffer_sdl.cpp:69-78).                             *)
THEOREM KeysStrayAtTheEdges == DeskSpec => StrayAtTheEdges
  <1> DEFINE A == stray' # stray => setup = "assign" \/ torn \in {"input", "stopped"}
  <1>1. ASSUME EndInv, [DeskNext]_deskVars PROVE A
    <2>1. CASE push_event \/ Crash
      <3>1. ASSUME stray' # stray PROVE render = "push" /\ input_ # "live"
        BY <2>1, <3>1 DEF push_event, Crash
      <3> QED
        BY <1>1, <3>1 DEF EndInv, Over
    <2>2. CASE UNCHANGED stray
      BY <2>2
    <2>3. \/ push_event \/ Crash \/ UNCHANGED stray
      <3>1. CASE ConsoleStep
        BY <3>1 DEF ConsoleStep, displayVars, keyboard
      <3>2. CASE StartThread \/ AssignInput \/ Draw \/ PopEvent \/ TearDown
        BY <3>2 DEF StartThread, AssignInput, Draw, PopEvent, TearDown, DestroyInput,
                    StopRender, JoinRender, keyboard
      <3>3. CASE Render
        BY <3>3 DEF Render, OpenWindow, RenderTop, PollNothing, PollEvent, UpdateTexture,
                    Present, keyboard
      <3>4. CASE UNCHANGED deskVars
        BY <3>4 DEF deskVars, displayVars, keyboard
      <3> QED
        BY <1>1, <3>1, <3>2, <3>3, <3>4 DEF DeskNext
    <2> QED
      BY <2>1, <2>2, <2>3
  <1>2. EndInv /\ [DeskNext]_deskVars => [A]_deskVars
    BY <1>1
  <1> HIDE DEF A
  <1>3. DeskSpec => [][A]_deskVars
    BY <1>2, InitEnd, EndStep, PTL DEF DeskSpec
  <1> QED
    BY <1>3 DEF StrayAtTheEdges, A

-----------------------------------------------------------------------------
(* The picture.                                                            *)

\* A cell on the screen never goes back to an older colour.
PictureAdvances == [][\A c \in Cells : screen[c] <= screen'[c]]_deskVars

\* What is on the screen was in the texture, and what is there was drawn:
\* a colour is the number of its store, so each is no newer than the next.
PictureInv ==
    /\ draws \in Nat
    /\ pixels \in [Cells -> Nat] /\ texture \in [Cells -> Nat] /\ screen \in [Cells -> Nat]
    /\ \A c \in Cells : /\ screen[c] <= texture[c] /\ texture[c] <= pixels[c]
                        /\ pixels[c] <= draws
    /\ copied \in 0..CELLS
    /\ render = "copy" => copied < CELLS
    /\ render \notin {"copy", "present"} => copied = 0
    /\ setup \in {"init", "assign", "up"}
    /\ setup = "init" => render = "none"

(* The window opens on an empty picture.                                   *)
LEMMA InitPicture == ASSUME DeskInit PROVE PictureInv
  BY DisplayAssumption DEF DeskInit, Blank, PictureInv

(* One cell of UpdateTexture, whatever the guest draws meanwhile.          *)
LEMMA CopyKeepsPicture == ASSUME PictureInv, UpdateTexture PROVE PictureInv'
  <1>1. /\ copied' = copied + 1 /\ render = "copy"
        /\ texture' = [texture EXCEPT ![copied'] = pixels[copied']]
        /\ render' = IF copied' = CELLS THEN "present" ELSE "copy"
        /\ UNCHANGED <<pixels, screen, draws, setup>>
    BY DEF UpdateTexture, lifetime
  <1>2. copied' \in Cells
    BY <1>1, DisplayAssumption DEF PictureInv, Cells
  <1>3. pixels[copied'] \in Nat
    BY <1>2 DEF PictureInv
  <1>4. texture' \in [Cells -> Nat]
    BY <1>1, <1>3 DEF PictureInv
  <1>5. ASSUME NEW c \in Cells PROVE screen[c] <= texture'[c] /\ texture'[c] <= pixels[c]
    <2>1. /\ screen[c] \in Nat /\ texture[c] \in Nat /\ pixels[c] \in Nat
          /\ screen[c] <= texture[c] /\ texture[c] <= pixels[c]
      BY <1>5 DEF PictureInv
    <2>2. texture'[c] = IF c = copied' THEN pixels[c] ELSE texture[c]
      BY <1>1, <1>2 DEF PictureInv
    <2> QED
      BY <2>1, <2>2
  <1>6. copied' \in 0..CELLS /\ (render' = "copy" => copied' < CELLS)
        /\ render' \in {"copy", "present"}
    BY <1>1, DisplayAssumption DEF PictureInv
  <1> QED
    BY <1>1, <1>4, <1>5, <1>6 DEF PictureInv

(* A store of the guest is newer than any before it.                       *)
LEMMA DrawKeepsPicture == ASSUME PictureInv, Draw PROVE PictureInv'
  <1>1. PICK c \in Cells : pixels' = [pixels EXCEPT ![c] = draws']
    BY DEF Draw
  <1>2. draws' = draws + 1 /\ UNCHANGED <<texture, screen, copied, render, setup>>
    BY DEF Draw, lifetime
  <1>3. draws' \in Nat /\ pixels' \in [Cells -> Nat]
    BY <1>1, <1>2 DEF PictureInv
  <1>4. ASSUME NEW d \in Cells PROVE pixels[d] <= pixels'[d] /\ pixels'[d] <= draws'
    <2>1. pixels[d] \in Nat /\ pixels[d] <= draws /\ draws \in Nat
      BY DEF PictureInv
    <2>2. pixels'[d] = IF d = c THEN draws' ELSE pixels[d]
      BY <1>1 DEF PictureInv
    <2> QED
      BY <1>2, <2>1, <2>2
  <1>5. \A d \in Cells : texture[d] <= pixels'[d]
    BY <1>3, <1>4 DEF PictureInv
  <1> QED
    BY <1>2, <1>3, <1>4, <1>5 DEF PictureInv

(* Every step of a machine at a desk.                                      *)
LEMMA PictureStep == ASSUME PictureInv, [DeskNext]_deskVars PROVE PictureInv'
  <1>1. CASE ConsoleStep \/ UNCHANGED deskVars
    <2>1. UNCHANGED <<picture, render, setup>>
      BY <1>1 DEF ConsoleStep, deskVars, displayVars, lifetime
    <2> QED
      BY <2>1 DEF picture, PictureInv
  <1>2. CASE StartThread
    BY <1>2 DEF StartThread, picture, PictureInv
  <1>3. CASE AssignInput \/ PopEvent \/ TearDown
    BY <1>3 DEF AssignInput, PopEvent, TearDown, DestroyInput, StopRender, JoinRender,
                lifetime, picture, PictureInv
  <1>4. CASE OpenWindow \/ RenderTop \/ push_event \/ Crash
    BY <1>4 DEF OpenWindow, RenderTop, push_event, Crash, lifetime, picture,
                PictureInv
  <1>5. CASE PollNothing \/ PollEvent
    BY <1>5, DisplayAssumption DEF PollNothing, PollEvent, AfterEvents,
                lifetime, picture, PictureInv
  <1>6. CASE Present
    BY <1>6, DisplayAssumption DEF Present, lifetime, PictureInv
  <1> QED
    BY <1>1, <1>2, <1>3, <1>4, <1>5, <1>6, CopyKeepsPicture, DrawKeepsPicture
       DEF DeskNext, Render

(* Although the render thread copies the pixels while the guest draws, and *)
(* a picture may be torn between two of the guest's, no cell of it ever    *)
(* goes back in time (framebuffer_sdl.cpp:80-86).                          *)
THEOREM PictureNeverGoesBack == DeskSpec => PictureAdvances
  <1> DEFINE A == \A c \in Cells : screen[c] <= screen'[c]
  <1>1. ASSUME PictureInv, [DeskNext]_deskVars PROVE A
    <2>1. CASE Present
      BY <1>1, <2>1 DEF Present, PictureInv
    <2>2. CASE UNCHANGED screen
      BY <1>1, <2>2 DEF PictureInv
    <2>3. Present \/ UNCHANGED screen
      <3>1. CASE Render
        BY <3>1 DEF Render, OpenWindow, RenderTop, PollNothing, PollEvent, push_event,
                    UpdateTexture, picture
      <3>2. CASE ~Render
        BY <1>1, <3>2 DEF DeskNext, ConsoleStep, StartThread, AssignInput, Draw, PopEvent,
                    Crash, TearDown, DestroyInput, StopRender, JoinRender, deskVars,
                    displayVars, picture
      <3> QED
        BY <3>1, <3>2
    <2> QED
      BY <2>1, <2>2, <2>3
  <1>2. PictureInv /\ [DeskNext]_deskVars => [A]_deskVars
    BY <1>1
  <1> HIDE DEF A
  <1>3. DeskSpec => [][A]_deskVars
    BY <1>2, InitPicture, PictureStep, PTL DEF DeskSpec
  <1> QED
    BY <1>3 DEF PictureAdvances, A
=============================================================================
