------------------------ MODULE ServiceDiscoveryProofs ------------------------
(***************************************************************************)
(* Theorems about ServiceDiscovery, for any clients, hosts, answers of the *)
(* DNS server and width of the round robin counter: CacheInv is inductive, *)
(* and what a request gets from the balancer follows from it.  And about   *)
(* SrvWeights, for any weights and any answer that lists no host twice:    *)
(* the numbers of instances are short, fair and irreducible, which follows *)
(* from what the sums and the greatest common divisor of a list are.       *)
(***************************************************************************)
EXTENDS MCServiceDiscovery, FiniteSetTheorems, WellFoundedInduction, TLAPS

-----------------------------------------------------------------------------
(* Lemmas about the operators of the model                                 *)

\* The remainder is an entry of the list.
LEMMA RemainderFacts ==
    ASSUME NEW a \in Nat, NEW n \in Nat, n > 0
    PROVE  a % n \in 0..(n - 1)
  OBVIOUS

\* Fewer than n consecutive tickets have different remainders modulo n.
LEMMA NearTicketsDiffer ==
    ASSUME NEW a \in Nat, NEW b \in Nat, NEW n \in Nat, a < b, b - a < n
    PROVE  a % n # b % n
  <1> SUFFICES ASSUME a % n = b % n PROVE FALSE
    OBVIOUS
  <1> DEFINE p == a \div n
             q == b \div n
  <1>1. p \in Nat /\ q \in Nat /\ a % n \in Int /\ b % n \in Int
    OBVIOUS
  <1>2. a = n * p + (a % n) /\ b = n * q + (b % n)
    OBVIOUS
  <1>3. n * (q - p) = b - a
    BY <1>1, <1>2
  <1>4. q - p <= 0 => n * (q - p) <= 0
    BY <1>1
  <1>5. q - p >= 1 => n * (q - p) >= n
    BY <1>1
  <1> QED
    BY <1>1, <1>3, <1>4, <1>5

\* The counter wraps, and the ticket is what it was before the add.
LEMMA TicketFacts ==
    /\ \A n \in 0..(CounterMod - 1) :
        /\ Ticket(n) \in 0..(CounterMod - 1)
        /\ n > 0 => Ticket(n) = n - 1
        /\ (n + 1) % CounterMod \in 0..(CounterMod - 1)
        /\ Ticket((n + 1) % CounterMod) = n
  <1> SUFFICES ASSUME NEW n \in 0..(CounterMod - 1)
               PROVE  /\ Ticket(n) \in 0..(CounterMod - 1)
                      /\ n > 0 => Ticket(n) = n - 1
                      /\ (n + 1) % CounterMod \in 0..(CounterMod - 1)
                      /\ Ticket((n + 1) % CounterMod) = n
    OBVIOUS
  <1>1. CounterMod \in Nat /\ CounterMod > 0
    BY NumbersAssumption
  <1>2. n > 0 => Ticket(n) = n - 1
    BY <1>1 DEF Ticket
  <1>3. n = 0 => Ticket(n) = CounterMod - 1
    BY <1>1 DEF Ticket
  <1>4. (n + 1) % CounterMod = IF n = CounterMod - 1 THEN 0 ELSE n + 1
    BY <1>1
  <1>5. Ticket((n + 1) % CounterMod) = n
    BY <1>1, <1>4 DEF Ticket
  <1> QED
    BY <1>1, <1>2, <1>3, <1>4, <1>5

\* A shuffled list has the length of the list, and hosts of it only.
LEMMA ShuffleFacts ==
    ASSUME NEW list \in Seq(Host), NEW s \in Shuffles(list)
    PROVE  s \in Seq(Host) /\ Len(s) = Len(list)
  <1>1. CASE Len(list) <= ShuffleAbove
    BY <1>1 DEF Shuffles
  <1>2. CASE ~(Len(list) <= ShuffleAbove)
    <2>1. s \in [1..Len(list) -> Range(list)]
      BY <1>2 DEF Shuffles
    <2>2. Range(list) \subseteq Host
      BY DEF Range
    <2>3. s \in [1..Len(list) -> Host]
      BY <2>1, <2>2
    <2> QED
      BY <2>3
  <1> QED
    BY <1>1, <1>2

\* A slice of a list is whole.
LEMMA SliceFacts ==
    /\ NoSlice \in SliceType /\ NoSlice.len = 0 /\ NoSlice.array = << >>
    /\ \A a \in Seq(Host) : /\ Slice(a) \in SliceType
                            /\ Slice(a).len = Len(a) /\ Slice(a).array = a
  BY DEF NoSlice, Slice, SliceType

\* What is observed are lists and offsets.
LEMMA ObserveFacts ==
    ASSUME recent \in Seq(Seq(Host) \X Nat),
           NEW list \in Seq(Host), Len(list) > 0, NEW ticket \in Nat
    PROVE  Observe(list, ticket) \in Seq(Seq(Host) \X Nat)
  <1> DEFINE pick == <<list, ticket % Len(list)>>
  <1>1. pick \in Seq(Host) \X Nat
    BY RemainderFacts
  <1>2. <<pick>> \in Seq(Seq(Host) \X Nat) /\ Append(recent, pick) \in Seq(Seq(Host) \X Nat)
    BY <1>1
  <1>3. recent # << >> => Append(Tail(recent), pick) \in Seq(Seq(Host) \X Nat)
    BY <1>1
  <1>4. recent = << >> => Len(recent) < Len(list)
    OBVIOUS
  <1> QED
    BY <1>2, <1>3, <1>4 DEF Observe

\* The next pick of the same list moves the observed picks up by one ticket.
LEMMA ObserveFollows ==
    ASSUME recent \in Seq(Seq(Host) \X Nat),
           NEW list \in Seq(Host), Len(list) > 0, NEW t \in Nat,
           (recent # << >> /\ t > 0) => AreLatest(recent, t - 1)
    PROVE  AreLatest(Observe(list, t), t)
  <1> DEFINE pick == <<list, t % Len(list)>>
             last == IF recent = << >> THEN pick ELSE recent[Len(recent)]
             next == Observe(list, t)
  <1>1. next = IF t = 0 \/ last[1] # list THEN <<pick>>
               ELSE IF Len(recent) < Len(list) THEN Append(recent, pick)
               ELSE Append(Tail(recent), pick)
    BY DEF Observe
  <1>2. pick[1] = list /\ pick = <<list, t % Len(list)>> /\ Len(list) \in Nat /\ Len(recent) \in Nat
    OBVIOUS
  <1>3. recent = << >> => last = pick
    OBVIOUS
  <1>4. recent # << >> => last = recent[Len(recent)]
    OBVIOUS
  <1> HIDE DEF pick, last, next
  <1>5. CASE next = <<pick>>
    <2>1. Len(next) = 1 /\ DOMAIN next = 1..1 /\ next[1] = pick /\ t - (1 - 1) = t
      BY <1>5
    <2> QED
      BY <1>2, <2>1 DEF AreLatest, next
  <1>6. CASE next # <<pick>>
    <2>1. recent # << >>
      <3> SUFFICES ASSUME recent = << >> PROVE FALSE
        OBVIOUS
      <3>1. Append(recent, pick) = <<pick>> /\ Len(recent) < Len(list)
        BY <1>2
      <3> QED
        BY <1>1, <1>3, <1>6, <3>1
    <2>2. t > 0 /\ recent[Len(recent)][1] = list
      BY <1>1, <1>4, <1>6, <2>1
    <2>3. AreLatest(recent, t - 1)
      BY <2>1, <2>2
    <2>4. recent[1][1] = list
      <3>1. Len(recent) \in DOMAIN recent
        BY <2>1
      <3>2. recent[Len(recent)][1] = recent[1][1]
        BY <2>3, <3>1 DEF AreLatest
      <3> QED
        BY <2>2, <3>2
    <2>5. /\ Len(recent) <= Len(list) /\ Len(recent) <= t
          /\ \A n \in DOMAIN recent :
                recent[n] = <<list, (t - 1 - (Len(recent) - n)) % Len(list)>>
      BY <2>3, <2>4, <1>2 DEF AreLatest
    <2>6. CASE Len(recent) < Len(list)
      <3>1. /\ next = Append(recent, pick) /\ Len(next) = Len(recent) + 1
            /\ DOMAIN next = 1..(Len(recent) + 1)
        BY <1>1, <1>4, <1>6, <2>2, <2>1, <2>6
      <3>2. ASSUME NEW n \in DOMAIN next
            PROVE  next[n] = <<list, (t - (Len(next) - n)) % Len(list)>>
        <4>1. CASE n = Len(recent) + 1
          <5>1. next[n] = pick /\ t - (Len(next) - n) = t
            BY <4>1, <3>1, <1>2
          <5> QED
            BY <5>1, <1>2
        <4>2. CASE n # Len(recent) + 1
          <5>1. n \in DOMAIN recent /\ next[n] = recent[n]
            BY <4>2, <3>1, <1>2
          <5>2. t - 1 - (Len(recent) - n) = t - (Len(next) - n)
            BY <5>1, <3>1, <1>2
          <5> QED
            BY <5>1, <5>2, <2>5
        <4> QED
          BY <4>1, <4>2
      <3>3. next[1][1] = list
        <4>1. 1 \in DOMAIN next
          BY <3>1, <1>2
        <4> QED
          BY <4>1, <3>2
      <3>4. Len(next) <= Len(list) /\ Len(next) <= t + 1
        BY <2>5, <2>6, <3>1, <1>2
      <3> QED
        BY <3>2, <3>3, <3>4 DEF AreLatest, next
    <2>7. CASE ~(Len(recent) < Len(list))
      <3>1. /\ next = Append(Tail(recent), pick) /\ Len(next) = Len(recent)
            /\ DOMAIN next = 1..Len(recent)
        BY <1>1, <1>4, <1>6, <2>2, <2>1, <2>7
      <3>2. ASSUME NEW n \in 1..Len(recent)
            PROVE  next[n] = <<list, (t - (Len(next) - n)) % Len(list)>>
        <4>1. CASE n = Len(recent)
          <5>1. next[n] = pick /\ t - (Len(next) - n) = t
            BY <4>1, <3>1, <1>2, <2>1
          <5> QED
            BY <5>1, <1>2
        <4>2. CASE n # Len(recent)
          <5>1. n + 1 \in DOMAIN recent /\ next[n] = recent[n + 1]
            BY <4>2, <3>1, <1>2, <2>1
          <5>2. t - 1 - (Len(recent) - (n + 1)) = t - (Len(next) - n)
            <6>1. n \in Int /\ t \in Int /\ Len(recent) \in Int
              BY <1>2
            <6>2. \A x, y, z \in Int : x - 1 - (y - (z + 1)) = x - (y - z)
              OBVIOUS
            <6>3. t - 1 - (Len(recent) - (n + 1)) = t - (Len(recent) - n)
              BY <6>1, <6>2, Zenon
            <6> QED
              BY <3>1, <6>3
          <5> QED
            BY <5>1, <5>2, <2>5
        <4> QED
          BY <4>1, <4>2
      <3>3. next[1][1] = list
        <4>1. 1 \in 1..Len(recent)
          BY <1>2, <2>1
        <4> QED
          BY <4>1, <3>2
      <3>4. Len(next) <= Len(list) /\ Len(next) <= t + 1
        BY <2>5, <2>7, <3>1, <1>2
      <3> QED
        BY <3>1, <3>2, <3>3, <3>4 DEF AreLatest, next
    <2> QED
      BY <2>6, <2>7
  <1> QED
    BY <1>5, <1>6 DEF next

-----------------------------------------------------------------------------
(* CacheInv is inductive                                                   *)

\* The two ways a subscriber starts.
LEMMA InitCacheInv == Init => CacheInv
  <1> SUFFICES ASSUME Init PROVE CacheInv
    OBVIOUS
  <1> USE DEF Init
  <1>1. CASE upd = "resolving" /\ cache = NoSlice /\ counter = 0 /\ ready = FALSE
                /\ kind \in {"roundrobin", "random"}
    <2>1. /\ changes \in 0..MaxChanges /\ counter \in 0..(CounterMod - 1)
          /\ wasEmpty \in BOOLEAN /\ cache \in SliceType
      BY <1>1, SliceFacts, NumbersAssumption
    <2>4. TypeOK
      <3>1. kind \in {"roundrobin", "random", "nop"} /\ upd = "resolving" /\ ready \in BOOLEAN
        BY <1>1
      <3> QED
        BY <2>1, <3>1, SliceFacts DEF TypeOK
    <2>2. SliceWhole /\ EmptyExplained
      BY <1>1, SliceFacts DEF SliceWhole, EmptyExplained, WriterWaits
    <2>3. StoringAlone
      BY <1>1 DEF StoringAlone
    <2> QED
      BY <2>2, <2>3, <2>4 DEF CacheInv, WholeSnapshot, LastGoodKept, CopyInProgress,
         LatestTickets
  <1>2. ASSUME NEW a \in Answer, cache = Slice(a), upd = "none",
               IF cache.len = 1 THEN kind = "nop" ELSE kind \in {"roundrobin", "random"},
               IF kind = "roundrobin" /\ cache.len > 1
               THEN counter \in 0..(cache.len - 1) ELSE counter = 0
        PROVE  CacheInv
    <2>1. a \in Seq(Host) /\ Len(a) <= CounterMod
      BY AnswerAssumption
    <2>2. cache \in SliceType /\ cache.len = Len(a) /\ cache.array = a
      BY <1>2, <2>1, SliceFacts
    <2>3. counter \in 0..(CounterMod - 1)
      BY <1>2, <2>1, <2>2, NumbersAssumption
    <2>4. TypeOK
      BY <1>2, <2>2, <2>3, SliceFacts, NumbersAssumption DEF TypeOK
    <2>5. SliceWhole /\ EmptyExplained
      BY <1>2, <2>2 DEF SliceWhole, EmptyExplained, WriterWaits
    <2>6. StoringAlone
      BY <1>2 DEF StoringAlone
    <2> QED
      BY <2>4, <2>5, <2>6 DEF CacheInv, WholeSnapshot, LastGoodKept, CopyInProgress,
         LatestTickets
  <1> QED
    BY <1>1, <1>2
\* Every step keeps the types.
LEMMA StepTypeOK == CacheInv /\ [Next]_vars => TypeOK'
  <1> SUFFICES ASSUME CacheInv, [Next]_vars PROVE TypeOK'
    OBVIOUS
  <1> USE DEF CacheInv, TypeOK
  <1>1. CASE DnsChanges
    BY <1>1, NumbersAssumption DEF DnsChanges, updVars, clientVars
  <1>2. CASE LookupOk
    BY <1>2, AnswerAssumption DEF LookupOk, dnsVars, clientVars
  <1>3. CASE LookupFails
    BY <1>3 DEF LookupFails, dnsVars, clientVars
  <1>4. CASE Wake
    BY <1>4 DEF Wake, dnsVars, clientVars
  <1>5. CASE Lock
    BY <1>5 DEF Lock, dnsVars, clientVars
  <1>6. CASE StoreArray
    BY <1>6, ShuffleFacts DEF StoreArray, dnsVars, clientVars, SliceType
  <1>7. CASE StoreLen
    <2>1. Len(resolved) \in Nat
      OBVIOUS
    <2>2. cache' \in SliceType
      BY <1>7, <2>1 DEF StoreLen, SliceType
    <2> QED
      BY <1>7, <2>2 DEF StoreLen, dnsVars, clientVars
  <1>8. ASSUME NEW c \in Client, Call(c) PROVE TypeOK'
    BY <1>8 DEF Call, dnsVars, updVars
  <1>9. ASSUME NEW c \in Client, RLock(c) PROVE TypeOK'
    BY <1>9 DEF RLock, dnsVars, updVars
  <1>10. ASSUME NEW c \in Client, ReadArray(c) PROVE TypeOK'
    BY <1>10 DEF ReadArray, dnsVars, updVars, SliceType
  <1>11. ASSUME NEW c \in Client, ReadLen(c) PROVE TypeOK'
    BY <1>11 DEF ReadLen, dnsVars, updVars, SliceType
  <1>12. ASSUME NEW c \in Client, RoundRobin(c) PROVE TypeOK'
    <2>1. view[c].array \in Seq(Host) /\ Len(view[c].array) > 0
      BY <1>12 DEF RoundRobin, SliceType, WholeSnapshot, CopyInProgress
    <2>2. counter' \in 0..(CounterMod - 1) /\ Ticket(counter') \in Nat
      BY <1>12, TicketFacts DEF RoundRobin
    <2>3. recent' \in Seq(Seq(Host) \X Nat)
      BY <1>12, <2>1, <2>2, ObserveFacts DEF RoundRobin
    <2> QED
      BY <1>12, <2>2, <2>3, SliceFacts DEF RoundRobin, Pick, dnsVars, updVars
  <1>13. ASSUME NEW c \in Client, Random(c) PROVE TypeOK'
    BY <1>13, SliceFacts DEF Random, Pick, dnsVars, updVars
  <1>14. ASSUME NEW c \in Client, Return(c) PROVE TypeOK'
    BY <1>14, SliceFacts DEF Return, dnsVars, updVars
  <1>15. CASE UNCHANGED vars
    BY <1>15 DEF vars, dnsVars, updVars, clientVars
  <1> QED
    BY <1>1, <1>2, <1>3, <1>4, <1>5, <1>6, <1>7, <1>8, <1>9, <1>10, <1>11, <1>12,
       <1>13, <1>14, <1>15 DEF Next, Update, Serve

\* Every step of the update and of the clients keeps the cache and the copies right.
LEMMA StepSlices ==
    CacheInv /\ [Next]_vars =>
        (StoringAlone /\ SliceWhole /\ CopyInProgress /\ WholeSnapshot)'
  <1> SUFFICES ASSUME CacheInv, [Next]_vars
               PROVE  (StoringAlone /\ SliceWhole /\ CopyInProgress /\ WholeSnapshot)'
    OBVIOUS
  <1> USE DEF CacheInv, TypeOK, StoringAlone, SliceWhole, CopyInProgress, WholeSnapshot, Reading
  <1>1. CASE DnsChanges
    BY <1>1 DEF DnsChanges, updVars, clientVars
  <1>2. CASE LookupOk
    BY <1>2 DEF LookupOk, dnsVars, clientVars
  <1>3. CASE LookupFails
    BY <1>3 DEF LookupFails, dnsVars, clientVars
  <1>4. CASE Wake
    BY <1>4 DEF Wake, dnsVars, clientVars
  <1>5. CASE Lock
    BY <1>5 DEF Lock, dnsVars, clientVars
  <1>6. CASE StoreArray
    BY <1>6, ShuffleFacts DEF StoreArray, dnsVars, clientVars, SliceType
  <1>7. CASE StoreLen
    BY <1>7 DEF StoreLen, dnsVars, clientVars, SliceType
  <1>8. ASSUME NEW c \in Client, Call(c) PROVE (StoringAlone /\ SliceWhole /\ CopyInProgress /\ WholeSnapshot)'
    BY <1>8, SliceFacts DEF Call, dnsVars, updVars
  <1>9. ASSUME NEW c \in Client, RLock(c) PROVE (StoringAlone /\ SliceWhole /\ CopyInProgress /\ WholeSnapshot)'
    BY <1>9 DEF RLock, dnsVars, updVars, WriterWaits
  <1>10. ASSUME NEW c \in Client, ReadArray(c) PROVE (StoringAlone /\ SliceWhole /\ CopyInProgress /\ WholeSnapshot)'
    BY <1>10 DEF ReadArray, dnsVars, updVars, SliceType
  <1>11. ASSUME NEW c \in Client, ReadLen(c) PROVE (StoringAlone /\ SliceWhole /\ CopyInProgress /\ WholeSnapshot)'
    BY <1>11 DEF ReadLen, dnsVars, updVars, SliceType
  <1>12. ASSUME NEW c \in Client, Pick(c), pc[c] = "picking" PROVE (StoringAlone /\ SliceWhole /\ CopyInProgress /\ WholeSnapshot)'
    BY <1>12, SliceFacts DEF Pick, dnsVars, updVars
  <1>13. ASSUME NEW c \in Client, Return(c) PROVE (StoringAlone /\ SliceWhole /\ CopyInProgress /\ WholeSnapshot)'
    BY <1>13, SliceFacts DEF Return, dnsVars, updVars
  <1>14. CASE UNCHANGED vars
    BY <1>14 DEF vars, dnsVars, updVars, clientVars
  <1> QED
    BY <1>1, <1>2, <1>3, <1>4, <1>5, <1>6, <1>7, <1>8, <1>9, <1>10, <1>11, <1>12,
       <1>13, <1>14 DEF Next, Update, Serve, RoundRobin, Random

\* A list without hosts is resolved, stored and read only after the DNS server had none.
LEMMA StepEmptyExplained == CacheInv /\ [Next]_vars => (EmptyExplained /\ LastGoodKept)'
  <1> SUFFICES ASSUME CacheInv, [Next]_vars PROVE (EmptyExplained /\ LastGoodKept)'
    OBVIOUS
  <1> USE DEF CacheInv, TypeOK, EmptyExplained, LastGoodKept, WriterWaits
  <1>1. CASE DnsChanges
    BY <1>1 DEF DnsChanges, updVars, clientVars
  <1>2. CASE LookupOk
    BY <1>2 DEF LookupOk, dnsVars, clientVars
  <1>3. CASE LookupFails \/ Wake \/ Lock
    BY <1>3 DEF LookupFails, Wake, Lock, dnsVars, clientVars
  <1>4. CASE StoreArray
    BY <1>4 DEF StoreArray, dnsVars, clientVars, SliceType
  <1>5. CASE StoreLen
    BY <1>5 DEF StoreLen, dnsVars, clientVars, SliceType
  <1>6. ASSUME NEW c \in Client, Call(c) PROVE (EmptyExplained /\ LastGoodKept)'
    BY <1>6 DEF Call, dnsVars, updVars, SliceType
  <1>10. ASSUME NEW c \in Client, RLock(c) \/ ReadArray(c) PROVE (EmptyExplained /\ LastGoodKept)'
    BY <1>10 DEF RLock, ReadArray, dnsVars, updVars
  <1>7. ASSUME NEW c \in Client, ReadLen(c) PROVE (EmptyExplained /\ LastGoodKept)'
    BY <1>7 DEF ReadLen, dnsVars, updVars
  <1>8. ASSUME NEW c \in Client, Pick(c) \/ Return(c) PROVE (EmptyExplained /\ LastGoodKept)'
    BY <1>8 DEF Pick, Return, dnsVars, updVars
  <1>9. CASE UNCHANGED vars
    BY <1>9 DEF vars, dnsVars, updVars, clientVars
  <1> QED
    BY <1>1, <1>2, <1>3, <1>4, <1>5, <1>6, <1>7, <1>8, <1>9, <1>10
       DEF Next, Update, Serve, RoundRobin, Random

\* Only round robin takes a ticket: the observed picks move up by one.
LEMMA StepLatestTickets == CacheInv /\ [Next]_vars => LatestTickets'
  <1> SUFFICES ASSUME CacheInv, [Next]_vars PROVE LatestTickets'
    OBVIOUS
  <1>1. CASE UNCHANGED <<counter, recent>>
    BY <1>1 DEF CacheInv, LatestTickets, Ticket
  <1>2. ASSUME NEW c \in Client, RoundRobin(c) PROVE LatestTickets'
    <2>1. view[c].array \in Seq(Host) /\ Len(view[c].array) > 0
      BY <1>2 DEF RoundRobin, CacheInv, TypeOK, SliceType, WholeSnapshot, CopyInProgress
    <2>2. /\ counter \in Nat /\ Ticket(counter') = counter
          /\ counter > 0 => Ticket(counter) = counter - 1
      BY <1>2, TicketFacts DEF RoundRobin, CacheInv, TypeOK
    <2>3. recent' = Observe(view[c].array, counter)
      BY <1>2, <2>2 DEF RoundRobin
    <2>4. (recent # << >> /\ counter > 0) => AreLatest(recent, counter - 1)
      BY <2>2 DEF CacheInv, LatestTickets
    <2>5. recent \in Seq(Seq(Host) \X Nat)
      BY DEF CacheInv, TypeOK
    <2>6. AreLatest(recent', counter)
      BY <2>1, <2>2, <2>3, <2>4, <2>5, ObserveFollows
    <2> QED
      BY <2>2, <2>6 DEF LatestTickets
  <1> QED
    BY <1>1, <1>2 DEF Next, Update, Serve, vars, dnsVars, updVars, clientVars, DnsChanges,
       LookupOk, LookupFails, Wake, Lock, StoreArray, StoreLen, Call, RLock, ReadArray,
       ReadLen, Random, Pick, Return

\* Everything CacheInv says holds at all times: types, whole copies of the slice,
\* hosts lost only to the DNS server, and picks that follow the tickets.
THEOREM Inductive == Spec => []CacheInv
  <1>1. CacheInv /\ [Next]_vars => CacheInv'
    BY StepTypeOK, StepSlices, StepEmptyExplained, StepLatestTickets DEF CacheInv
  <1> QED
    BY InitCacheInv, <1>1, PTL DEF Spec

\* A balancer never works on half a slice, whatever update() does meanwhile.
THEOREM WholeSnapshotCorrect == Spec => []WholeSnapshot
  BY Inductive, PTL DEF CacheInv

\* A failed lookup never takes the hosts away: ErrNoHosts comes from the DNS server.
THEOREM LastGoodKeptCorrect == Spec => []LastGoodKept
  BY Inductive, PTL DEF CacheInv

\* As many consecutive picks as the list is long use every entry of it once,
\* for any clients, lists and width of the counter.
THEOREM RoundRobinFairCorrect == Spec => []RoundRobinFair
  <1>1. CacheInv => RoundRobinFair
    <2> SUFFICES ASSUME CacheInv, NEW m \in 1..Len(recent), NEW n \in 1..Len(recent),
                        m < n, n - m < Len(recent[1][1])
                 PROVE  recent[m][2] # recent[n][2]
      <3>1. CacheInv => DOMAIN recent = 1..Len(recent)
        BY DEF CacheInv, TypeOK
      <3> QED
        BY <3>1 DEF RoundRobinFair
    <2>1. /\ recent \in Seq(Seq(Host) \X Nat) /\ Len(recent) \in Nat
          /\ recent # << >> /\ DOMAIN recent = 1..Len(recent)
          /\ Ticket(counter) \in Nat
      BY TicketFacts DEF CacheInv, TypeOK
    <2>2. AreLatest(recent, Ticket(counter))
      BY <2>1 DEF CacheInv, LatestTickets
    <2>3. PICK list \in Seq(Host) :
            /\ list = recent[1][1] /\ Len(recent) <= Ticket(counter) + 1
            /\ \A i \in 1..Len(recent) :
                  recent[i] = <<list, (Ticket(counter) - (Len(recent) - i)) % Len(list)>>
      BY <2>1, <2>2 DEF AreLatest
    <2> DEFINE a == Ticket(counter) - (Len(recent) - m)
               b == Ticket(counter) - (Len(recent) - n)
    <2>4. recent[m][2] = a % Len(list) /\ recent[n][2] = b % Len(list)
      BY <2>3
    <2>5. /\ a \in Nat /\ b \in Nat /\ a < b /\ Len(list) \in Nat
          /\ b - a < Len(list)
      <3>1. PICK k \in Nat : k = Len(recent)
        BY <2>1
      <3>2. PICK l \in Nat : l = Len(list)
        OBVIOUS
      <3>3. PICK t \in Nat : t = Ticket(counter)
        BY <2>1
      <3>4. /\ m \in 1..k /\ n \in 1..k /\ m < n /\ n - m < l /\ k <= t + 1
            /\ a = t - (k - m) /\ b = t - (k - n)
        BY <2>3, <3>1, <3>2, <3>3
      <3> HIDE DEF a, b
      <3>5. a \in Nat /\ b \in Nat /\ a < b /\ b - a < l
        BY <3>4
      <3> QED
        BY <3>2, <3>5
    <2> HIDE DEF a, b
    <2>6. a % Len(list) # b % Len(list)
      BY <2>5, NearTicketsDiffer
    <2> QED
      BY <2>4, <2>6
  <1> QED
    BY <1>1, Inductive, PTL

-----------------------------------------------------------------------------
(* SrvWeights: induction over the natural numbers                          *)

\* The order of the natural numbers is well founded, as a set of pairs.
LEMMA Less == IsWellFoundedOn({ss \in Nat \X Nat : ss[1] < ss[2]}, Nat)
  BY NatLessThanWellFounded DEF OpToRel

\* Every set of natural numbers that is not empty has a least one.
LEMMA NatMin ==
    ASSUME NEW T, T \subseteq Nat, T # {}
    PROVE  \E x \in T : \A y \in T : x <= y
  <1>1. PICK rel : rel = {ss \in Nat \X Nat : ss[1] < ss[2]}
    OBVIOUS
  <1>2. PICK x \in T : \A y \in T : ~(<<y, x>> \in rel)
    BY <1>1, Less, WFMin
  <1>3. \A y \in T : ~(y < x)
    BY <1>1, <1>2
  <1>4. QED
    BY <1>2, <1>3

\* Induction over the natural numbers, of a set.
LEMMA SetInduction ==
    ASSUME NEW T, 0 \in T, \A n \in Nat : n \in T => n + 1 \in T
    PROVE  Nat \subseteq T
  <1>1. SUFFICES ASSUME Nat \ T # {} PROVE FALSE
    OBVIOUS
  <1>2. PICK x \in Nat \ T : \A y \in Nat \ T : x <= y
    <2>1. Nat \ T \subseteq Nat
      OBVIOUS
    <2>2. QED
      BY <1>1, <2>1, NatMin
  <1>3. x # 0 /\ x - 1 \in Nat /\ x - 1 \in T
    BY <1>2
  <1>4. QED
    BY <1>3

-----------------------------------------------------------------------------
(* Folds over a list                                                       *)

\* The largest element of a set.
LEMMA MaxIs ==
    ASSUME NEW T \in SUBSET Int, NEW x \in T, \A y \in T : x >= y
    PROVE  Srv!Max(T) = x
  <1>1. PICK m : m = Srv!Max(T)
    OBVIOUS
  <1>2. m \in T /\ \A y \in T : m >= y
    BY <1>1, Zenon DEF Srv!Max
  <1>3. QED
    BY <1>1, <1>2

\* Every set of natural numbers up to n that is not empty has one.
LEMMA MaxIn ==
    ASSUME NEW n \in Nat, NEW T \in SUBSET (0..n), T # {}
    PROVE  Srv!Max(T) \in T /\ \A y \in T : Srv!Max(T) >= y
  <1>1. PICK U : U = {n - x : x \in T}
    OBVIOUS
  <1>2. U \subseteq Nat /\ U # {}
    <2>1. \A x \in T : n - x \in Nat
      OBVIOUS
    <2>2. QED
      BY <1>1, <2>1
  <1>3. PICK u \in U : \A v \in U : u <= v
    BY <1>2, NatMin
  <1>4. PICK x \in T : u = n - x
    BY <1>1, <1>3
  <1>5. \A y \in T : x >= y
    <2>1. ASSUME NEW y \in T PROVE x >= y
      <3>1. n - y \in U
        BY <1>1
      <3>2. n - x <= n - y
        BY <1>3, <1>4, <3>1
      <3>3. QED
        BY <3>2
    <2>2. QED
      BY <2>1
  <1>6. Srv!Max(T) = x
    BY <1>5, MaxIs
  <1>7. QED
    BY <1>5, <1>6

\* The intervals from 1 on, without their last element.
LEMMA Intervals ==
    ASSUME NEW k \in Nat, k # 0
    PROVE  Srv!Max(1..k) = k /\ (1..k) \ {k} = 1..k - 1 /\ 1..k # {}
  <1>1. k \in 1..k /\ \A y \in 1..k : k >= y
    OBVIOUS
  <1>2. Srv!Max(1..k) = k
    <2>1. 1..k \in SUBSET Int
      OBVIOUS
    <2>2. QED
      BY <1>1, <2>1, MaxIs
  <1>3. (1..k) \ {k} = 1..k - 1
    OBVIOUS
  <1>4. QED
    BY <1>1, <1>2, <1>3

\* What a fold that takes the elements of a list from the last to the first is,
\* for each set of the positions 1..m; G is one step of it.
Folds(it, A, base, G, m) ==
    /\ it \in [SUBSET (1..m) -> A]
    /\ \A s \in SUBSET (1..m) :
          it[s] = IF s = {} THEN base ELSE G[<<it[s \ {Srv!Max(s)}], Srv!Max(s)>>]

\* There is such a fold.
LEMMA FoldExists ==
    ASSUME NEW A, NEW base \in A, NEW n \in Nat, NEW G \in [A \X (1..n) -> A]
    PROVE  \E it : Folds(it, A, base, G, n)
  <1>1. PICK T : T = {m \in Nat : m <= n => \E it : Folds(it, A, base, G, m)}
    OBVIOUS
  <1>2. 0 \in T
    <2>1. PICK it : it = [s \in SUBSET (1..0) |-> base]
      OBVIOUS
    <2>2. it \in [SUBSET (1..0) -> A]
      BY <2>1
    <2>3. ASSUME NEW s \in SUBSET (1..0)
          PROVE  it[s] = IF s = {} THEN base ELSE G[<<it[s \ {Srv!Max(s)}], Srv!Max(s)>>]
      <3>1. s = {}
        OBVIOUS
      <3>2. QED
        BY <2>1, <3>1
    <2>4. Folds(it, A, base, G, 0)
      BY <2>2, <2>3 DEF Folds
    <2>5. QED
      BY <1>1, <2>4
  <1>3. ASSUME NEW m \in Nat, m \in T PROVE m + 1 \in T
    <2>1. SUFFICES ASSUME m + 1 <= n PROVE \E it : Folds(it, A, base, G, m + 1)
      BY <1>1
    <2>2. PICK old : Folds(old, A, base, G, m)
      BY <1>1, <1>3, <2>1
    <2>3. PICK it : it = [s \in SUBSET (1..m + 1) |->
                            IF m + 1 \in s THEN G[<<old[s \ {m + 1}], m + 1>>] ELSE old[s]]
      OBVIOUS
    <2>4. \A s \in SUBSET (1..m + 1) : s \ {m + 1} \in SUBSET (1..m)
      OBVIOUS
    <2>5. \A s \in SUBSET (1..m + 1) : m + 1 \notin s => s \in SUBSET (1..m)
      OBVIOUS
    <2>6. \A s \in SUBSET (1..m) : old[s] \in A
      BY <2>2 DEF Folds
    <2>7. it \in [SUBSET (1..m + 1) -> A]
      <3>1. m + 1 \in 1..n
        BY <2>1
      <3>2. ASSUME NEW s \in SUBSET (1..m + 1) PROVE it[s] \in A
        <4>1. CASE m + 1 \in s
          <5>1. old[s \ {m + 1}] \in A
            BY <2>4, <2>6
          <5>2. QED
            BY <2>3, <3>1, <4>1, <5>1
        <4>2. CASE m + 1 \notin s
          BY <2>3, <2>5, <2>6, <4>2
        <4>3. QED
          BY <4>1, <4>2
      <3>3. QED
        BY <2>3, <3>2
    <2>8. ASSUME NEW s \in SUBSET (1..m) PROVE it[s] = old[s]
      <3>1. s \in SUBSET (1..m + 1) /\ m + 1 \notin s
        OBVIOUS
      <3>2. QED
        BY <2>3, <3>1
    <2>9. ASSUME NEW s \in SUBSET (1..m + 1)
          PROVE  it[s] = IF s = {} THEN base ELSE G[<<it[s \ {Srv!Max(s)}], Srv!Max(s)>>]
      <3>1. CASE m + 1 \in s
        <4>1. Srv!Max(s) = m + 1
          BY <3>1, MaxIs
        <4>2. it[s \ {m + 1}] = old[s \ {m + 1}]
          BY <2>4, <2>8
        <4>3. it[s] = G[<<old[s \ {m + 1}], m + 1>>]
          BY <2>3, <3>1
        <4>4. QED
          BY <3>1, <4>1, <4>2, <4>3
      <3>2. CASE m + 1 \notin s
        <4>1. s \in SUBSET (1..m) /\ s \ {Srv!Max(s)} \in SUBSET (1..m)
          BY <2>5, <3>2
        <4>2. it[s] = old[s] /\ it[s \ {Srv!Max(s)}] = old[s \ {Srv!Max(s)}]
          BY <2>8, <4>1
        <4>3. old[s] = IF s = {} THEN base ELSE G[<<old[s \ {Srv!Max(s)}], Srv!Max(s)>>]
          BY <2>2, <4>1 DEF Folds
        <4>4. QED
          BY <4>2, <4>3
      <3>3. QED
        BY <3>1, <3>2
    <2>10. QED
      BY <2>7, <2>9 DEF Folds
  <1>4. Nat \subseteq T
    BY <1>2, <1>3, SetInduction
  <1>5. QED
    BY <1>1, <1>4

\* The sum of the first k elements of ws, for every k.
Sums(P, ws) ==
    /\ P \in [0..Len(ws) -> Nat] /\ P[0] = 0
    /\ \A k \in 1..Len(ws) : P[k] = P[k - 1] + ws[k]

\* Total adds them from the first to the last.
LEMMA TotalIsSum ==
    ASSUME NEW ws \in Seq(Nat)
    PROVE  \E P : Sums(P, ws) /\ Srv!Total(ws) = P[Len(ws)]
  <1>1. PICK n \in Nat : n = Len(ws) /\ DOMAIN ws = 1..n
    OBVIOUS
  <1>2. PICK G : G = [x \in Nat \X (1..n) |-> x[1] + ws[x[2]]]
    OBVIOUS
  <1>3. \A a \in Nat, i \in 1..n : ws[i] \in Nat /\ G[<<a, i>>] = a + ws[i]
    BY <1>1, <1>2
  <1>4. G \in [Nat \X (1..n) -> Nat]
    BY <1>1, <1>2
  <1>5. PICK it : Folds(it, Nat, 0, G, n)
    BY <1>4, FoldExists
  <1>6. it = [s \in SUBSET (1..n) |-> IF s = {} THEN 0 ELSE it[s \ {Srv!Max(s)}] + ws[Srv!Max(s)]]
    <2>1. ASSUME NEW s \in SUBSET (1..n), s # {} PROVE it[s] = it[s \ {Srv!Max(s)}] + ws[Srv!Max(s)]
      <3>1. Srv!Max(s) \in 1..n
        <4>1. s \in SUBSET (0..n)
          OBVIOUS
        <4>2. QED
          BY <2>1, <4>1, MaxIn
      <3>2. s \ {Srv!Max(s)} \in SUBSET (1..n)
        OBVIOUS
      <3>3. it[s \ {Srv!Max(s)}] \in Nat
        BY <1>5, <3>2 DEF Folds
      <3>4. it[s] = G[<<it[s \ {Srv!Max(s)}], Srv!Max(s)>>]
        BY <1>5, <2>1 DEF Folds
      <3>5. QED
        BY <1>3, <3>1, <3>3, <3>4
    <2>2. QED
      BY <1>5, <2>1 DEF Folds
  <1>7. PICK f : /\ f = [s \in SUBSET (1..n) |-> IF s = {} THEN 0 ELSE f[s \ {Srv!Max(s)}] + ws[Srv!Max(s)]]
                 /\ Srv!Total(ws) = f[1..n]
    <2>1. \E f : f = [s \in SUBSET (DOMAIN ws) |-> IF s = {} THEN 0 ELSE f[s \ {Srv!Max(s)}] + ws[Srv!Max(s)]]
      BY <1>1, <1>6
    <2>2. \E f : /\ f = [s \in SUBSET (DOMAIN ws) |-> IF s = {} THEN 0 ELSE f[s \ {Srv!Max(s)}] + ws[Srv!Max(s)]]
                 /\ Srv!Total(ws) = f[DOMAIN ws]
      BY <2>1, Zenon DEF Srv!Total, Srv!FoldLeft, Srv!MapThenFoldSet
    <2>3. QED
      BY <1>1, <2>2
  <1>8. f[{}] = 0 /\ \A k \in 1..n : f[1..k] = f[1..k - 1] + ws[k]
    <2>1. {} \in SUBSET (1..n)
      OBVIOUS
    <2>2. f[{}] = 0
      BY <1>7, <2>1
    <2>3. ASSUME NEW k \in 1..n PROVE f[1..k] = f[1..k - 1] + ws[k]
      <3>1. 1..k \in SUBSET (1..n) /\ k \in Nat /\ k # 0
        OBVIOUS
      <3>2. Srv!Max(1..k) = k /\ (1..k) \ {k} = 1..k - 1 /\ 1..k # {}
        BY <3>1, Intervals
      <3>3. f[1..k] = IF 1..k = {} THEN 0 ELSE f[(1..k) \ {Srv!Max(1..k)}] + ws[Srv!Max(1..k)]
        BY <1>7, <3>1
      <3>4. QED
        BY <3>2, <3>3
    <2>4. QED
      BY <2>2, <2>3
  <1>9. PICK P : P = [k \in 0..n |-> f[1..k]]
    OBVIOUS
  <1>10. P[0] = 0 /\ \A k \in 1..n : P[k] = P[k - 1] + ws[k]
    <2>1. 1..0 = {} /\ 0 \in 0..n
      OBVIOUS
    <2>2. P[0] = 0
      BY <1>8, <1>9, <2>1
    <2>3. ASSUME NEW k \in 1..n PROVE P[k] = P[k - 1] + ws[k]
      <3>1. k \in 0..n /\ k - 1 \in 0..n
        OBVIOUS
      <3>2. P[k] = f[1..k] /\ P[k - 1] = f[1..k - 1]
        BY <1>9, <3>1
      <3>3. QED
        BY <1>8, <3>2
    <2>4. QED
      BY <2>2, <2>3
  <1>11. \A k \in 0..n : P[k] \in Nat
    <2>1. PICK T : T = {k \in Nat : k <= n => P[k] \in Nat}
      OBVIOUS
    <2>2. 0 \in T
      BY <1>10, <2>1
    <2>3. ASSUME NEW k \in Nat, k \in T PROVE k + 1 \in T
      <3>1. SUFFICES ASSUME k + 1 <= n PROVE P[k + 1] \in Nat
        BY <2>1
      <3>2. k + 1 \in 1..n /\ P[k] \in Nat /\ (k + 1) - 1 = k
        BY <2>1, <2>3, <3>1
      <3>3. P[k + 1] = P[k] + ws[k + 1] /\ ws[k + 1] \in Nat
        BY <1>1, <1>10, <3>2
      <3>4. QED
        BY <3>2, <3>3
    <2>4. Nat \subseteq T
      BY <2>2, <2>3, SetInduction
    <2>5. QED
      BY <2>1, <2>4
  <1>12. Sums(P, ws)
    BY <1>1, <1>9, <1>10, <1>11 DEF Sums
  <1>13. Srv!Total(ws) = P[Len(ws)]
    BY <1>1, <1>7, <1>9
  <1>14. QED
    BY <1>12, <1>13

-----------------------------------------------------------------------------
(* The greatest common divisor                                             *)

Divides(d, a) == \E q \in Nat : a = q * d

\* Dividing by a positive number leaves a smaller one.
LEMMA Division ==
    ASSUME NEW a \in Nat, NEW b \in Nat, b > 0
    PROVE  /\ a \div b \in Nat /\ a % b \in Nat /\ a % b < b
           /\ a = b * (a \div b) + (a % b)
  <1>1. a \div b \in Int /\ a \div b >= 0
    OBVIOUS
  <1>2. a % b \in Int /\ a % b >= 0 /\ a % b < b
    OBVIOUS
  <1>3. a = b * (a \div b) + (a % b)
    OBVIOUS
  <1>4. QED
    BY <1>1, <1>2, <1>3

\* What divides a positive number is not larger.
LEMMA DividesBelow ==
    ASSUME NEW d \in Nat, NEW a \in Nat, a > 0, Divides(d, a)
    PROVE  d > 0 /\ d <= a
  <1>1. PICK q \in Nat : a = q * d
    BY DEF Divides
  <1>2. q # 0 /\ d # 0
    BY <1>1
  <1>3. q * d >= d
    BY <1>2
  <1>4. QED
    BY <1>1, <1>2, <1>3

\* Two numbers that divide each other are the same.
LEMMA DividesBoth ==
    ASSUME NEW a \in Nat, NEW b \in Nat, Divides(a, b), Divides(b, a)
    PROVE  a = b
  <1>1. CASE a = 0
    BY <1>1 DEF Divides
  <1>2. CASE b = 0
    BY <1>2 DEF Divides
  <1>3. CASE a > 0 /\ b > 0
    BY <1>3, DividesBelow
  <1>4. QED
    BY <1>1, <1>2, <1>3

\* Every number divides itself and 0.
LEMMA DividesTrivially ==
    ASSUME NEW a \in Nat
    PROVE  Divides(a, a) /\ Divides(a, 0)
  <1>1. a = 1 * a /\ 0 = 0 * a
    OBVIOUS
  <1>2. QED
    BY <1>1 DEF Divides

\* What divides a number divides what that number divides.
LEMMA DividesOn ==
    ASSUME NEW d \in Nat, NEW a \in Nat, NEW b \in Nat, Divides(d, a), Divides(a, b)
    PROVE  Divides(d, b)
  <1>1. PICK q \in Nat : a = q * d
    BY DEF Divides
  <1>2. PICK p \in Nat : b = p * a
    BY DEF Divides
  <1>3. b = (p * q) * d /\ p * q \in Nat
    BY <1>1, <1>2
  <1>4. QED
    BY <1>3 DEF Divides

\* One step of the algorithm keeps the common divisors.
LEMMA DividesRest ==
    ASSUME NEW a \in Nat, NEW b \in Nat, b > 0, NEW d \in Nat, Divides(d, b)
    PROVE  Divides(d, a) <=> Divides(d, a % b)
  <1>1. PICK t \in Nat, r \in Nat : r = a % b /\ a = b * t + r
    <2>1. PICK t \in Nat : t = a \div b
      BY Division
    <2>2. PICK r \in Nat : r = a % b
      BY Division
    <2>3. a = b * t + r
      BY <2>1, <2>2, Division
    <2>4. QED
      BY <2>2, <2>3
  <1>2. PICK p \in Nat : b = p * d
    BY DEF Divides
  <1>3. d > 0
    BY DividesBelow
  <1>4. ASSUME Divides(d, a) PROVE Divides(d, r)
    <2>1. PICK q \in Nat : a = q * d
      BY <1>4 DEF Divides
    <2>2. PICK k \in Int : k = q - p * t
      OBVIOUS
    <2>3. r = k * d
      <3>1. k * d = q * d - (p * t) * d
        BY <2>2
      <3>2. (p * t) * d = (p * d) * t
        OBVIOUS
      <3>3. a = (p * d) * t + r
        BY <1>1, <1>2
      <3>4. QED
        BY <2>1, <3>1, <3>2, <3>3
    <2>4. k >= 0
      BY <1>3, <2>3
    <2>5. QED
      BY <2>3, <2>4 DEF Divides
  <1>5. ASSUME Divides(d, r) PROVE Divides(d, a)
    <2>1. PICK k \in Nat : r = k * d
      BY <1>5 DEF Divides
    <2>2. PICK q \in Nat : q = p * t + k
      OBVIOUS
    <2>3. q * d = (p * d) * t + k * d
      BY <2>2
    <2>4. a = q * d
      BY <1>1, <1>2, <2>1, <2>3
    <2>5. QED
      BY <2>4 DEF Divides
  <1>6. QED
    BY <1>1, <1>4, <1>5

\* The greatest common divisors of two numbers: the one all others divide.
Gcds(a, b) ==
    {d \in Nat : /\ Divides(d, a) /\ Divides(d, b)
                 /\ \A e \in Nat : Divides(e, a) /\ Divides(e, b) => Divides(e, d)}

\* They are those of the next step of the algorithm.
LEMMA GcdsStep ==
    /\ \A a \in Nat : Gcds(a, 0) = {a}
    /\ \A a \in Nat, b \in Nat : b > 0 => Gcds(a, b) = Gcds(b, a % b)
  <1>1. ASSUME NEW a \in Nat PROVE Gcds(a, 0) = {a}
    <2>1. a \in Gcds(a, 0)
      BY DividesTrivially DEF Gcds
    <2>2. ASSUME NEW d \in Gcds(a, 0) PROVE d = a
      <3>1. d \in Nat /\ Divides(d, a) /\ Divides(a, d)
        BY DividesTrivially DEF Gcds
      <3>2. QED
        BY <3>1, DividesBoth
    <2>3. QED
      BY <2>1, <2>2
  <1>2. ASSUME NEW a \in Nat, NEW b \in Nat, b > 0 PROVE Gcds(a, b) = Gcds(b, a % b)
    <2>1. \A d \in Nat : Divides(d, a) /\ Divides(d, b) <=> Divides(d, b) /\ Divides(d, a % b)
      BY <1>2, DividesRest
    <2>2. QED
      BY <2>1 DEF Gcds
  <1>3. QED
    BY <1>1, <1>2

\* There is a function that does what localGCD does.
LEMMA GcdExists ==
    \E g : g = [x \in Nat \X Nat |-> IF x[2] = 0 THEN x[1] ELSE g[<<x[2], x[1] % x[2]>>]]
  <1>1. PICK g : g = [x \in Nat \X Nat |-> CHOOSE d : d \in Gcds(x[1], x[2])]
    OBVIOUS
  <1>2. ASSUME NEW x \in Nat \X Nat
        PROVE  g[x] = IF x[2] = 0 THEN x[1] ELSE g[<<x[2], x[1] % x[2]>>]
    <2>1. PICK a \in Nat, b \in Nat : x = <<a, b>> /\ x[1] = a /\ x[2] = b
      OBVIOUS
    <2>2. g[x] = CHOOSE d : d \in Gcds(a, b)
      BY <1>1, <2>1
    <2>3. CASE b = 0
      <3>1. Gcds(a, b) = {a}
        BY <2>3, GcdsStep
      <3>2. QED
        BY <2>1, <2>2, <2>3, <3>1
    <2>4. CASE b > 0
      <3>1. PICK r \in Nat : r = a % b
        BY <2>4, Division
      <3>2. Gcds(a, b) = Gcds(b, r)
        BY <2>4, <3>1, GcdsStep
      <3>3. g[<<b, r>>] = CHOOSE d : d \in Gcds(b, r)
        <4>1. <<b, r>> \in Nat \X Nat
          OBVIOUS
        <4>2. QED
          BY <1>1, <4>1
      <3>4. QED
        BY <2>1, <2>2, <2>4, <3>1, <3>2, <3>3
    <2>5. QED
      BY <2>3, <2>4
  <1>3. PICK h : h = [x \in Nat \X Nat |-> IF x[2] = 0 THEN x[1] ELSE g[<<x[2], x[1] % x[2]>>]]
    OBVIOUS
  <1>4. \A x \in Nat \X Nat : g[x] = h[x]
    BY <1>2, <1>3
  <1>5. g = h
    BY <1>1, <1>3, <1>4
  <1>6. QED
    BY <1>3, <1>5

\* localGCD returns a greatest common divisor.
LEMMA LocalGCDIs ==
    ASSUME NEW x \in Nat, NEW y \in Nat
    PROVE  Srv!LocalGCD(x, y) \in Nat /\ Srv!LocalGCD(x, y) \in Gcds(x, y)
  <1>1. PICK g : /\ g = [z \in Nat \X Nat |-> IF z[2] = 0 THEN z[1] ELSE g[<<z[2], z[1] % z[2]>>]]
                 /\ Srv!LocalGCD(x, y) = g[<<x, y>>]
    BY GcdExists, Zenon DEF Srv!LocalGCD
  <1>2. PICK T : T = {n \in Nat : \A b \in 0..n : \A a \in Nat : g[<<a, b>>] \in Gcds(a, b)}
    OBVIOUS
  <1>3. 0 \in T
    <2>1. ASSUME NEW a \in Nat PROVE g[<<a, 0>>] \in Gcds(a, 0)
      <3>1. <<a, 0>> \in Nat \X Nat
        OBVIOUS
      <3>2. g[<<a, 0>>] = a
        BY <1>1, <3>1
      <3>3. QED
        BY <3>2, GcdsStep
    <2>2. \A b \in 0..0 : b = 0
      OBVIOUS
    <2>3. QED
      BY <1>2, <2>1, <2>2
  <1>4. ASSUME NEW n \in Nat, n \in T PROVE n + 1 \in T
    <2>1. ASSUME NEW b \in 0..n + 1, NEW a \in Nat PROVE g[<<a, b>>] \in Gcds(a, b)
      <3>1. CASE b \in 0..n
        BY <1>2, <1>4, <3>1
      <3>2. CASE b = n + 1
        <4>1. b \in Nat /\ b > 0
          BY <3>2
        <4>2. PICK r \in Nat : r = a % b /\ r < b
          BY <4>1, Division
        <4>3. r \in 0..n
          BY <3>2, <4>2
        <4>4. g[<<b, r>>] \in Gcds(b, r)
          BY <1>2, <1>4, <4>1, <4>3
        <4>5. g[<<a, b>>] = g[<<b, r>>]
          <5>1. <<a, b>> \in Nat \X Nat
            BY <4>1
          <5>2. QED
            BY <1>1, <4>1, <4>2, <5>1
        <4>6. Gcds(a, b) = Gcds(b, r)
          BY <4>1, <4>2, GcdsStep
        <4>7. QED
          BY <4>4, <4>5, <4>6
      <3>3. QED
        BY <3>1, <3>2
    <2>2. QED
      BY <1>2, <2>1
  <1>5. Nat \subseteq T
    BY <1>3, <1>4, SetInduction
  <1>6. g[<<x, y>>] \in Gcds(x, y)
    <2>1. y \in T /\ y \in 0..y
      BY <1>5
    <2>2. QED
      BY <1>2, <2>1
  <1>7. QED
    BY <1>1, <1>6 DEF Gcds

\* The greatest common divisor of the first k elements of ws, for every k.
Divisors(Q, ws) ==
    /\ Q \in [0..Len(ws) -> Nat] /\ Q[0] = 0
    /\ \A k \in 1..Len(ws) : Q[k] = Srv!LocalGCD(Q[k - 1], ws[k])

\* Gcd takes them from the first to the last.
LEMMA GcdFolds ==
    ASSUME NEW ws \in Seq(Nat)
    PROVE  \E Q : Divisors(Q, ws) /\ Srv!Gcd(ws) = Q[Len(ws)]
  <1>1. PICK n \in Nat : n = Len(ws) /\ DOMAIN ws = 1..n
    OBVIOUS
  <1>2. PICK G : G = [x \in Nat \X (1..n) |-> Srv!LocalGCD(x[1], ws[x[2]])]
    OBVIOUS
  <1>3. ASSUME NEW a \in Nat, NEW i \in 1..n
        PROVE  ws[i] \in Nat /\ G[<<a, i>>] = Srv!LocalGCD(a, ws[i]) /\ G[<<a, i>>] \in Nat
    <2>1. ws[i] \in Nat
      BY <1>1
    <2>2. <<a, i>> \in Nat \X (1..n) /\ <<a, i>>[1] = a /\ <<a, i>>[2] = i
      OBVIOUS
    <2>3. G[<<a, i>>] = Srv!LocalGCD(a, ws[i])
      BY <1>2, <2>2
    <2>4. QED
      BY <2>1, <2>3, LocalGCDIs
  <1>4. G \in [Nat \X (1..n) -> Nat]
    <2>1. ASSUME NEW x \in Nat \X (1..n) PROVE G[x] \in Nat
      <3>1. PICK a \in Nat, i \in 1..n : x = <<a, i>>
        OBVIOUS
      <3>2. QED
        BY <1>3, <3>1
    <2>2. QED
      BY <1>2, <2>1
  <1>5. PICK it : Folds(it, Nat, 0, G, n)
    BY <1>4, FoldExists
  <1>6. it = [s \in SUBSET (1..n) |-> IF s = {} THEN 0 ELSE Srv!LocalGCD(it[s \ {Srv!Max(s)}], ws[Srv!Max(s)])]
    <2>1. ASSUME NEW s \in SUBSET (1..n), s # {}
          PROVE  it[s] = Srv!LocalGCD(it[s \ {Srv!Max(s)}], ws[Srv!Max(s)])
      <3>1. Srv!Max(s) \in 1..n
        <4>1. s \in SUBSET (0..n)
          OBVIOUS
        <4>2. QED
          BY <2>1, <4>1, MaxIn
      <3>2. s \ {Srv!Max(s)} \in SUBSET (1..n)
        OBVIOUS
      <3>3. it[s \ {Srv!Max(s)}] \in Nat
        BY <1>5, <3>2 DEF Folds
      <3>4. it[s] = G[<<it[s \ {Srv!Max(s)}], Srv!Max(s)>>]
        BY <1>5, <2>1 DEF Folds
      <3>5. QED
        BY <1>3, <3>1, <3>3, <3>4
    <2>2. PICK h : h = [s \in SUBSET (1..n) |->
                          IF s = {} THEN 0 ELSE Srv!LocalGCD(it[s \ {Srv!Max(s)}], ws[Srv!Max(s)])]
      OBVIOUS
    <2>3. \A s \in SUBSET (1..n) : it[s] = h[s]
      <3>1. \A s \in SUBSET (1..n) : s = {} => it[s] = 0
        BY <1>5 DEF Folds
      <3>2. QED
        BY <2>1, <2>2, <3>1
    <2>4. it = h
      <3>1. it \in [SUBSET (1..n) -> Nat]
        BY <1>5 DEF Folds
      <3>2. QED
        BY <2>2, <2>3, <3>1
    <2>5. QED
      BY <2>2, <2>4
  <1>7. PICK f : /\ f = [s \in SUBSET (1..n) |-> IF s = {} THEN 0 ELSE Srv!LocalGCD(f[s \ {Srv!Max(s)}], ws[Srv!Max(s)])]
                 /\ Srv!Gcd(ws) = f[1..n]
    <2>1. \E f : f = [s \in SUBSET (DOMAIN ws) |->
                        IF s = {} THEN 0 ELSE Srv!LocalGCD(f[s \ {Srv!Max(s)}], ws[Srv!Max(s)])]
      BY <1>1, <1>6
    <2>2. \E f : /\ f = [s \in SUBSET (DOMAIN ws) |->
                           IF s = {} THEN 0 ELSE Srv!LocalGCD(f[s \ {Srv!Max(s)}], ws[Srv!Max(s)])]
                 /\ Srv!Gcd(ws) = f[DOMAIN ws]
      BY <2>1, Zenon DEF Srv!Gcd, Srv!FoldLeft, Srv!MapThenFoldSet
    <2>3. QED
      BY <1>1, <2>2
  <1>8. f[{}] = 0 /\ \A k \in 1..n : f[1..k] = Srv!LocalGCD(f[1..k - 1], ws[k])
    <2>1. {} \in SUBSET (1..n)
      OBVIOUS
    <2>2. f[{}] = 0
      BY <1>7, <2>1
    <2>3. ASSUME NEW k \in 1..n PROVE f[1..k] = Srv!LocalGCD(f[1..k - 1], ws[k])
      <3>1. 1..k \in SUBSET (1..n) /\ k \in Nat /\ k # 0
        OBVIOUS
      <3>2. Srv!Max(1..k) = k /\ (1..k) \ {k} = 1..k - 1 /\ 1..k # {}
        BY <3>1, Intervals
      <3>3. f[1..k] = IF 1..k = {} THEN 0 ELSE Srv!LocalGCD(f[(1..k) \ {Srv!Max(1..k)}], ws[Srv!Max(1..k)])
        BY <1>7, <3>1
      <3>4. QED
        BY <3>2, <3>3
    <2>4. QED
      BY <2>2, <2>3
  <1>9. PICK Q : Q = [k \in 0..n |-> f[1..k]]
    OBVIOUS
  <1>10. Q[0] = 0 /\ \A k \in 1..n : Q[k] = Srv!LocalGCD(Q[k - 1], ws[k])
    <2>1. 1..0 = {} /\ 0 \in 0..n
      OBVIOUS
    <2>2. Q[0] = 0
      BY <1>8, <1>9, <2>1
    <2>3. ASSUME NEW k \in 1..n PROVE Q[k] = Srv!LocalGCD(Q[k - 1], ws[k])
      <3>1. k \in 0..n /\ k - 1 \in 0..n
        OBVIOUS
      <3>2. Q[k] = f[1..k] /\ Q[k - 1] = f[1..k - 1]
        BY <1>9, <3>1
      <3>3. QED
        BY <1>8, <3>2
    <2>4. QED
      BY <2>2, <2>3
  <1>11. \A k \in 0..n : Q[k] \in Nat
    <2>1. PICK T : T = {k \in Nat : k <= n => Q[k] \in Nat}
      OBVIOUS
    <2>2. 0 \in T
      BY <1>10, <2>1
    <2>3. ASSUME NEW k \in Nat, k \in T PROVE k + 1 \in T
      <3>1. SUFFICES ASSUME k + 1 <= n PROVE Q[k + 1] \in Nat
        BY <2>1
      <3>2. k + 1 \in 1..n /\ Q[k] \in Nat /\ (k + 1) - 1 = k
        BY <2>1, <2>3, <3>1
      <3>3. Q[k + 1] = Srv!LocalGCD(Q[k], ws[k + 1]) /\ ws[k + 1] \in Nat
        BY <1>1, <1>10, <3>2
      <3>4. QED
        BY <3>2, <3>3, LocalGCDIs
    <2>4. Nat \subseteq T
      BY <2>2, <2>3, SetInduction
    <2>5. QED
      BY <2>1, <2>4
  <1>12. Divisors(Q, ws)
    BY <1>1, <1>9, <1>10, <1>11 DEF Divisors
  <1>13. Srv!Gcd(ws) = Q[Len(ws)]
    BY <1>1, <1>7, <1>9
  <1>14. QED
    BY <1>12, <1>13

\* e divides each of the first k elements of ws.
DividesFirst(e, ws, k) == \A i \in 1..k : Divides(e, ws[i])

\* What Gcd returns divides every element, and every number that divides them
\* all divides it.
LEMMA GcdIs ==
    ASSUME NEW ws \in Seq(Nat)
    PROVE  /\ Srv!Gcd(ws) \in Nat
           /\ DividesFirst(Srv!Gcd(ws), ws, Len(ws))
           /\ \A e \in Nat : DividesFirst(e, ws, Len(ws)) => Divides(e, Srv!Gcd(ws))
  <1>1. PICK n \in Nat : n = Len(ws) /\ DOMAIN ws = 1..n
    OBVIOUS
  <1>2. PICK Q : Divisors(Q, ws) /\ Srv!Gcd(ws) = Q[Len(ws)]
    BY GcdFolds
  <1>3. /\ Q[0] = 0
        /\ \A k \in 0..n : Q[k] \in Nat
        /\ \A k \in 1..n : Q[k] = Srv!LocalGCD(Q[k - 1], ws[k]) /\ ws[k] \in Nat
    <2>1. Q \in [0..n -> Nat] /\ Q[0] = 0
      BY <1>1, <1>2 DEF Divisors
    <2>2. \A k \in 1..n : Q[k] = Srv!LocalGCD(Q[k - 1], ws[k])
      BY <1>1, <1>2 DEF Divisors
    <2>3. \A k \in 1..n : ws[k] \in Nat
      BY <1>1
    <2>4. QED
      BY <2>1, <2>2, <2>3
  <1>4. PICK T : T = {k \in Nat : k <= n =>
                        /\ DividesFirst(Q[k], ws, k)
                        /\ \A e \in Nat : DividesFirst(e, ws, k) => Divides(e, Q[k])}
    OBVIOUS
  <1>5. 0 \in T
    <2>1. DividesFirst(Q[0], ws, 0)
      BY DEF DividesFirst
    <2>2. \A e \in Nat : Divides(e, Q[0])
      BY <1>3, DividesTrivially
    <2>3. QED
      BY <1>4, <2>1, <2>2
  <1>6. ASSUME NEW k \in Nat, k \in T PROVE k + 1 \in T
    <2>1. SUFFICES ASSUME k + 1 <= n
                   PROVE  /\ DividesFirst(Q[k + 1], ws, k + 1)
                          /\ \A e \in Nat : DividesFirst(e, ws, k + 1) => Divides(e, Q[k + 1])
      BY <1>4
    <2>2. PICK q \in Nat, w \in Nat, d \in Nat : q = Q[k] /\ w = ws[k + 1] /\ d = Q[k + 1]
      BY <1>3, <2>1
    <2>3. d = Srv!LocalGCD(q, w)
      <3>1. k + 1 \in 1..n /\ (k + 1) - 1 = k
        BY <2>1
      <3>2. QED
        BY <1>3, <2>2, <3>1
    <2>4. d \in Gcds(q, w)
      BY <2>3, LocalGCDIs
    <2>5. /\ DividesFirst(q, ws, k)
          /\ \A e \in Nat : DividesFirst(e, ws, k) => Divides(e, q)
      <3>1. k <= n
        BY <2>1
      <3>2. QED
        BY <1>4, <1>6, <2>2, <3>1
    <2>6. DividesFirst(d, ws, k + 1)
      <3>1. ASSUME NEW i \in 1..k + 1 PROVE Divides(d, ws[i])
        <4>1. CASE i = k + 1
          BY <2>2, <2>4, <4>1 DEF Gcds
        <4>2. CASE i \in 1..k
          <5>1. Divides(q, ws[i]) /\ ws[i] \in Nat
            BY <1>3, <2>1, <2>5, <4>2 DEF DividesFirst
          <5>2. Divides(d, q)
            BY <2>4 DEF Gcds
          <5>3. QED
            BY <5>1, <5>2, DividesOn
        <4>3. QED
          BY <4>1, <4>2
      <3>2. QED
        BY <3>1 DEF DividesFirst
    <2>7. ASSUME NEW e \in Nat, DividesFirst(e, ws, k + 1) PROVE Divides(e, d)
      <3>1. DividesFirst(e, ws, k) /\ Divides(e, w)
        BY <2>2, <2>7 DEF DividesFirst
      <3>2. Divides(e, q)
        BY <2>5, <3>1
      <3>3. QED
        BY <2>4, <3>1, <3>2 DEF Gcds
    <2>8. QED
      BY <2>2, <2>6, <2>7
  <1>7. Nat \subseteq T
    BY <1>5, <1>6, SetInduction
  <1>8. QED
    <2>1. n \in T /\ n <= n /\ Q[n] \in Nat
      BY <1>3, <1>7
    <2>2. QED
      BY <1>1, <1>2, <1>4, <2>1

-----------------------------------------------------------------------------
(* The numbers of instances                                                *)

\* The sums of a list grow.
LEMMA SumsGrow ==
    ASSUME NEW ws \in Seq(Nat), NEW P, Sums(P, ws)
    PROVE  /\ P[Len(ws)] \in Nat
           /\ \A k \in 0..Len(ws) : \A j \in 0..k : P[j] <= P[k]
  <1>1. PICK n \in Nat : n = Len(ws) /\ DOMAIN ws = 1..n
    OBVIOUS
  <1>2. P \in [0..n -> Nat] /\ \A k \in 1..n : P[k] = P[k - 1] + ws[k]
    BY <1>1 DEF Sums
  <1>3. \A k \in 1..n : ws[k] \in Nat
    BY <1>1
  <1>4. PICK T : T = {m \in Nat : m <= n => \A k \in 0..m : P[k] <= P[m]}
    OBVIOUS
  <1>5. 0 \in T
    <2>1. \A k \in 0..0 : k = 0
      OBVIOUS
    <2>2. P[0] <= P[0]
      BY <1>2
    <2>3. QED
      BY <1>4, <2>1, <2>2
  <1>6. ASSUME NEW m \in Nat, m \in T PROVE m + 1 \in T
    <2>1. SUFFICES ASSUME m + 1 <= n, NEW k \in 0..m + 1 PROVE P[k] <= P[m + 1]
      BY <1>4
    <2>2. m + 1 \in 1..n /\ m \in 0..n /\ m + 1 \in 0..n /\ (m + 1) - 1 = m
      BY <2>1
    <2>3. P[m + 1] = P[m] + ws[m + 1] /\ ws[m + 1] \in Nat /\ P[m] \in Nat
      BY <1>2, <1>3, <2>2
    <2>4. CASE k = m + 1
      BY <1>2, <2>2, <2>4
    <2>5. CASE k \in 0..m
      <3>1. P[k] <= P[m] /\ P[k] \in Nat
        BY <1>2, <1>4, <1>6, <2>1, <2>5
      <3>2. QED
        BY <2>3, <3>1
    <2>6. QED
      BY <2>4, <2>5
  <1>7. Nat \subseteq T
    BY <1>5, <1>6, SetInduction
  <1>8. \A k \in 0..n : P[k] \in Nat /\ \A j \in 0..k : P[j] <= P[k]
    <2>1. \A k \in 0..n : k \in T /\ k <= n
      BY <1>7
    <2>2. QED
      BY <1>2, <1>4, <2>1
  <1>9. P[n] \in Nat
    BY <1>2
  <1>10. QED
    BY <1>1, <1>8, <1>9

\* The sums of two lists, when c times an element of the one is never more than
\* e times that of the other.
LEMMA SumsCompare ==
    ASSUME NEW n \in Nat, NEW us \in Seq(Nat), NEW ws \in Seq(Nat), Len(us) = n, Len(ws) = n,
           NEW P, Sums(P, us), NEW Q, Sums(Q, ws), NEW c \in Nat, NEW e \in Nat,
           \A i \in 1..n : c * us[i] <= e * ws[i]
    PROVE  P[n] \in Nat /\ Q[n] \in Nat /\ c * P[n] <= e * Q[n]
  <1>1. /\ P \in [0..n -> Nat] /\ P[0] = 0
        /\ Q \in [0..n -> Nat] /\ Q[0] = 0
    BY DEF Sums
  <1>2. \A k \in 1..n : P[k] = P[k - 1] + us[k]
    BY DEF Sums
  <1>3. \A k \in 1..n : Q[k] = Q[k - 1] + ws[k]
    BY DEF Sums
  <1>4. \A k \in 1..n : us[k] \in Nat
    OBVIOUS
  <1>5. \A k \in 1..n : ws[k] \in Nat
    OBVIOUS
  <1>6. PICK T : T = {m \in Nat : m <= n => c * P[m] <= e * Q[m]}
    OBVIOUS
  <1>7. 0 \in T
    BY <1>1, <1>6
  <1>8. ASSUME NEW m \in Nat, m \in T PROVE m + 1 \in T
    <2>1. SUFFICES ASSUME m + 1 <= n PROVE c * P[m + 1] <= e * Q[m + 1]
      BY <1>6
    <2>2. m + 1 \in 1..n /\ m \in 0..n /\ (m + 1) - 1 = m
      BY <2>1
    <2>3. PICK u \in Nat, w \in Nat, p \in Nat, q \in Nat :
             u = us[m + 1] /\ w = ws[m + 1] /\ p = P[m] /\ q = Q[m]
      BY <1>1, <1>4, <1>5, <2>2
    <2>4. P[m + 1] = p + u /\ Q[m + 1] = q + w
      BY <1>2, <1>3, <2>2, <2>3
    <2>5. c * u <= e * w
      BY <2>2, <2>3
    <2>6. c * p <= e * q
      BY <1>6, <1>8, <2>1, <2>3
    <2>7. c * (p + u) = c * p + c * u /\ e * (q + w) = e * q + e * w
      OBVIOUS
    <2>8. c * p \in Nat /\ c * u \in Nat /\ e * q \in Nat /\ e * w \in Nat
      OBVIOUS
    <2>9. QED
      BY <2>4, <2>5, <2>6, <2>7, <2>8
  <1>9. Nat \subseteq T
    BY <1>7, <1>8, SetInduction
  <1>10. n \in T /\ n <= n /\ n \in 0..n
    BY <1>9
  <1>11. QED
    BY <1>1, <1>6, <1>10


\* Products with the same number keep the order.
LEMMA Products ==
    ASSUME NEW a \in Nat, NEW b \in Nat, NEW c \in Nat, a <= b
    PROVE  c * a \in Nat /\ c * b \in Nat /\ c * a <= c * b
  <1>1. PICK k \in Nat : b = a + k
    <2>1. b - a \in Nat /\ b = a + (b - a)
      OBVIOUS
    <2>2. QED
      BY <2>1
  <1>2. c * b = c * a + c * k /\ c * a \in Nat /\ c * k \in Nat
    BY <1>1
  <1>3. QED
    BY <1>2

\* A division is exact when it divides a multiple, and keeps the order.
LEMMA DivExact ==
    ASSUME NEW q \in Nat, NEW d \in Nat, d > 0, NEW a \in Nat, a = q * d
    PROVE  a \div d = q
  <1>1. PICK t \in Nat, r \in Nat : t = a \div d /\ r < d /\ a = d * t + r
    BY Division
  <1>2. CASE t + 1 <= q
    <2>1. d * (t + 1) <= d * q
      BY <1>2, Products
    <2>2. d * (t + 1) = d * t + d /\ d * q = q * d
      OBVIOUS
    <2>3. QED
      BY <1>1, <2>1, <2>2
  <1>3. CASE q + 1 <= t
    <2>1. d * (q + 1) <= d * t
      BY <1>3, Products
    <2>2. d * (q + 1) = d * q + d /\ d * q = q * d
      OBVIOUS
    <2>3. QED
      BY <1>1, <2>1, <2>2
  <1>4. QED
    BY <1>1, <1>2, <1>3

\* A larger number divided is no smaller, and at least 1 from the divisor on.
LEMMA DivGrows ==
    ASSUME NEW a \in Nat, NEW b \in Nat, NEW d \in Nat, d > 0
    PROVE  /\ a <= b => a \div d <= b \div d
           /\ d <= b => b \div d > 0
           /\ d * (a \div d) <= a
  <1>1. PICK t \in Nat, r \in Nat : t = a \div d /\ r < d /\ a = d * t + r
    BY Division
  <1>2. PICK u \in Nat, s \in Nat : u = b \div d /\ s < d /\ b = d * u + s
    BY Division
  <1>3. ASSUME a <= b PROVE t <= u
    <2>1. SUFFICES ASSUME u + 1 <= t PROVE FALSE
      OBVIOUS
    <2>2. d * (u + 1) <= d * t
      BY <2>1, Products
    <2>3. d * (u + 1) = d * u + d
      OBVIOUS
    <2>4. QED
      BY <1>1, <1>2, <1>3, <2>2, <2>3
  <1>4. ASSUME d <= b PROVE u > 0
    <2>1. SUFFICES ASSUME u = 0 PROVE FALSE
      OBVIOUS
    <2>2. d * u = 0
      BY <2>1
    <2>3. QED
      BY <1>2, <1>4, <2>2
  <1>5. d * t <= a
    BY <1>1
  <1>6. QED
    BY <1>1, <1>2, <1>3, <1>4, <1>5

\* What divides a product's factor times the other divides the factor.
LEMMA Cancels ==
    ASSUME NEW d \in Nat, d > 0, NEW e \in Nat, NEW k \in Nat, d = k * (e * d)
    PROVE  e = 1
  <1>1. k * (e * d) = (k * e) * d
    OBVIOUS
  <1>2. PICK x \in Nat : x = k * e
    OBVIOUS
  <1>3. x = 1
    <2>1. CASE x = 0
      BY <1>1, <1>2, <2>1
    <2>2. CASE x >= 2
      <3>1. d * 2 <= d * x
        BY <2>2, Products
      <3>2. QED
        BY <1>1, <1>2, <3>1
    <2>3. QED
      BY <2>1, <2>2
  <1>4. e # 0 /\ k # 0
    BY <1>2, <1>3
  <1>5. CASE e >= 2
    <2>1. k * 2 <= k * e
      BY <1>5, Products
    <2>2. QED
      BY <1>2, <1>3, <1>4, <2>1
  <1>6. QED
    BY <1>4, <1>5

\* What a weight is scaled to.
LEMMA ShareIs ==
    ASSUME NEW v \in Nat, NEW w \in Nat, NEW S \in Nat, NEW L \in Nat, L > 0
    PROVE  /\ Srv!Share(w, S, L) \in Nat
           /\ w <= v => Srv!Share(w, S, L) <= Srv!Share(v, S, L)
           /\ L <= S * w => Srv!Share(w, S, L) > 0
           /\ L * Srv!Share(w, S, L) <= S * w
  <1>1. PICK x \in Nat, y \in Nat : x = S * v /\ y = S * w /\ x = v * S /\ y = w * S
    <2>1. S * v \in Nat /\ S * w \in Nat /\ S * v = v * S /\ S * w = w * S
      OBVIOUS
    <2>2. QED
      BY <2>1
  <1>2. Srv!Share(w, S, L) = y \div L /\ Srv!Share(v, S, L) = x \div L
    BY <1>1 DEF Srv!Share
  <1>3. w <= v => y <= x
    BY <1>1, Products
  <1>4. y \div L \in Nat
    BY Division
  <1>5. y <= x => y \div L <= x \div L
    BY DivGrows
  <1>6. (L <= y => y \div L > 0) /\ L * (y \div L) <= y
    BY DivGrows
  <1>7. QED
    BY <1>1, <1>2, <1>3, <1>4, <1>5, <1>6

\* The list tmp is ws scaled down, and S and L what it is scaled by.
Scaled(ws, limit, n, S, L, tmp) ==
    /\ n \in Nat /\ n = Len(ws) /\ DOMAIN ws = 1..n
    /\ S \in Nat /\ S >= n /\ S >= limit /\ S = IF n > limit THEN n ELSE limit
    /\ L \in Nat /\ L = Srv!Total(ws)
    /\ L <= S => \A i \in 1..n : tmp[i] = ws[i]
    /\ L > S => \A i \in 1..n : tmp[i] = Srv!Share(ws[i], S, L)
    /\ tmp \in Seq(Nat) /\ Len(tmp) = n
    /\ \A i \in 1..n : ws[i] \in Nat

\* It is what Normalize returns.
LEMMA NormalizeIs ==
    ASSUME NEW ws \in Seq(Nat), NEW limit \in Nat
    PROVE  \E n, S, L : Scaled(ws, limit, n, S, L, Srv!Normalize(ws, limit))
  <1>1. PICK n \in Nat : n = Len(ws) /\ DOMAIN ws = 1..n
    OBVIOUS
  <1>2. PICK S \in Nat : /\ S = Srv!ScaleOf(ws, limit)
                         /\ S >= n /\ S >= limit
                         /\ S = IF n > limit THEN n ELSE limit
    BY <1>1 DEF Srv!ScaleOf
  <1>3. PICK L \in Nat : L = Srv!Total(ws)
    BY TotalIsSum, SumsGrow
  <1>4. PICK tmp : tmp = Srv!Normalize(ws, limit)
    OBVIOUS
  <1>5. \A i \in 1..n : ws[i] \in Nat
    BY <1>1
  <1>6. L <= S => tmp = ws
    BY <1>2, <1>3, <1>4 DEF Srv!Normalize
  <1>7. ASSUME L > S
        PROVE  tmp \in Seq(Nat) /\ Len(tmp) = n /\ \A i \in 1..n : tmp[i] = Srv!Share(ws[i], S, L)
    <2>1. ~(L <= S) /\ L > 0
      BY <1>7
    <2>2. tmp = [i \in 1..n |-> Srv!Share(ws[i], S, L)]
      BY <1>1, <1>2, <1>3, <1>4, <2>1, Zenon DEF Srv!Normalize
    <2>3. ASSUME NEW i \in 1..n PROVE tmp[i] = Srv!Share(ws[i], S, L) /\ tmp[i] \in Nat
      <3>1. PICK w \in Nat : w = ws[i]
        BY <1>5
      <3>2. tmp[i] = Srv!Share(w, S, L)
        BY <2>2, <3>1
      <3>3. Srv!Share(w, S, L) \in Nat
        BY <2>1, ShareIs
      <3>4. QED
        BY <3>1, <3>2, <3>3
    <2>4. tmp \in Seq(Nat) /\ Len(tmp) = n
      BY <2>2, <2>3
    <2>5. QED
      BY <2>3, <2>4
  <1>8. tmp \in Seq(Nat) /\ Len(tmp) = n
    BY <1>1, <1>6, <1>7
  <1>9. Scaled(ws, limit, n, S, L, tmp)
    <2>1. L <= S => \A i \in 1..n : tmp[i] = ws[i]
      BY <1>6
    <2>2. L > S => \A i \in 1..n : tmp[i] = Srv!Share(ws[i], S, L)
      BY <1>7
    <2>3. QED
      BY <1>1, <1>2, <1>3, <1>5, <1>8, <2>1, <2>2 DEF Scaled
  <1>10. QED
    BY <1>4, <1>9

\* The list times is tmp divided by g, and nothing above 1 divides all of times.
Divided(tmp, times, n, g) ==
    /\ g \in Nat /\ g > 0
    /\ times \in Seq(Nat) /\ Len(times) = n
    /\ \A i \in 1..n : times[i] \in Nat /\ tmp[i] = g * times[i]
    /\ \A e \in Nat : DividesFirst(e, times, n) => (e = 1 \/ \A i \in 1..n : times[i] = 0)

\* It is what Compact returns.
LEMMA CompactIs ==
    ASSUME NEW ws \in Seq(Nat), NEW limit \in Nat, NEW n, NEW S, NEW L, NEW tmp,
           tmp = Srv!Normalize(ws, limit), Scaled(ws, limit, n, S, L, tmp)
    PROVE  \E g : Divided(tmp, Srv!Compact(ws, limit), n, g)
  <1>1. n \in Nat /\ tmp \in Seq(Nat) /\ Len(tmp) = n
    BY DEF Scaled
  <1>2. DOMAIN tmp = 1..n /\ \A i \in 1..n : tmp[i] \in Nat
    BY <1>1
  <1>3. PICK d \in Nat : d = Srv!Gcd(tmp)
    BY <1>1, GcdIs
  <1>4. \A i \in 1..n : Divides(d, tmp[i])
    BY <1>1, <1>3, GcdIs DEF DividesFirst
  <1>5. \A e \in Nat : DividesFirst(e, tmp, n) => Divides(e, d)
    BY <1>1, <1>3, GcdIs
  <1>6. PICK times : times = Srv!Compact(ws, limit)
    OBVIOUS
  <1>7. times = IF d < 2 THEN tmp ELSE [i \in DOMAIN tmp |-> tmp[i] \div d]
    BY <1>3, <1>6, Zenon DEF Srv!Compact
  <1>8. CASE d < 2
    <2>1. times = tmp
      BY <1>7, <1>8
    <2>2. \A i \in 1..n : times[i] \in Nat /\ tmp[i] = 1 * times[i]
      BY <1>2, <2>1
    <2>3. ASSUME NEW e \in Nat, DividesFirst(e, times, n)
          PROVE  e = 1 \/ \A i \in 1..n : times[i] = 0
      <3>1. CASE d = 0
        <4>1. ASSUME NEW i \in 1..n PROVE tmp[i] = 0
          <5>1. PICK q \in Nat : tmp[i] = q * 0
            BY <1>4, <3>1 DEF Divides
          <5>2. QED
            BY <5>1
        <4>2. QED
          BY <2>1, <4>1
      <3>2. CASE d = 1
        <4>1. Divides(e, 1)
          BY <1>5, <2>1, <2>3, <3>2
        <4>2. PICK k \in Nat : 1 = k * e
          BY <4>1 DEF Divides
        <4>3. k * (e * 1) = k * e
          OBVIOUS
        <4>4. 1 = k * (e * 1)
          BY <4>2, <4>3
        <4>5. QED
          BY <4>4, Cancels
      <3>3. QED
        BY <1>8, <3>1, <3>2
    <2>4. Divided(tmp, times, n, 1)
      BY <1>1, <2>1, <2>2, <2>3 DEF Divided
    <2>5. QED
      BY <1>6, <2>4
  <1>9. CASE d >= 2
    <2>1. times = [i \in 1..n |-> tmp[i] \div d]
      BY <1>2, <1>7, <1>9
    <2>2. ASSUME NEW i \in 1..n PROVE times[i] \in Nat /\ tmp[i] = d * times[i]
      <3>1. PICK a \in Nat : a = tmp[i]
        BY <1>2
      <3>2. PICK q \in Nat : a = q * d
        BY <1>4, <3>1 DEF Divides
      <3>3. a \div d = q
        BY <1>9, <3>2, DivExact
      <3>4. times[i] = q /\ q * d = d * q
        BY <2>1, <3>1, <3>3
      <3>5. QED
        BY <3>1, <3>2, <3>4
    <2>3. times \in Seq(Nat) /\ Len(times) = n
      BY <1>1, <2>1, <2>2
    <2>4. ASSUME NEW e \in Nat, DividesFirst(e, times, n) PROVE e = 1
      <3>1. PICK ed \in Nat : ed = e * d
        OBVIOUS
      <3>2. ASSUME NEW i \in 1..n PROVE Divides(ed, tmp[i])
        <4>1. PICK q \in Nat : times[i] = q * e
          BY <2>4 DEF DividesFirst, Divides
        <4>2. d * (q * e) = q * (e * d)
          OBVIOUS
        <4>3. tmp[i] = q * ed
          BY <2>2, <3>1, <4>1, <4>2
        <4>4. QED
          BY <4>3 DEF Divides
      <3>3. Divides(ed, d)
        BY <1>5, <3>2 DEF DividesFirst
      <3>4. PICK k \in Nat : d = k * ed
        BY <3>3 DEF Divides
      <3>5. d = k * (e * d)
        BY <3>1, <3>4
      <3>6. QED
        BY <1>9, <3>5, Cancels
    <2>5. d \in Nat /\ d > 0
      BY <1>9
    <2>6. Divided(tmp, times, n, d)
      BY <2>2, <2>3, <2>4, <2>5 DEF Divided
    <2>7. QED
      BY <1>6, <2>6
  <1>10. QED
    BY <1>3, <1>8, <1>9

\* Every list of weights is scaled and divided.
LEMMA SharesExist ==
    ASSUME NEW ws \in Seq(Nat), NEW limit \in Nat
    PROVE  \E n, S, L, tmp, g : /\ Scaled(ws, limit, n, S, L, tmp)
                                /\ Divided(tmp, Srv!Compact(ws, limit), n, g)
  <1>1. PICK tmp : tmp = Srv!Normalize(ws, limit)
    OBVIOUS
  <1>2. PICK n, S, L : Scaled(ws, limit, n, S, L, tmp)
    BY <1>1, NormalizeIs
  <1>3. PICK g : Divided(tmp, Srv!Compact(ws, limit), n, g)
    BY <1>1, <1>2, CompactIs
  <1>4. QED
    BY <1>2, <1>3

\* For every list of weights: a host with a larger weight has no fewer instances
\* than another, and weights that need no scaling keep their proportions exactly.
THEOREM SharesAlwaysFair ==
    \A ws \in Seq(Nat), limit \in Nat : Srv!SharesAreFair(ws, limit)
  <1>1. SUFFICES ASSUME NEW ws \in Seq(Nat), NEW limit \in Nat PROVE Srv!SharesAreFair(ws, limit)
    OBVIOUS
  <1>2. PICK times : times = Srv!Compact(ws, limit)
    OBVIOUS
  <1>3. PICK n, S, L, tmp, g : Scaled(ws, limit, n, S, L, tmp) /\ Divided(tmp, times, n, g)
    BY <1>2, SharesExist
  <1>4. /\ S \in Nat /\ L \in Nat /\ S >= limit /\ g \in Nat /\ g > 0
        /\ \A i \in 1..n : ws[i] \in Nat /\ times[i] \in Nat /\ tmp[i] = g * times[i]
    BY <1>3 DEF Scaled, Divided
  <1>5. /\ L <= S => \A i \in 1..n : tmp[i] = ws[i]
        /\ L > S => \A i \in 1..n : tmp[i] = Srv!Share(ws[i], S, L)
    BY <1>3 DEF Scaled
  <1>6. ASSUME NEW i \in 1..n, NEW j \in 1..n
        PROVE  /\ ws[i] >= ws[j] => times[i] >= times[j]
               /\ L <= limit => times[i] * ws[j] = times[j] * ws[i]
    <2>1. PICK v \in Nat, w \in Nat, t \in Nat, u \in Nat :
             v = ws[i] /\ w = ws[j] /\ t = times[i] /\ u = times[j]
      BY <1>4
    <2>2. tmp[i] = g * t /\ tmp[j] = g * u
      BY <1>4, <2>1
    <2>3. L <= S => g * t = v /\ g * u = w
      BY <1>5, <2>1, <2>2
    <2>4. L > S => g * t = Srv!Share(v, S, L) /\ g * u = Srv!Share(w, S, L)
      BY <1>5, <2>1, <2>2
    <2>5. ASSUME v >= w PROVE g * u <= g * t
      <3>1. CASE L <= S
        BY <2>3, <2>5, <3>1
      <3>2. CASE L > S
        <4>1. L > 0
          BY <1>4, <3>2
        <4>2. Srv!Share(w, S, L) <= Srv!Share(v, S, L)
          BY <1>4, <2>5, <4>1, ShareIs
        <4>3. QED
          BY <2>4, <3>2, <4>2
      <3>3. QED
        BY <1>4, <3>1, <3>2
    <2>6. ASSUME v >= w PROVE u <= t
      <3>1. SUFFICES ASSUME t + 1 <= u PROVE FALSE
        OBVIOUS
      <3>2. g * (t + 1) <= g * u
        BY <1>4, <3>1, Products
      <3>3. g * (t + 1) = g * t + g /\ g * t \in Nat
        BY <1>4
      <3>4. g * u <= g * t /\ g * u \in Nat
        BY <1>4, <2>5, <2>6
      <3>5. QED
        BY <1>4, <3>2, <3>3, <3>4
    <2>7. ASSUME L <= limit PROVE t * w = u * v
      <3>1. v = g * t /\ w = g * u
        BY <1>4, <2>3, <2>7
      <3>2. t * (g * u) = u * (g * t)
        BY <1>4
      <3>3. QED
        BY <3>1, <3>2
    <2>8. QED
      BY <2>1, <2>6, <2>7
  <1>7. L = Srv!Total(ws) /\ DOMAIN ws = 1..n
    BY <1>3 DEF Scaled
  <1>8. QED
    BY <1>2, <1>6, <1>7 DEF Srv!SharesAreFair

\* For every list of weights: a service with a positive weight keeps an instance,
\* the host with the largest weight is always listed.
THEOREM LargestAlwaysListed ==
    \A ws \in Seq(Nat), limit \in Nat : Srv!LargestIsListed(ws, limit)
  <1>1. SUFFICES ASSUME NEW ws \in Seq(Nat), NEW limit \in Nat PROVE Srv!LargestIsListed(ws, limit)
    OBVIOUS
  <1>2. PICK times : times = Srv!Compact(ws, limit)
    OBVIOUS
  <1>3. PICK n, S, L, tmp, g : Scaled(ws, limit, n, S, L, tmp) /\ Divided(tmp, times, n, g)
    BY <1>2, SharesExist
  <1>4. /\ n \in Nat /\ S \in Nat /\ L \in Nat /\ S >= n /\ g \in Nat
        /\ \A i \in 1..n : ws[i] \in Nat /\ times[i] \in Nat /\ tmp[i] = g * times[i]
    BY <1>3 DEF Scaled, Divided
  <1>5. /\ L <= S => \A i \in 1..n : tmp[i] = ws[i]
        /\ L > S => \A i \in 1..n : tmp[i] = Srv!Share(ws[i], S, L)
    BY <1>3 DEF Scaled
  <1>6. PICK P : Sums(P, ws) /\ L = P[n] /\ n = Len(ws)
    BY <1>3, TotalIsSum DEF Scaled
  <1>7. ASSUME NEW i \in 1..n, ws[i] > 0, \A j \in 1..n : ws[j] <= ws[i]
        PROVE  times[i] > 0
    <2>1. PICK w \in Nat, t \in Nat : w = ws[i] /\ t = times[i] /\ w > 0
      BY <1>4, <1>7
    <2>2. tmp[i] = g * t
      BY <1>4, <2>1
    <2>3. CASE L <= S
      <3>1. g * t > 0
        BY <1>5, <2>1, <2>2, <2>3
      <3>2. t # 0
        BY <1>4, <3>1
      <3>3. QED
        BY <2>1, <3>2
    <2>4. CASE L > S
      <3>1. PICK ones \in Seq(Nat) : ones = [k \in 1..n |-> 1] /\ Len(ones) = n
        <4>1. [k \in 1..n |-> 1] \in Seq(Nat) /\ Len([k \in 1..n |-> 1]) = n
          BY <1>4
        <4>2. QED
          BY <4>1
      <3>2. PICK Q : Q = [k \in 0..n |-> k]
        OBVIOUS
      <3>3. Sums(Q, ones)
        BY <1>4, <3>1, <3>2 DEF Sums
      <3>4. \A j \in 1..n : 1 * ws[j] <= w * ones[j]
        <4>1. \A j \in 1..n : ones[j] = 1 /\ ws[j] \in Nat /\ ws[j] <= w
          BY <1>4, <1>7, <2>1, <3>1
        <4>2. QED
          BY <4>1
      <3>5. 1 * P[n] <= w * Q[n]
        BY <1>4, <1>6, <3>1, <3>3, <3>4, SumsCompare
      <3>6. Q[n] = n
        BY <1>4, <3>2
      <3>7. w * n <= w * S
        BY <1>4, Products
      <3>8. S * w = w * S /\ w * S \in Nat /\ w * n \in Nat
        BY <1>4
      <3>9. L <= S * w
        <4>1. 1 * P[n] = L /\ w * Q[n] = w * n
          BY <1>4, <1>6, <3>6
        <4>2. PICK a \in Nat, b \in Nat, c \in Nat : a = w * n /\ b = w * S /\ c = S * w
          BY <3>8
        <4>3. L <= a
          BY <3>5, <4>1, <4>2
        <4>4. a <= b /\ b = c
          BY <3>7, <3>8, <4>2
        <4>5. QED
          BY <1>4, <4>2, <4>3, <4>4
      <3>10. L > 0
        BY <1>4, <2>4
      <3>11. Srv!Share(w, S, L) > 0
        BY <1>4, <3>9, <3>10, ShareIs
      <3>12. g * t > 0
        BY <1>5, <2>1, <2>2, <2>4, <3>11
      <3>13. t # 0
        BY <1>4, <3>12
      <3>14. QED
        BY <2>1, <3>13
    <2>5. QED
      BY <1>4, <2>3, <2>4
  <1>8. DOMAIN ws = 1..n
    BY <1>3 DEF Scaled
  <1>9. QED
    BY <1>2, <1>7, <1>8 DEF Srv!LargestIsListed

\* For every list of weights: at most limit instances are listed, or one for each
\* weight if there are more weights than that.
THEOREM ListAlwaysShort ==
    \A ws \in Seq(Nat), limit \in Nat : Srv!ListIsShort(ws, limit)
  <1>1. SUFFICES ASSUME NEW ws \in Seq(Nat), NEW limit \in Nat PROVE Srv!ListIsShort(ws, limit)
    OBVIOUS
  <1>2. PICK times : times = Srv!Compact(ws, limit)
    OBVIOUS
  <1>3. PICK n, S, L, tmp, g : Scaled(ws, limit, n, S, L, tmp) /\ Divided(tmp, times, n, g)
    BY <1>2, SharesExist
  <1>4. /\ n \in Nat /\ S \in Nat /\ L \in Nat /\ g \in Nat /\ g > 0
        /\ \A i \in 1..n : ws[i] \in Nat /\ times[i] \in Nat /\ tmp[i] = g * times[i]
    BY <1>3 DEF Scaled, Divided
  <1>5. /\ L <= S => \A i \in 1..n : tmp[i] = ws[i]
        /\ L > S => \A i \in 1..n : tmp[i] = Srv!Share(ws[i], S, L)
    BY <1>3 DEF Scaled
  <1>6. PICK P : Sums(P, ws) /\ L = P[n] /\ n = Len(ws)
    BY <1>3, TotalIsSum DEF Scaled
  <1>7. times \in Seq(Nat) /\ Len(times) = n
    BY <1>3 DEF Divided
  <1>8. PICK Q : Sums(Q, times) /\ Srv!Total(times) = Q[n]
    BY <1>7, TotalIsSum
  <1>9. ASSUME NEW i \in 1..n PROVE times[i] <= tmp[i]
    <2>1. PICK t \in Nat : t = times[i] /\ tmp[i] = g * t
      BY <1>4
    <2>2. t * 1 <= t * g
      BY <1>4, Products
    <2>3. t * 1 = t /\ t * g = g * t
      BY <1>4
    <2>4. QED
      BY <2>1, <2>2, <2>3
  <1>10. Q[n] \in Nat /\ Q[n] <= S
    <2>1. CASE L <= S
      <3>1. \A i \in 1..n : 1 * times[i] <= 1 * ws[i]
        BY <1>4, <1>5, <1>9, <2>1
      <3>2. Q[n] \in Nat /\ 1 * Q[n] <= 1 * P[n]
        BY <1>4, <1>6, <1>7, <1>8, <3>1, SumsCompare
      <3>3. QED
        BY <1>4, <1>6, <2>1, <3>2
    <2>2. CASE L > S
      <3>1. L > 0
        BY <1>4, <2>2
      <3>2. ASSUME NEW i \in 1..n PROVE L * times[i] <= S * ws[i]
        <4>1. PICK w \in Nat, t \in Nat, a \in Nat :
                 w = ws[i] /\ t = times[i] /\ a = tmp[i] /\ t <= a
          <5>1. g * times[i] \in Nat
            BY <1>4
          <5>2. tmp[i] \in Nat /\ ws[i] \in Nat /\ times[i] \in Nat
            BY <1>4, <5>1
          <5>3. QED
            BY <1>9, <5>2
        <4>2. a = Srv!Share(w, S, L)
          BY <1>5, <2>2, <4>1
        <4>3. L * a <= S * w
          BY <1>4, <3>1, <4>2, ShareIs
        <4>4. L * t <= L * a /\ L * t \in Nat /\ L * a \in Nat
          BY <1>4, <4>1, Products
        <4>5. S * w \in Nat
          BY <1>4
        <4>6. L * t <= S * w
          BY <4>3, <4>4, <4>5
        <4>7. QED
          BY <4>1, <4>6
      <3>3. Q[n] \in Nat /\ L * Q[n] <= S * P[n]
        BY <1>4, <1>6, <1>7, <1>8, <3>2, SumsCompare
      <3>4. PICK q \in Nat : q = Q[n] /\ L * q <= S * L
        BY <1>6, <3>3
      <3>5. ASSUME S + 1 <= q PROVE FALSE
        <4>1. L * (S + 1) <= L * q
          BY <1>4, <3>5, Products
        <4>2. L * (S + 1) = L * S + L /\ L * S = S * L /\ L * S \in Nat /\ L * q \in Nat
          BY <1>4
        <4>3. QED
          BY <1>4, <3>1, <3>4, <4>1, <4>2
      <3>6. QED
        BY <1>4, <3>4, <3>5
    <2>3. QED
      BY <1>4, <2>1, <2>2
  <1>11. S = IF Len(ws) > limit THEN Len(ws) ELSE limit
    BY <1>3 DEF Scaled
  <1>12. QED
    BY <1>2, <1>8, <1>10, <1>11 DEF Srv!ListIsShort

\* For every list of weights: no number above 1 divides how often each host is
\* listed.
THEOREM ListIrreducible ==
    \A ws \in Seq(Nat), limit \in Nat : Srv!Irreducible(ws, limit)
  <1>1. SUFFICES ASSUME NEW ws \in Seq(Nat), NEW limit \in Nat PROVE Srv!Irreducible(ws, limit)
    OBVIOUS
  <1>2. PICK times : times = Srv!Compact(ws, limit)
    OBVIOUS
  <1>3. PICK n, S, L, tmp, g : Scaled(ws, limit, n, S, L, tmp) /\ Divided(tmp, times, n, g)
    BY <1>2, SharesExist
  <1>4. /\ \A i \in 1..n : times[i] \in Nat
        /\ \A e \in Nat : DividesFirst(e, times, n) => (e = 1 \/ \A i \in 1..n : times[i] = 0)
    BY <1>3 DEF Divided
  <1>5. DOMAIN ws = 1..n
    BY <1>3 DEF Scaled
  <1>6. ASSUME NEW d \in 2..limit, \A i \in 1..n : times[i] % d = 0
        PROVE  \A i \in 1..n : times[i] = 0
    <2>1. d \in Nat /\ d >= 2
      OBVIOUS
    <2>2. ASSUME NEW i \in 1..n PROVE Divides(d, times[i])
      <3>1. PICK t \in Nat : t = times[i] /\ t % d = 0
        BY <1>4, <1>6
      <3>2. PICK q \in Nat : q = t \div d /\ t = d * q + 0
        <4>1. t \div d \in Nat /\ t = d * (t \div d) + (t % d)
          BY <2>1, Division
        <4>2. QED
          BY <3>1, <4>1
      <3>3. t = q * d
        BY <2>1, <3>2
      <3>4. QED
        BY <3>1, <3>3 DEF Divides
    <2>3. DividesFirst(d, times, n)
      BY <2>2 DEF DividesFirst
    <2>4. QED
      BY <1>4, <2>1, <2>3
  <1>7. QED
    BY <1>2, <1>5, <1>6 DEF Srv!Irreducible

-----------------------------------------------------------------------------
(* The instances of an answer                                              *)

\* The records of an answer that lists no host twice.
Records == [priority : Nat, weight : Nat, host : Nat]
HostsDiffer(answer) ==
    /\ answer \in Seq(Records)
    /\ \A i, j \in 1..Len(answer) : answer[i].host = answer[j].host => i = j

\* The order of the records is strict, and total between different hosts.
LEMMA BeforeOrders ==
    ASSUME NEW r \in Records, NEW s \in Records, NEW t \in Records
    PROVE  /\ ~Srv!Before(r, r)
           /\ Srv!Before(r, s) /\ Srv!Before(s, t) => Srv!Before(r, t)
           /\ r.host # s.host => Srv!Before(r, s) \/ Srv!Before(s, r)
           /\ Srv!Before(r, s) => ~Srv!Before(s, r)
           /\ ~Srv!Before(r, s) => s.priority <= r.priority
           /\ Srv!Before(r, s) => r.priority <= s.priority
  BY DEF Srv!Before, Records

\* Sets are counted alike in SrvWeights.
LEMMA SrvCardinality == \A S : Srv!Cardinality(S) = Cardinality(S)
  BY Zenon DEF Srv!Cardinality, Cardinality, Srv!IsFiniteSet, IsFiniteSet

\* What SrvWeights takes for a permutation.
LEMMA SrvBijection ==
    ASSUME NEW n \in Nat, NEW p
    PROVE  p \in Srv!Bijection(1..n, 1..n) <=>
               /\ p \in [1..n -> 1..n]
               /\ \A i, j \in 1..n : p[i] = p[j] => i = j
               /\ \A k \in 1..n : \E i \in 1..n : p[i] = k
  BY DEF Srv!Bijection, Srv!Injection, Srv!Surjection, Srv!IsInjective

\* Numbering 1..n by different numbers of 1..n uses every one of them.
LEMMA RanksUsed ==
    ASSUME NEW n \in Nat, NEW rank \in [1..n -> 1..n],
           \A i, j \in 1..n : rank[i] = rank[j] => i = j
    PROVE  \A k \in 1..n : \E i \in 1..n : rank[i] = k
  <1>1. rank \in Injection(1..n, 1..n)
    BY DEF Injection, IsInjective
  <1>2. IsFiniteSet(1..n)
    BY FS_Interval
  <1>3. rank \in Surjection(1..n, 1..n)
    BY <1>1, <1>2, FS_Injection
  <1>4. QED
    BY <1>3 DEF Surjection

\* s is the answer in an order with no record before an earlier one.
InOrder(answer, n, p, s) ==
    /\ n \in Nat /\ n = Len(answer) /\ DOMAIN answer = 1..n
    /\ p \in [1..n -> 1..n]
    /\ \A i, j \in 1..n : p[i] = p[j] => i = j
    /\ \A k \in 1..n : \E i \in 1..n : p[i] = k
    /\ s = [i \in 1..n |-> answer[p[i]]]
    /\ \A i, j \in 1..n : i < j => ~Srv!Before(s[j], s[i])

\* There is such an order.
LEMMA OrderExists ==
    ASSUME NEW answer, HostsDiffer(answer)
    PROVE  \E n, p, s : InOrder(answer, n, p, s)
  <1>1. PICK n \in Nat : n = Len(answer) /\ DOMAIN answer = 1..n
    BY DEF HostsDiffer
  <1>2. \A i \in 1..n : answer[i] \in Records
    BY <1>1 DEF HostsDiffer
  <1>3. \A i, j \in 1..n : answer[i].host = answer[j].host => i = j
    BY <1>1 DEF HostsDiffer
  <1>4. PICK before : before = [i \in 1..n |-> {j \in 1..n : Srv!Before(answer[j], answer[i])}]
    OBVIOUS
  <1>5. PICK rank : rank = [i \in 1..n |-> Cardinality(before[i]) + 1]
    OBVIOUS
  <1>6. IsFiniteSet(1..n) /\ Cardinality(1..n) = n
    BY FS_Interval
  <1>7. ASSUME NEW i \in 1..n
        PROVE  /\ IsFiniteSet(before[i]) /\ Cardinality(before[i]) \in Nat
               /\ rank[i] = Cardinality(before[i]) + 1 /\ rank[i] \in 1..n
    <2>1. before[i] \in SUBSET (1..n) /\ i \notin before[i]
      BY <1>2, <1>4, BeforeOrders
    <2>2. IsFiniteSet(before[i]) /\ Cardinality(before[i]) <= Cardinality(1..n)
      BY <1>6, <2>1, FS_Subset
    <2>3. before[i] # 1..n
      BY <2>1
    <2>4. Cardinality(before[i]) # Cardinality(1..n)
      BY <1>6, <2>1, <2>3, FS_Subset
    <2>5. Cardinality(before[i]) \in Nat
      BY <2>2, FS_CardinalityType
    <2>6. rank[i] = Cardinality(before[i]) + 1
      BY <1>5
    <2>7. QED
      BY <1>6, <2>2, <2>4, <2>5, <2>6
  <1>8. ASSUME NEW i \in 1..n, NEW j \in 1..n, Srv!Before(answer[i], answer[j])
        PROVE  rank[i] < rank[j]
    <2>1. ASSUME NEW k \in before[i] PROVE k \in before[j]
      <3>1. k \in 1..n /\ Srv!Before(answer[k], answer[i])
        BY <1>4, <2>1
      <3>2. Srv!Before(answer[k], answer[j])
        BY <1>2, <1>8, <3>1, BeforeOrders
      <3>3. QED
        BY <1>4, <3>1, <3>2
    <2>2. i \in before[j] /\ i \notin before[i]
      BY <1>2, <1>4, <1>8, BeforeOrders
    <2>3. before[i] \in SUBSET before[j] /\ before[i] # before[j]
      BY <2>1, <2>2
    <2>4. IsFiniteSet(before[j])
      BY <1>7
    <2>5. Cardinality(before[i]) <= Cardinality(before[j]) /\ Cardinality(before[i]) # Cardinality(before[j])
      BY <2>3, <2>4, FS_Subset
    <2>6. PICK a \in Nat, b \in Nat :
             /\ a = Cardinality(before[i]) /\ rank[i] = a + 1
             /\ b = Cardinality(before[j]) /\ rank[j] = b + 1
      BY <1>7
    <2>7. QED
      BY <2>5, <2>6
  <1>9. ASSUME NEW i \in 1..n, NEW j \in 1..n, i # j
        PROVE  Srv!Before(answer[i], answer[j]) \/ Srv!Before(answer[j], answer[i])
    BY <1>2, <1>3, <1>9, BeforeOrders
  <1>10. rank \in [1..n -> 1..n]
    BY <1>5, <1>7
  <1>11. ASSUME NEW i \in 1..n, NEW j \in 1..n, rank[i] = rank[j] PROVE i = j
    <2>1. SUFFICES ASSUME i # j PROVE FALSE
      OBVIOUS
    <2>2. rank[i] < rank[j] \/ rank[j] < rank[i]
      BY <1>8, <1>9, <2>1
    <2>3. rank[i] \in Int /\ rank[j] \in Int
      BY <1>10
    <2>4. QED
      BY <1>11, <2>2, <2>3
  <1>12. \A k \in 1..n : \E i \in 1..n : rank[i] = k
    BY <1>10, <1>11, RanksUsed
  <1>13. PICK p : p = [k \in 1..n |-> CHOOSE i \in 1..n : rank[i] = k]
    OBVIOUS
  <1>14. \A k \in 1..n : p[k] \in 1..n /\ rank[p[k]] = k
    BY <1>12, <1>13
  <1>15. PICK s : s = [k \in 1..n |-> answer[p[k]]]
    OBVIOUS
  <1>16. ASSUME NEW i \in 1..n, NEW j \in 1..n, i < j PROVE ~Srv!Before(s[j], s[i])
    <2>1. SUFFICES ASSUME Srv!Before(answer[p[j]], answer[p[i]]) PROVE FALSE
      BY <1>15
    <2>2. rank[p[j]] < rank[p[i]]
      BY <1>8, <1>14, <2>1
    <2>3. QED
      BY <1>14, <1>16, <2>2
  <1>17. \A k \in 1..n : \E i \in 1..n : p[i] = k
    <2>1. ASSUME NEW k \in 1..n PROVE p[rank[k]] = k
      BY <1>10, <1>11, <1>14
    <2>2. QED
      BY <1>10, <2>1
  <1>18. p \in [1..n -> 1..n] /\ \A i, j \in 1..n : p[i] = p[j] => i = j
    BY <1>13, <1>14
  <1>19. InOrder(answer, n, p, s)
    BY <1>1, <1>15, <1>16, <1>17, <1>18 DEF InOrder
  <1>20. QED
    BY <1>19

\* Sorted leaves an answer in such an order.
LEMMA SortedIs ==
    ASSUME NEW answer, HostsDiffer(answer)
    PROVE  \E n, p : InOrder(answer, n, p, Srv!Sorted(answer))
  <1>1. PICK n, p, s : InOrder(answer, n, p, s)
    BY OrderExists
  <1>2. n \in Nat /\ n = Len(answer) /\ DOMAIN answer = 1..n
    BY <1>1 DEF InOrder
  <1>3. p \in Srv!Bijection(1..n, 1..n)
    BY <1>1, <1>2, SrvBijection DEF InOrder
  <1>4. PICK orders : orders = Srv!Orders(answer)
    OBVIOUS
  <1>5. orders = {[i \in 1..n |-> answer[q[i]]] : q \in Srv!Bijection(1..n, 1..n)}
    BY <1>2, <1>4, Zenon DEF Srv!Orders
  <1>6. s \in orders /\ \A i, j \in DOMAIN answer : i < j => ~Srv!Before(s[j], s[i])
    BY <1>1, <1>2, <1>3, <1>5 DEF InOrder
  <1>7. PICK t : t = Srv!Sorted(answer)
    OBVIOUS
  <1>8. t = CHOOSE u \in orders : \A i, j \in DOMAIN answer : i < j => ~Srv!Before(u[j], u[i])
    BY <1>4, <1>7, Zenon DEF Srv!Sorted
  <1>9. t \in orders /\ \A i, j \in DOMAIN answer : i < j => ~Srv!Before(t[j], t[i])
    BY <1>6, <1>8, Zenon
  <1>10. PICK q \in Srv!Bijection(1..n, 1..n) : t = [i \in 1..n |-> answer[q[i]]]
    BY <1>5, <1>9
  <1>11. /\ q \in [1..n -> 1..n]
         /\ \A i, j \in 1..n : q[i] = q[j] => i = j
         /\ \A k \in 1..n : \E i \in 1..n : q[i] = k
    BY <1>2, SrvBijection
  <1>12. InOrder(answer, n, q, t)
    BY <1>2, <1>9, <1>10, <1>11 DEF InOrder
  <1>13. QED
    BY <1>7, <1>12

\* The orders of an answer and of its reverse are the same.
LEMMA OrdersReversed ==
    ASSUME NEW answer \in Seq(Records)
    PROVE  Srv!Orders(Srv!Reverse(answer)) = Srv!Orders(answer)
  <1>1. PICK n \in Nat : n = Len(answer) /\ DOMAIN answer = 1..n
    OBVIOUS
  <1>2. PICK back : back = Srv!Reverse(answer)
    OBVIOUS
  <1>3. back = [i \in 1..n |-> answer[(n - i) + 1]]
    BY <1>1, <1>2 DEF Srv!Reverse
  <1>4. DOMAIN back = 1..n
    BY <1>3
  <1>5. PICK B : B = Srv!Bijection(1..n, 1..n)
    OBVIOUS
  <1>6. \A p : p \in B <=> /\ p \in [1..n -> 1..n]
                           /\ \A i, j \in 1..n : p[i] = p[j] => i = j
                           /\ \A k \in 1..n : \E i \in 1..n : p[i] = k
    BY <1>1, <1>5, SrvBijection
  <1>7. PICK A, R : /\ A = Srv!Orders(answer) /\ R = Srv!Orders(back)
    OBVIOUS
  <1>8. A = {[i \in 1..n |-> answer[p[i]]] : p \in B}
    BY <1>1, <1>5, <1>7, Zenon DEF Srv!Orders
  <1>9. R = {[i \in 1..n |-> back[p[i]]] : p \in B}
    BY <1>4, <1>5, <1>7, Zenon DEF Srv!Orders
  <1>10. ASSUME NEW p \in B
         PROVE  \E q \in B : \A i \in 1..n : q[i] = (n - p[i]) + 1 /\ p[i] = (n - q[i]) + 1
    <2>1. PICK q : q = [i \in 1..n |-> (n - p[i]) + 1]
      OBVIOUS
    <2>2. /\ p \in [1..n -> 1..n]
          /\ \A i, j \in 1..n : p[i] = p[j] => i = j
          /\ \A k \in 1..n : \E i \in 1..n : p[i] = k
      BY <1>6
    <2>3. ASSUME NEW i \in 1..n
          PROVE  q[i] \in 1..n /\ q[i] = (n - p[i]) + 1 /\ p[i] = (n - q[i]) + 1
      <3>1. PICK k \in 1..n : k = p[i]
        BY <2>2
      <3>2. q[i] = (n - k) + 1
        BY <2>1, <3>1
      <3>3. QED
        BY <3>1, <3>2
    <2>4. q \in [1..n -> 1..n]
      BY <2>1, <2>3
    <2>5. ASSUME NEW i \in 1..n, NEW j \in 1..n, q[i] = q[j] PROVE i = j
      <3>1. p[i] = p[j]
        BY <2>3, <2>5
      <3>2. QED
        BY <2>2, <3>1
    <2>6. ASSUME NEW k \in 1..n PROVE \E i \in 1..n : q[i] = k
      <3>1. (n - k) + 1 \in 1..n
        OBVIOUS
      <3>2. PICK i \in 1..n : p[i] = (n - k) + 1
        BY <2>2, <3>1
      <3>3. q[i] = k
        BY <2>3, <3>2
      <3>4. QED
        BY <3>3
    <2>7. q \in B
      BY <1>6, <2>4, <2>5, <2>6
    <2>8. QED
      BY <2>3, <2>7
  <1>11. ASSUME NEW p \in B, NEW q \in B,
                \A i \in 1..n : q[i] = (n - p[i]) + 1 /\ p[i] = (n - q[i]) + 1
         PROVE  [i \in 1..n |-> back[p[i]]] = [i \in 1..n |-> answer[q[i]]]
    <2>1. \A i \in 1..n : p[i] \in 1..n
      BY <1>6
    <2>2. \A i \in 1..n : back[p[i]] = answer[q[i]]
      BY <1>3, <1>11, <2>1
    <2>3. QED
      BY <2>2
  <1>12. ASSUME NEW s \in A PROVE s \in R
    <2>1. PICK q \in B : s = [i \in 1..n |-> answer[q[i]]]
      BY <1>8
    <2>2. PICK p \in B : \A i \in 1..n : p[i] = (n - q[i]) + 1 /\ q[i] = (n - p[i]) + 1
      BY <1>10
    <2>3. s = [i \in 1..n |-> back[p[i]]]
      BY <1>11, <2>1, <2>2
    <2>4. QED
      BY <1>9, <2>3
  <1>13. ASSUME NEW s \in R PROVE s \in A
    <2>1. PICK p \in B : s = [i \in 1..n |-> back[p[i]]]
      BY <1>9
    <2>2. PICK q \in B : \A i \in 1..n : q[i] = (n - p[i]) + 1 /\ p[i] = (n - q[i]) + 1
      BY <1>10
    <2>3. s = [i \in 1..n |-> answer[q[i]]]
      BY <1>11, <2>1, <2>2
    <2>4. QED
      BY <1>8, <2>3
  <1>14. A = R
    BY <1>12, <1>13
  <1>15. QED
    BY <1>2, <1>7, <1>14

\* So the list of instances is the same however the records are ordered.
LEMMA InstancesReversed ==
    ASSUME NEW answer \in Seq(Records), NEW limit \in Nat
    PROVE  Srv!Instances(Srv!Reverse(answer), limit) = Srv!Instances(answer, limit)
  <1>1. PICK n \in Nat : n = Len(answer) /\ DOMAIN answer = 1..n
    OBVIOUS
  <1>2. PICK back : back = Srv!Reverse(answer)
    OBVIOUS
  <1>3. back = [i \in 1..n |-> answer[(n - i) + 1]]
    BY <1>1, <1>2 DEF Srv!Reverse
  <1>4. DOMAIN back = DOMAIN answer /\ Len(back) = Len(answer)
    BY <1>1, <1>3
  <1>5. Srv!Orders(back) = Srv!Orders(answer)
    BY <1>2, OrdersReversed
  <1>6. Srv!Sorted(back) = Srv!Sorted(answer)
    BY <1>4, <1>5, Zenon DEF Srv!Sorted
  <1>7. Srv!Best(back) = Srv!Best(answer)
    BY <1>4, <1>6, Zenon DEF Srv!Best
  <1>8. Srv!Instances(back, limit) = Srv!Instances(answer, limit)
    BY <1>7, Zenon DEF Srv!Instances
  <1>9. QED
    BY <1>2, <1>8

\* The first m of the ordered records are kept: those of the best priority.
KeepsBest(answer, n, p, s, m) ==
    /\ Srv!Best(answer) = [k \in 1..m |-> s[k]]
    /\ \A k \in 1..n : k <= m <=> \A j \in 1..n : answer[p[k]].priority <= answer[j].priority

\* Best keeps a prefix of the ordered answer: exactly its best priority.
LEMMA BestIs ==
    ASSUME NEW answer, HostsDiffer(answer), NEW n, NEW p, NEW s,
           InOrder(answer, n, p, s), s = Srv!Sorted(answer), n # 0
    PROVE  \E m \in 1..n : KeepsBest(answer, n, p, s, m)
  <1>1. /\ n \in Nat /\ n = Len(answer) /\ p \in [1..n -> 1..n]
        /\ \A k \in 1..n : \E i \in 1..n : p[i] = k
        /\ s = [i \in 1..n |-> answer[p[i]]]
    BY DEF InOrder
  <1>2. \A i, j \in 1..n : i < j => ~Srv!Before(s[j], s[i])
    BY DEF InOrder
  <1>3. \A i \in 1..n : answer[i] \in Records
    BY <1>1 DEF HostsDiffer
  <1>4. \A i \in 1..n : s[i] \in Records /\ s[i] = answer[p[i]] /\ s[i].priority \in Nat
    <2>1. ASSUME NEW i \in 1..n
          PROVE  s[i] \in Records /\ s[i] = answer[p[i]] /\ s[i].priority \in Nat
      <3>1. PICK k \in 1..n : k = p[i]
        BY <1>1
      <3>2. PICK r \in Records : r = answer[k]
        BY <1>3
      <3>3. s[i] = r
        BY <1>1, <3>1, <3>2
      <3>4. r.priority \in Nat
        BY DEF Records
      <3>5. QED
        BY <3>1, <3>2, <3>3, <3>4
    <2>2. QED
      BY <2>1
  <1>5. ASSUME NEW i \in 1..n, NEW j \in 1..n, i <= j PROVE s[i].priority <= s[j].priority
    <2>1. CASE i = j
      BY <1>4, <2>1
    <2>2. CASE i < j
      BY <1>2, <1>4, <2>2, BeforeOrders
    <2>3. QED
      BY <1>5, <2>1, <2>2
  <1>6. PICK firsts : firsts = {m \in 0..n : \A k \in 1..m : s[k].priority <= s[1].priority}
    OBVIOUS
  <1>7. Srv!Best(answer) = SubSeq(s, 1, Srv!Max(firsts))
    BY <1>1, <1>6, Zenon DEF Srv!Best
  <1>8. firsts \in SUBSET (0..n) /\ 1 \in firsts
    <2>1. 1 \in 1..n
      BY <1>1
    <2>2. \A k \in 1..1 : k = 1
      OBVIOUS
    <2>3. QED
      BY <1>4, <1>6, <2>1, <2>2
  <1>9. PICK m \in 1..n : m = Srv!Max(firsts) /\ m \in firsts /\ \A k \in firsts : k <= m
    <2>1. firsts # {}
      BY <1>8
    <2>2. PICK m : m = Srv!Max(firsts)
      OBVIOUS
    <2>3. m \in firsts /\ \A k \in firsts : m >= k
      BY <1>1, <1>8, <2>1, <2>2, MaxIn
    <2>4. m \in 0..n /\ m >= 1
      BY <1>8, <2>3
    <2>5. \A k \in firsts : k <= m
      BY <2>3
    <2>6. m \in 1..n
      BY <2>4
    <2>7. QED
      BY <2>2, <2>3, <2>5, <2>6
  <1>10. Srv!Best(answer) = [k \in 1..m |-> s[k]]
    <2>1. s \in Seq(Records) /\ Len(s) = n
      <3>1. PICK r : r = [i \in 1..n |-> s[i]]
        OBVIOUS
      <3>2. r \in Seq(Records) /\ Len(r) = n
        <4>1. n \in Nat
          BY <1>1
        <4>2. \A i \in 1..n : s[i] \in Records
          BY <1>4
        <4>3. QED
          BY <3>1, <4>1, <4>2
      <3>3. r = s
        BY <1>1, <3>1
      <3>4. QED
        BY <3>2, <3>3
    <2>2. SubSeq(s, 1, m) = [k \in 1..m |-> s[k]]
      BY <1>1, <2>1
    <2>3. QED
      BY <1>7, <1>9, <2>2
  <1>11. ASSUME NEW k \in 1..n
         PROVE  k <= m <=> \A j \in 1..n : answer[p[k]].priority <= answer[j].priority
    <2>1. 1 \in 1..n
      BY <1>1
    <2>2. ASSUME k <= m, NEW j \in 1..n PROVE answer[p[k]].priority <= answer[j].priority
      <3>1. s[k].priority <= s[1].priority
        BY <1>6, <1>9, <2>2
      <3>2. PICK i \in 1..n : p[i] = j
        BY <1>1
      <3>3. s[1].priority <= s[i].priority
        BY <1>5, <2>1
      <3>4. s[i] = answer[j] /\ s[k] = answer[p[k]]
        BY <1>4, <3>2
      <3>5. s[k].priority <= s[i].priority
        BY <1>4, <2>1, <3>1, <3>3
      <3>6. QED
        BY <3>4, <3>5
    <2>3. ASSUME \A j \in 1..n : answer[p[k]].priority <= answer[j].priority PROVE k <= m
      <3>1. s[k].priority <= s[1].priority
        BY <1>1, <1>4, <2>1, <2>3
      <3>2. ASSUME NEW i \in 1..k PROVE s[i].priority <= s[1].priority
        <4>1. i \in 1..n /\ i <= k
          BY <1>1
        <4>2. s[i].priority <= s[k].priority
          BY <1>5, <4>1
        <4>3. QED
          BY <1>4, <2>1, <3>1, <4>1, <4>2
      <3>3. k \in firsts
        <4>1. k \in 0..n
          BY <1>1
        <4>2. QED
          BY <1>6, <3>2, <4>1
      <3>4. QED
        BY <1>9, <3>3
    <2>4. QED
      BY <2>2, <2>3
  <1>12. KeepsBest(answer, n, p, s, m)
    BY <1>10, <1>11 DEF KeepsBest
  <1>13. QED
    BY <1>12

\* Every place of the list belongs to one host: that of the first sum that
\* reaches it.
LEMMA Owners ==
    ASSUME NEW ws \in Seq(Nat), NEW P, Sums(P, ws),
           NEW n \in Nat, n = Len(ws), NEW x \in 1..P[n]
    PROVE  \E k \in 1..n :
              /\ P[k - 1] < x /\ x <= P[k]
              /\ \A j \in 1..n : P[j - 1] < x /\ x <= P[j] => j = k
  <1>1. n \in Nat /\ n = Len(ws)
    OBVIOUS
  <1>2. P \in [0..n -> Nat] /\ P[0] = 0
    BY <1>1 DEF Sums
  <1>3. \A k \in 0..n : \A j \in 0..k : P[j] <= P[k]
    BY <1>1, SumsGrow
  <1>4. x \in Nat /\ x >= 1 /\ x <= P[n] /\ P[n] \in Nat
    BY <1>1, <1>2
  <1>5. PICK T : T = {k \in 0..n : x <= P[k]}
    OBVIOUS
  <1>6. T \subseteq Nat /\ n \in T
    BY <1>4, <1>5
  <1>7. PICK k \in T : \A j \in T : k <= j
    <2>1. T # {}
      BY <1>6
    <2>2. QED
      BY <1>6, <2>1, NatMin
  <1>8. k \in 0..n /\ x <= P[k] /\ k # 0
    BY <1>2, <1>4, <1>5, <1>7
  <1>9. k - 1 \in 0..n /\ k - 1 \notin T
    <2>1. k - 1 \in 0..n
      BY <1>8
    <2>2. QED
      BY <1>7, <1>8, <2>1
  <1>10. P[k - 1] < x
    BY <1>2, <1>4, <1>5, <1>9
  <1>11. ASSUME NEW j \in 1..n, P[j - 1] < x, x <= P[j] PROVE j = k
    <2>1. j \in T
      BY <1>5, <1>11
    <2>2. k <= j
      BY <1>7, <2>1
    <2>3. SUFFICES ASSUME k < j PROVE FALSE
      BY <1>8, <2>2
    <2>4. k \in 0..j - 1 /\ j - 1 \in 0..n
      BY <1>8, <2>3
    <2>5. P[k] <= P[j - 1]
      BY <1>3, <2>4
    <2>6. P[k] \in Nat /\ P[j - 1] \in Nat
      BY <1>2, <1>8, <2>4
    <2>7. QED
      BY <1>4, <1>8, <1>11, <2>5, <2>6
  <1>12. k \in 1..n
    BY <1>8
  <1>13. QED
    BY <1>1, <1>8, <1>10, <1>11, <1>12

\* The list of instances: host h[k] is listed times[k] times in a row.
ListOf(times, h) == Srv!FlattenSeq([i \in DOMAIN h |-> [j \in 1..times[i] |-> h[i]]])

\* The list w is q followed by r.
Joined(w, q, r, a, t) ==
    /\ w = [x \in 1..a + t |-> w[x]]
    /\ \A x \in 1..a + t : x <= a => w[x] = q[x]
    /\ \A x \in 1..a + t : x > a => w[x] = r[x - a]

\* A list is a function of its places.
LEMMA ListShape == ASSUME NEW w \in Seq(Nat) PROVE w = [x \in 1..Len(w) |-> w[x]]
  OBVIOUS

\* The elements of two lists put together.
LEMMA Together ==
    ASSUME NEW q \in Seq(Nat), NEW r \in Seq(Nat), NEW w, w = q \o r,
           NEW a \in Nat, NEW t \in Nat, a = Len(q), t = Len(r)
    PROVE  Joined(w, q, r, a, t)
  <1>1. w = q \o r
    OBVIOUS
  <1>2. w \in Seq(Nat) /\ Len(w) = a + t
    BY <1>1
  <1>3. w = [x \in 1..a + t |-> w[x]]
    <2>1. w = [x \in 1..Len(w) |-> w[x]]
      BY <1>2, ListShape, Zenon
    <2>2. QED
      BY <1>2, <2>1
  <1>4. \A x \in 1..a + t : x <= a => w[x] = q[x]
    BY <1>1
  <1>5. \A x \in 1..a + t : x > a => w[x] = r[x - a]
    BY <1>1
  <1>6. QED
    BY <1>3, <1>4, <1>5 DEF Joined

\* Its places, by the sums of times.
LEMMA ListPlaces ==
    ASSUME NEW m \in Nat, m # 0, NEW times \in Seq(Nat), Len(times) = m, NEW P, Sums(P, times),
           NEW h \in [1..m -> Nat]
    PROVE  /\ DOMAIN ListOf(times, h) = 1..P[m]
           /\ \A x \in 1..P[m], k \in 1..m :
                 P[k - 1] < x /\ x <= P[k] => ListOf(times, h)[x] = h[k]
  <1>1. DOMAIN h = 1..m
    OBVIOUS
  <1>2. PICK fs : fs = [i \in 1..m |-> [j \in 1..times[i] |-> h[i]]]
    OBVIOUS
  <1>3. Len(fs) = m /\ Len(fs) # 0
    BY <1>2
  <1>4. /\ P \in [0..m -> Nat] /\ P[0] = 0
        /\ \A k \in 1..m : P[k] = P[k - 1] + times[k]
    BY DEF Sums
  <1>5. \A k \in 1..m : times[k] \in Nat
    OBVIOUS
  <1>6. \A k \in 0..m : \A j \in 0..k : P[j] <= P[k]
    BY SumsGrow
  <1>7. PICK own : own = [x \in 1..P[m] |-> CHOOSE k \in 1..m : P[k - 1] < x /\ x <= P[k]]
    OBVIOUS
  <1>8. ASSUME NEW x \in 1..P[m], NEW k \in 1..m, P[k - 1] < x, x <= P[k] PROVE own[x] = k
    <2>1. PICK u \in 1..m : /\ P[u - 1] < x /\ x <= P[u]
                            /\ \A j \in 1..m : P[j - 1] < x /\ x <= P[j] => j = u
      BY Owners
    <2>2. own[x] = CHOOSE j \in 1..m : P[j - 1] < x /\ x <= P[j]
      BY <1>7
    <2>3. own[x] \in 1..m /\ P[own[x] - 1] < x /\ x <= P[own[x]]
      BY <2>1, <2>2
    <2>4. QED
      BY <1>8, <2>1, <2>3
  <1>9. PICK g : g = [i \in 1..m |-> [x \in 1..P[i] |-> h[own[x]]]]
    OBVIOUS
  <1>10. ASSUME NEW i \in 1..m PROVE 1..P[i] \subseteq 1..P[m] /\ P[i] \in Nat /\ P[m] \in Nat
    <2>1. i \in 0..m /\ m \in 0..m
      OBVIOUS
    <2>2. P[i] <= P[m]
      BY <1>6, <2>1
    <2>3. P[i] \in Nat /\ P[m] \in Nat
      BY <1>4, <2>1
    <2>4. QED
      BY <2>2, <2>3
  <1>11. ASSUME NEW x \in 1..P[m] PROVE own[x] \in 1..m
    <2>1. \E k \in 1..m : P[k - 1] < x /\ x <= P[k]
      BY Owners
    <2>2. QED
      BY <1>7, <2>1
  <1>12. ASSUME NEW i \in 1..m
         PROVE  g[i] = IF i = 1 THEN fs[i] ELSE g[i - 1] \o fs[i]
    <2>1. PICK a \in Nat, b \in Nat, t \in Nat : a = P[i - 1] /\ b = P[i] /\ t = times[i]
      <3>1. i - 1 \in 0..m
        OBVIOUS
      <3>2. P[i - 1] \in Nat
        BY <1>4, <3>1
      <3>3. QED
        BY <1>4, <1>5, <1>10, <3>2
    <2>2. b = a + t
      BY <1>4, <2>1
    <2>3. \A x \in 1..b : x \in 1..P[m]
      BY <1>10, <2>1
    <2>4. g[i] = [x \in 1..b |-> h[own[x]]]
      BY <1>9, <2>1
    <2>5. fs[i] = [j \in 1..t |-> h[i]]
      BY <1>2, <2>1
    <2>6. ASSUME NEW x \in 1..b, x > a PROVE g[i][x] = h[i]
      <3>1. x \in 1..P[m]
        BY <2>3
      <3>2. P[i - 1] < x /\ x <= P[i]
        BY <2>1, <2>6
      <3>3. own[x] = i
        BY <1>8, <3>1, <3>2
      <3>4. QED
        BY <2>4, <3>3
    <2>7. CASE i = 1
      <3>1. a = 0 /\ t = b
        BY <1>4, <2>1, <2>7, <2>2
      <3>2. \A x \in 1..b : g[i][x] = h[i]
        BY <2>6, <3>1
      <3>3. g[i] = fs[i]
        BY <2>4, <2>5, <3>1, <3>2
      <3>4. QED
        BY <2>7, <3>3
    <2>8. CASE i # 1
      <3>1. i - 1 \in 1..m
        BY <2>8
      <3>2. g[i - 1] = [x \in 1..a |-> h[own[x]]]
        BY <1>9, <2>1, <3>1
      <3>3. PICK q, r, w : q = g[i - 1] /\ r = fs[i] /\ w = q \o r
        OBVIOUS
      <3>4. /\ w = [x \in 1..a + t |-> w[x]]
            /\ \A x \in 1..a + t : x <= a => w[x] = q[x]
            /\ \A x \in 1..a + t : x > a => w[x] = r[x - a]
        <4>1. \A x \in 1..b : h[own[x]] \in Nat
          <5>1. \A x \in 1..P[m] : own[x] \in 1..m
            BY <1>11
          <5>2. QED
            BY <2>3, <5>1
        <4>2. \A x \in 1..a : h[own[x]] \in Nat
          <5>1. \A x \in 1..a : x \in 1..b
            BY <2>2
          <5>2. QED
            BY <4>1, <5>1
        <4>3. q \in Seq(Nat) /\ Len(q) = a
          BY <3>2, <3>3, <4>2
        <4>4. r \in Seq(Nat) /\ Len(r) = t
          <5>1. h[i] \in Nat
            OBVIOUS
          <5>2. QED
            BY <2>5, <3>3, <5>1
        <4>5. q \in Seq(Nat) /\ r \in Seq(Nat) /\ a = Len(q) /\ t = Len(r)
          BY <4>3, <4>4
        <4>6. Joined(w, q, r, a, t)
          BY <3>3, <4>5, Together
        <4>7. QED
          BY <4>6 DEF Joined
      <3>5. ASSUME NEW x \in 1..b PROVE w[x] = g[i][x]
        <4>1. CASE x <= a
          <5>1. x \in 1..a
            BY <4>1
          <5>2. w[x] = q[x]
            BY <2>2, <3>4, <4>1
          <5>3. QED
            BY <2>4, <3>2, <3>3, <5>1, <5>2
        <4>2. CASE x > a
          <5>1. x - a \in 1..t /\ ~(x <= a)
            BY <2>2, <4>2
          <5>2. w[x] = r[x - a]
            BY <2>2, <3>4, <5>1
          <5>3. r[x - a] = h[i]
            BY <2>5, <3>3, <5>1
          <5>4. QED
            BY <2>6, <4>2, <5>2, <5>3
        <4>3. QED
          BY <2>1, <4>1, <4>2
      <3>6. w = g[i]
        BY <2>2, <2>4, <3>4, <3>5
      <3>7. QED
        BY <2>8, <3>3, <3>6
    <2>9. QED
      BY <2>7, <2>8
  <1>13. \E f : f = [i \in 1..Len(fs) |-> IF i = 1 THEN fs[i] ELSE f[i - 1] \o fs[i]]
    <2>1. PICK e : e = [i \in 1..m |-> IF i = 1 THEN fs[i] ELSE g[i - 1] \o fs[i]]
      OBVIOUS
    <2>2. \A i \in 1..m : e[i] = g[i]
      BY <1>12, <2>1
    <2>3. e = g
      BY <1>9, <2>1, <2>2
    <2>4. QED
      BY <1>3, <2>1, <2>3
  <1>14. PICK f : /\ f = [i \in 1..m |-> IF i = 1 THEN fs[i] ELSE f[i - 1] \o fs[i]]
                  /\ Srv!FlattenSeq(fs) = f[m]
    <2>1. \E f : /\ f = [i \in 1..Len(fs) |-> IF i = 1 THEN fs[i] ELSE f[i - 1] \o fs[i]]
                 /\ Srv!FlattenSeq(fs) = f[Len(fs)]
      BY <1>3, <1>13, Zenon DEF Srv!FlattenSeq
    <2>2. QED
      BY <1>3, <2>1
  <1>15. PICK T : T = {i \in Nat : i \in 1..m => f[i] = g[i]}
    OBVIOUS
  <1>16. 0 \in T
    BY <1>15
  <1>17. ASSUME NEW i \in Nat, i \in T PROVE i + 1 \in T
    <2>1. SUFFICES ASSUME i + 1 \in 1..m PROVE f[i + 1] = g[i + 1]
      BY <1>15
    <2>2. PICK k \in 1..m : k = i + 1 /\ k - 1 = i
      BY <2>1
    <2>3. f[k] = IF k = 1 THEN fs[k] ELSE f[k - 1] \o fs[k]
      BY <1>14
    <2>4. g[k] = IF k = 1 THEN fs[k] ELSE g[k - 1] \o fs[k]
      BY <1>12
    <2>5. k # 1 => f[k - 1] = g[k - 1]
      BY <1>15, <1>17, <2>2
    <2>6. f[k] = g[k]
      BY <2>3, <2>4, <2>5
    <2>7. QED
      BY <2>2, <2>6
  <1>18. f[m] = g[m]
    <2>1. Nat \subseteq T
      BY <1>16, <1>17, SetInduction
    <2>2. m \in T /\ m \in 1..m
      BY <2>1
    <2>3. QED
      BY <1>15, <2>2
  <1>19. PICK list : list = ListOf(times, h)
    OBVIOUS
  <1>20. list = [x \in 1..P[m] |-> h[own[x]]]
    <2>1. list = Srv!FlattenSeq(fs)
      BY <1>1, <1>2, <1>19 DEF ListOf
    <2>2. m \in 1..m
      OBVIOUS
    <2>3. QED
      BY <1>9, <1>14, <1>18, <2>1, <2>2
  <1>21. \A x \in 1..P[m], k \in 1..m : P[k - 1] < x /\ x <= P[k] => list[x] = h[k]
    BY <1>8, <1>20
  <1>22. QED
    BY <1>19, <1>20, <1>21

\* A host of h is listed as often as times says, and no other is.
Counted(list, times, h, m) ==
    /\ \A k \in 1..m : Srv!Listed(list, h[k]) = times[k]
    /\ \A v : (\A k \in 1..m : h[k] # v) => Srv!Listed(list, v) = 0

\* How often a host is listed.
LEMMA ListedIs ==
    ASSUME NEW m \in Nat, m # 0, NEW times \in Seq(Nat), Len(times) = m, NEW h \in [1..m -> Nat],
           \A i, j \in 1..m : h[i] = h[j] => i = j
    PROVE  Counted(ListOf(times, h), times, h, m)
  <1>1. PICK P : Sums(P, times)
    BY TotalIsSum
  <1>2. PICK list : list = ListOf(times, h)
    OBVIOUS
  <1>3. /\ DOMAIN list = 1..P[m]
        /\ \A x \in 1..P[m], k \in 1..m : P[k - 1] < x /\ x <= P[k] => list[x] = h[k]
    BY <1>1, <1>2, ListPlaces
  <1>4. /\ P \in [0..m -> Nat]
        /\ \A k \in 1..m : P[k] = P[k - 1] + times[k]
    BY <1>1 DEF Sums
  <1>5. \A k \in 1..m : times[k] \in Nat
    OBVIOUS
  <1>6. ASSUME NEW x \in 1..P[m]
        PROVE  \E k \in 1..m : P[k - 1] < x /\ x <= P[k] /\ list[x] = h[k]
    <2>1. PICK k \in 1..m : P[k - 1] < x /\ x <= P[k]
      BY <1>1, Owners
    <2>2. list[x] = h[k]
      BY <1>3, <2>1
    <2>3. QED
      BY <2>1, <2>2
  <1>7. ASSUME NEW k \in 1..m PROVE Srv!Listed(list, h[k]) = times[k]
    <2>1. PICK a \in Nat, b \in Nat, t \in Nat : a = P[k - 1] /\ b = P[k] /\ t = times[k]
      <3>1. k - 1 \in 0..m /\ k \in 0..m
        OBVIOUS
      <3>2. P[k - 1] \in Nat /\ P[k] \in Nat
        BY <1>4, <3>1
      <3>3. QED
        BY <1>5, <3>2
    <2>2. b = a + t
      BY <1>4, <2>1
    <2>3. P[m] \in Nat /\ b <= P[m]
      <3>1. k \in 0..m /\ m \in 0..m
        OBVIOUS
      <3>2. P[k] <= P[m]
        <4>1. \A i \in 0..m : \A j \in 0..i : P[j] <= P[i]
          BY <1>1, SumsGrow
        <4>2. QED
          BY <3>1, <4>1
      <3>3. QED
        BY <1>4, <2>1, <3>1, <3>2
    <2>4. PICK places : places = {x \in DOMAIN list : list[x] = h[k]}
      OBVIOUS
    <2>5. ASSUME NEW x \in places PROVE x \in a + 1..b
      <3>1. x \in 1..P[m] /\ list[x] = h[k]
        BY <1>3, <2>4
      <3>2. PICK j \in 1..m : P[j - 1] < x /\ x <= P[j] /\ list[x] = h[j]
        BY <1>6, <3>1
      <3>3. j = k
        BY <3>1, <3>2
      <3>4. a < x /\ x <= b /\ x \in Int
        BY <2>1, <3>1, <3>2, <3>3
      <3>5. QED
        BY <3>4
    <2>6. ASSUME NEW x \in a + 1..b PROVE x \in places
      <3>1. x \in 1..P[m] /\ a < x /\ x <= b
        BY <2>3
      <3>2. list[x] = h[k]
        BY <1>3, <2>1, <3>1
      <3>3. QED
        BY <1>3, <2>4, <3>1, <3>2
    <2>7. places = a + 1..b
      BY <2>5, <2>6
    <2>8. Cardinality(places) = t
      <3>1. a + 1 \in Int /\ b \in Int
        OBVIOUS
      <3>2. Cardinality(a + 1..b) = IF a + 1 > b THEN 0 ELSE b - (a + 1) + 1
        BY <3>1, FS_Interval
      <3>3. QED
        BY <2>2, <2>7, <3>2
    <2>9. Srv!Listed(list, h[k]) = Cardinality(places)
      BY <2>4, SrvCardinality DEF Srv!Listed
    <2>10. QED
      BY <2>1, <2>8, <2>9
  <1>8. ASSUME NEW v, \A k \in 1..m : h[k] # v PROVE Srv!Listed(list, v) = 0
    <2>1. {x \in DOMAIN list : list[x] = v} = {}
      BY <1>3, <1>6, <1>8
    <2>2. Srv!Listed(list, v) = Cardinality({x \in DOMAIN list : list[x] = v})
      BY SrvCardinality DEF Srv!Listed
    <2>3. QED
      BY <2>1, <2>2, FS_EmptySet
  <1>9. QED
    BY <1>2, <1>7, <1>8 DEF Counted

\* The hosts and the weights of the records kept, and how often each is listed.
Kept(answer, limit, n, p, m, ws, times, h) ==
    /\ n \in Nat /\ DOMAIN answer = 1..n /\ m \in 1..n
    /\ p \in [1..n -> 1..n]
    /\ \A i, j \in 1..n : p[i] = p[j] => i = j
    /\ \A k \in 1..n : \E i \in 1..n : p[i] = k
    /\ \A k \in 1..n : k <= m <=>
          \A j \in 1..n : answer[p[k]].priority <= answer[j].priority
    /\ ws \in Seq(Nat) /\ Len(ws) = m /\ \A k \in 1..m : ws[k] = answer[p[k]].weight
    /\ times \in Seq(Nat) /\ Len(times) = m /\ times = Srv!Compact(ws, limit)
    /\ h \in [1..m -> Nat] /\ \A k \in 1..m : h[k] = answer[p[k]].host
    /\ Srv!Instances(answer, limit) = ListOf(times, h)

\* What resolve does with an answer that is not empty.
LEMMA KeptExist ==
    ASSUME NEW answer, HostsDiffer(answer), NEW limit \in Nat, Len(answer) # 0
    PROVE  \E n, p, m, ws, times, h : Kept(answer, limit, n, p, m, ws, times, h)
  <1>1. PICK s : s = Srv!Sorted(answer)
    OBVIOUS
  <1>2. PICK n, p : InOrder(answer, n, p, s)
    BY <1>1, SortedIs
  <1>3. /\ n \in Nat /\ n = Len(answer) /\ DOMAIN answer = 1..n /\ n # 0
        /\ p \in [1..n -> 1..n]
        /\ \A i, j \in 1..n : p[i] = p[j] => i = j
        /\ \A k \in 1..n : \E i \in 1..n : p[i] = k
        /\ s = [i \in 1..n |-> answer[p[i]]]
    BY <1>2 DEF InOrder
  <1>4. PICK m \in 1..n : KeepsBest(answer, n, p, s, m)
    BY <1>1, <1>2, <1>3, BestIs
  <1>5. Srv!Best(answer) = [k \in 1..m |-> s[k]]
    BY <1>4 DEF KeepsBest
  <1>6. \A i \in 1..n : answer[i] \in Records
    BY <1>3 DEF HostsDiffer
  <1>7. m \in Nat /\ m # 0 /\ \A k \in 1..m : k \in 1..n
    BY <1>3
  <1>8. PICK best : best = [k \in 1..m |-> s[k]]
    OBVIOUS
  <1>9. ASSUME NEW k \in 1..m
        PROVE  /\ best[k] = answer[p[k]]
               /\ answer[p[k]].weight \in Nat /\ answer[p[k]].host \in Nat
    <2>1. PICK i \in 1..n : i = p[k]
      BY <1>3, <1>7
    <2>2. PICK r \in Records : r = answer[i]
      BY <1>6
    <2>3. best[k] = r
      BY <1>3, <1>7, <1>8, <2>1, <2>2
    <2>4. r.weight \in Nat /\ r.host \in Nat
      BY DEF Records
    <2>5. QED
      BY <2>1, <2>2, <2>3, <2>4
  <1>10. PICK ws : ws = [k \in 1..m |-> best[k].weight]
    OBVIOUS
  <1>11. ws \in Seq(Nat) /\ Len(ws) = m /\ \A k \in 1..m : ws[k] = answer[p[k]].weight
    <2>1. \A k \in 1..m : best[k].weight \in Nat /\ best[k].weight = answer[p[k]].weight
      BY <1>9
    <2>2. QED
      BY <1>7, <1>10, <2>1
  <1>12. PICK times : times = Srv!Compact(ws, limit)
    OBVIOUS
  <1>13. times \in Seq(Nat) /\ Len(times) = m
    <2>1. PICK k, S, L, tmp, g : Scaled(ws, limit, k, S, L, tmp) /\ Divided(tmp, times, k, g)
      BY <1>11, <1>12, SharesExist
    <2>2. k = m
      BY <1>11, <2>1 DEF Scaled
    <2>3. QED
      BY <2>1, <2>2 DEF Divided
  <1>14. PICK h : h = [k \in 1..m |-> best[k].host]
    OBVIOUS
  <1>15. h \in [1..m -> Nat] /\ \A k \in 1..m : h[k] = answer[p[k]].host
    <2>1. \A k \in 1..m : best[k].host \in Nat /\ best[k].host = answer[p[k]].host
      BY <1>9
    <2>2. QED
      BY <1>14, <2>1
  <1>16. Srv!Instances(answer, limit) = ListOf(times, h)
    <2>1. DOMAIN best = 1..m /\ DOMAIN h = 1..m /\ best = Srv!Best(answer)
      BY <1>5, <1>8, <1>14
    <2>2. ws = [k \in DOMAIN best |-> best[k].weight]
      BY <1>10, <2>1
    <2>3. PICK es : es = [k \in DOMAIN best |-> [j \in 1..times[k] |-> best[k].host]]
      OBVIOUS
    <2>4. PICK fs : fs = [k \in DOMAIN h |-> [j \in 1..times[k] |-> h[k]]]
      OBVIOUS
    <2>5. ASSUME NEW k \in 1..m PROVE es[k] = fs[k]
      <3>1. es[k] = [j \in 1..times[k] |-> best[k].host]
        BY <2>1, <2>3
      <3>2. fs[k] = [j \in 1..times[k] |-> h[k]]
        BY <2>1, <2>4
      <3>3. h[k] = best[k].host
        BY <1>14
      <3>4. QED
        BY <3>1, <3>2, <3>3
    <2>6. es = fs
      BY <2>1, <2>3, <2>4, <2>5
    <2>7. Srv!Instances(answer, limit) = Srv!FlattenSeq(es)
      BY <1>12, <2>1, <2>2, <2>3, Zenon DEF Srv!Instances
    <2>8. ListOf(times, h) = Srv!FlattenSeq(fs)
      BY <2>4, Zenon DEF ListOf
    <2>9. QED
      BY <2>6, <2>7, <2>8
  <1>17. Kept(answer, limit, n, p, m, ws, times, h)
    <2>1. \A k \in 1..n : k <= m <=>
             \A j \in 1..n : answer[p[k]].priority <= answer[j].priority
      BY <1>4 DEF KeepsBest
    <2>2. QED
      BY <1>3, <1>11, <1>12, <1>13, <1>15, <1>16, <2>1 DEF Kept
  <1>18. QED
    BY <1>17

\* For every answer that lists no host twice: the instances are those of the best
\* priority only, a host is listed no more often than one of a larger weight, and
\* the order of the records makes no difference.
THEOREM BestAlwaysListed ==
    \A answer, limit : HostsDiffer(answer) /\ limit \in Nat => Srv!InstancesOfBest(answer, limit)
  <1>1. SUFFICES ASSUME NEW answer, HostsDiffer(answer), NEW limit \in Nat
                 PROVE  Srv!InstancesOfBest(answer, limit)
    OBVIOUS
  <1>2. PICK n \in Nat : n = Len(answer) /\ DOMAIN answer = 1..n
    BY <1>1 DEF HostsDiffer
  <1>3. PICK list : list = Srv!Instances(answer, limit)
    OBVIOUS
  <1>4. PICK best : best = {i \in 1..n : \A j \in 1..n : answer[i].priority <= answer[j].priority}
    OBVIOUS
  <1>5. PICK count : count = [i \in 1..n |-> Srv!Listed(list, answer[i].host)]
    OBVIOUS
  <1>6. Srv!Instances(Srv!Reverse(answer), limit) = list
    BY <1>1, <1>3, InstancesReversed DEF HostsDiffer
  <1>7. SUFFICES /\ \A i \in 1..n : count[i] > 0 => i \in best
                 /\ \A i, j \in best : answer[i].weight >= answer[j].weight => count[i] >= count[j]
    <2>1. ASSUME /\ \A i \in 1..n : count[i] > 0 => i \in best
                 /\ \A i, j \in best : answer[i].weight >= answer[j].weight => count[i] >= count[j]
          PROVE  Srv!InstancesOfBest(answer, limit)
      <3>1. best = {i \in DOMAIN answer :
                      \A j \in DOMAIN answer : answer[i].priority <= answer[j].priority}
        BY <1>2, <1>4
      <3>2. \A i \in 1..n : Srv!Listed(list, answer[i].host) > 0 => i \in best
        BY <1>5, <2>1
      <3>3. \A i, j \in best : answer[i].weight >= answer[j].weight =>
               Srv!Listed(list, answer[i].host) >= Srv!Listed(list, answer[j].host)
        BY <1>4, <1>5, <2>1
      <3>4. QED
        BY <1>2, <1>3, <1>6, <3>1, <3>2, <3>3, Zenon DEF Srv!InstancesOfBest
    <2>2. QED
      BY <2>1
  <1>8. CASE n = 0
    BY <1>4, <1>8
  <1>9. CASE n # 0
    <2>1. PICK nn, p, m, ws, times, h : Kept(answer, limit, nn, p, m, ws, times, h)
      BY <1>1, <1>2, <1>9, KeptExist
    <2>2. nn = n
      <3>1. nn \in Nat /\ 1..nn = 1..n
        BY <1>2, <2>1 DEF Kept
      <3>2. n \in 1..nn
        BY <1>2, <1>9, <3>1
      <3>3. nn # 0
        BY <3>1, <3>2
      <3>4. nn \in 1..n
        BY <3>1, <3>3
      <3>5. QED
        BY <3>1, <3>2, <3>4
    <2>3. /\ m \in 1..n /\ p \in [1..n -> 1..n]
          /\ \A i, j \in 1..n : p[i] = p[j] => i = j
          /\ \A k \in 1..n : \E i \in 1..n : p[i] = k
      BY <2>1, <2>2 DEF Kept
    <2>4. \A k \in 1..n : k <= m <=> p[k] \in best
      BY <1>4, <2>1, <2>2 DEF Kept
    <2>5. /\ ws \in Seq(Nat) /\ Len(ws) = m /\ \A k \in 1..m : ws[k] = answer[p[k]].weight
          /\ times \in Seq(Nat) /\ Len(times) = m /\ times = Srv!Compact(ws, limit)
          /\ h \in [1..m -> Nat] /\ \A k \in 1..m : h[k] = answer[p[k]].host
          /\ list = ListOf(times, h)
      BY <1>3, <2>1, <2>2 DEF Kept
    <2>6. m \in Nat /\ m # 0 /\ \A k \in 1..m : k \in 1..n
      BY <1>2, <2>3
    <2>7. \A i, j \in 1..n : answer[i].host = answer[j].host => i = j
      BY <1>1, <1>2 DEF HostsDiffer
    <2>8. ASSUME NEW k \in 1..m, NEW j \in 1..m, h[k] = h[j] PROVE k = j
      <3>1. answer[p[k]].host = answer[p[j]].host
        BY <2>5, <2>8
      <3>2. p[k] = p[j]
        BY <2>3, <2>6, <2>7, <3>1
      <3>3. QED
        BY <2>3, <2>6, <3>2
    <2>9. /\ \A k \in 1..m : Srv!Listed(list, h[k]) = times[k]
          /\ \A v : (\A k \in 1..m : h[k] # v) => Srv!Listed(list, v) = 0
      <3>1. \A k, j \in 1..m : h[k] = h[j] => k = j
        BY <2>8
      <3>2. Counted(list, times, h, m)
        BY <2>5, <2>6, <3>1, ListedIs
      <3>3. QED
        BY <3>2 DEF Counted
    <2>10. ASSUME NEW k \in 1..n, k <= m PROVE k \in 1..m /\ count[p[k]] = times[k]
      <3>1. k \in 1..m
        BY <2>6, <2>10
      <3>2. count[p[k]] = Srv!Listed(list, answer[p[k]].host)
        BY <1>5, <2>3
      <3>3. h[k] = answer[p[k]].host
        BY <2>5, <3>1
      <3>4. QED
        BY <2>9, <3>1, <3>2, <3>3
    <2>11. ASSUME NEW k \in 1..n, ~(k <= m) PROVE count[p[k]] = 0
      <3>1. PICK v : v = answer[p[k]].host
        OBVIOUS
      <3>2. ASSUME NEW j \in 1..m, h[j] = v PROVE FALSE
        <4>1. answer[p[j]].host = answer[p[k]].host
          BY <2>5, <3>1, <3>2
        <4>2. p[j] = p[k]
          BY <2>3, <2>6, <2>7, <4>1
        <4>3. j = k /\ j <= m
          BY <2>3, <2>6, <4>2
        <4>4. QED
          BY <2>11, <4>3
      <3>3. Srv!Listed(list, v) = 0
        BY <2>9, <3>2
      <3>4. QED
        BY <1>5, <2>3, <3>1, <3>3
    <2>12. ASSUME NEW i \in 1..n, count[i] > 0 PROVE i \in best
      <3>1. PICK k \in 1..n : p[k] = i
        BY <2>3
      <3>2. k <= m
        BY <2>11, <2>12, <3>1
      <3>3. QED
        BY <2>4, <3>1, <3>2
    <2>13. ASSUME NEW i \in best, NEW j \in best, answer[i].weight >= answer[j].weight
           PROVE  count[i] >= count[j]
      <3>1. i \in 1..n /\ j \in 1..n
        BY <1>4
      <3>2. PICK k \in 1..n, l \in 1..n : p[k] = i /\ p[l] = j
        BY <2>3, <3>1
      <3>3. k <= m /\ l <= m
        BY <2>4, <3>2
      <3>4. k \in 1..m /\ l \in 1..m /\ count[i] = times[k] /\ count[j] = times[l]
        BY <2>10, <3>2, <3>3
      <3>5. ws[k] >= ws[l]
        BY <2>5, <2>13, <3>2, <3>4
      <3>6. Srv!SharesAreFair(ws, limit)
        BY <2>5, SharesAlwaysFair
      <3>7. DOMAIN ws = 1..m
        BY <2>5
      <3>8. times[k] >= times[l]
        BY <2>5, <3>4, <3>5, <3>6, <3>7 DEF Srv!SharesAreFair
      <3>9. QED
        BY <3>4, <3>8
    <2>14. QED
      BY <2>12, <2>13
  <1>10. QED
    BY <1>8, <1>9

\* Every answer the run tries lists no host twice.
LEMMA AnswersDiffer == \A wps \in MCAnswers : HostsDiffer(RecordsOf(wps))
  <1>1. SUFFICES ASSUME NEW wps \in MCAnswers PROVE HostsDiffer(RecordsOf(wps))
    OBVIOUS
  <1>2. PICK n \in 0..3 : wps \in [1..n -> MCWeights \X {1, 2}]
    BY DEF MCAnswers
  <1>3. PICK answer : answer = RecordsOf(wps)
    OBVIOUS
  <1>4. answer = [i \in 1..n |-> Rec(7 - i, wps[i][1], wps[i][2])]
    BY <1>2, <1>3 DEF RecordsOf
  <1>5. ASSUME NEW i \in 1..n PROVE answer[i] \in Records /\ answer[i].host = 7 - i
    <2>1. PICK w \in MCWeights, o \in {1, 2} : wps[i][1] = w /\ wps[i][2] = o
      <3>1. wps[i] \in MCWeights \X {1, 2}
        BY <1>2
      <3>2. QED
        BY <3>1
    <2>2. answer[i] = [priority |-> o, weight |-> w, host |-> 7 - i]
      BY <1>4, <2>1 DEF Rec
    <2>3. o \in Nat /\ w \in Nat /\ 7 - i \in Nat
      BY <1>2 DEF MCWeights
    <2>4. QED
      BY <2>2, <2>3 DEF Records
  <1>6. Len(answer) = n /\ answer \in Seq(Records)
    <2>1. \A i \in 1..n : answer[i] \in Records
      BY <1>5
    <2>2. n \in Nat
      OBVIOUS
    <2>3. QED
      BY <1>4, <2>1, <2>2
  <1>7. ASSUME NEW i \in 1..n, NEW j \in 1..n, answer[i].host = answer[j].host PROVE i = j
    <2>1. 7 - i = 7 - j
      BY <1>5, <1>7
    <2>2. QED
      BY <2>1
  <1>8. HostsDiffer(answer)
    BY <1>6, <1>7 DEF HostsDiffer
  <1>9. QED
    BY <1>3, <1>8

\* A function from 1..n to numbers is a list of numbers.
LEMMA ListsOfNumbers ==
    ASSUME NEW n \in Nat, NEW S, S \subseteq Nat, NEW ws \in [1..n -> S]
    PROVE  ws \in Seq(Nat)
  <1>1. \A i \in 1..n : ws[i] \in Nat
    OBVIOUS
  <1>2. ws = [i \in 1..n |-> ws[i]]
    OBVIOUS
  <1>3. QED
    BY <1>1, <1>2

\* So what the balancers rely on holds of every answer and weight the run tries.
LEMMA InstancesFair == InstancesAreFair
  <1>1. \A wps \in MCAnswers : Srv!InstancesOfBest(RecordsOf(wps), 100)
    <2>1. ASSUME NEW wps \in MCAnswers PROVE Srv!InstancesOfBest(RecordsOf(wps), 100)
      <3>1. HostsDiffer(RecordsOf(wps)) /\ 100 \in Nat
        BY AnswersDiffer
      <3>2. QED
        BY <3>1, BestAlwaysListed
    <2>2. QED
      BY <2>1
  <1>2. ASSUME NEW ws \in UNION {[1..n -> MCWeights] : n \in 1..3} PROVE ws \in Seq(Nat)
    <2>1. PICK n \in 1..3 : ws \in [1..n -> MCWeights]
      OBVIOUS
    <2>2. n \in Nat /\ MCWeights \subseteq Nat
      BY DEF MCWeights
    <2>3. QED
      BY <2>1, <2>2, ListsOfNumbers
  <1>3. ASSUME NEW ws \in [1..5 -> MCFewWeights] PROVE ws \in Seq(Nat)
    <2>1. MCFewWeights \subseteq Nat
      BY DEF MCFewWeights
    <2>2. QED
      BY <2>1, ListsOfNumbers
  <1>4. ASSUME NEW ws \in UNION {[1..n -> MCWeights] : n \in 1..3}
        PROVE  /\ Srv!SharesAreFair(ws, 100) /\ Srv!Irreducible(ws, 100)
               /\ Srv!ListIsShort(ws, 100) /\ Srv!LargestIsListed(ws, 100)
    <2>1. ws \in Seq(Nat) /\ 100 \in Nat
      BY <1>2
    <2>2. QED
      BY <2>1, SharesAlwaysFair, ListIrreducible, ListAlwaysShort, LargestAlwaysListed
  <1>5. ASSUME NEW ws \in [1..5 -> MCFewWeights]
        PROVE  Srv!ListIsShort(ws, 3) /\ Srv!LargestIsListed(ws, 3)
    <2>1. ws \in Seq(Nat) /\ 3 \in Nat
      BY <1>3
    <2>2. QED
      BY <2>1, ListAlwaysShort, LargestAlwaysListed
  <1>6. QED
    BY <1>1, <1>4, <1>5, Zenon DEF InstancesAreFair

\* What the balancers rely on holds in every state of the run.
THEOREM InstancesAreFairCorrect == Spec => []InstancesAreFair
  BY InstancesFair, PTL

==============================================================================
