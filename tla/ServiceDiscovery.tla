-------------------------- MODULE ServiceDiscovery --------------------------
(***************************************************************************)
(* A backend with service discovery: the DNS subscriber of sd/dnssrv       *)
(* refreshes a cached list of instances, and the balancers of              *)
(* sd/loadbalancing.go pick one of them for every request that reaches the *)
(* load balancing middleware.  The cache is a slice (a pointer to an array *)
(* and a length) behind a sync.RWMutex; the round robin counter is an      *)
(* unsigned integer that wraps around.  A subscriber without service       *)
(* discovery (sd.FixedSubscriber) is a cache that is never written.        *)
(***************************************************************************)
EXTENDS Integers, Sequences, FiniteSets, Functions

CONSTANTS
    Client,        \* the goroutines serving requests
    Host,          \* the instances
    Answer,        \* the answers of the DNS server, each the list of instances
                   \* that SrvWeights makes of its records
    ShuffleAbove,  \* longer lists are shuffled: 100
    CounterMod,    \* the values of the round robin counter: 2^64
    MaxChanges     \* bound: how often the answer of the DNS server changes

\* The length of a slice is an int, and the counter has more values than that.
ASSUME AnswerAssumption == Answer \subseteq Seq(Host) /\ \A a \in Answer : Len(a) <= CounterMod
ASSUME NumbersAssumption == CounterMod \in Nat \ {0} /\ MaxChanges \in Nat /\ ShuffleAbove \in Nat

VARIABLES
    kind,      \* the balancer: round robin, random, or the only host
    dns,       \* what the DNS server answers
    changes,   \* how often that changed
    wasEmpty,  \* observer: the DNS server has answered with no instances
    ready,     \* the subscriber was handed out
    upd,       \* where the goroutine that updates the cache is
    resolved,  \* the list it resolved
    cache,     \* the slice: an array and a length
    pc,        \* where each client is
    view,      \* its copy of the slice header
    counter,   \* roundRobinLB.counter
    recent,    \* observer: the latest offsets picked from one list, in order
    full       \* observer: at the start of its call the cache had hosts

dnsVars == <<dns, changes, wasEmpty>>
updVars == <<ready, upd, resolved, cache>>
clientVars == <<pc, view, counter, recent, full>>
vars == <<kind, dnsVars, updVars, clientVars>>

Slice(list) == [array |-> list, len |-> Len(list)]
NoSlice == Slice(<< >>)

Init ==
    /\ dns \in Answer
    /\ changes = 0
    /\ wasEmpty = (dns = << >>)
    /\ resolved = << >>
    /\ pc = [c \in Client |-> "idle"]
    /\ view = [c \in Client |-> NoSlice]
    /\ full = [c \in Client |-> FALSE]
    /\ recent = << >>
    /\ \/ \* dnssrv.New: the first update is done by the caller
          /\ kind \in {"roundrobin", "random"}
          /\ upd = "resolving" /\ ready = FALSE
          /\ cache = NoSlice
          /\ counter = 0
       \/ \* FixedSubscriber: the list of the configuration
          /\ upd = "none" /\ ready = TRUE
          /\ \E a \in Answer : cache = Slice(a)
          /\ IF cache.len = 1 THEN kind = "nop" ELSE kind \in {"roundrobin", "random"}
          /\ IF kind = "roundrobin" /\ cache.len > 1
             THEN counter \in 0..(cache.len - 1) ELSE counter = 0

-----------------------------------------------------------------------------
(* The goroutine of the subscriber                                         *)

\* The Lock is announced: new readers wait.
WriterWaits == upd \in {"locking", "storing", "storinglen"}

Reading == {c \in Client : pc[c] \in {"reading", "readinglen"}}

Shuffles(list) ==
    IF Len(list) <= ShuffleAbove THEN {list}
    ELSE {s \in [1..Len(list) -> Range(list)] :
            \E p \in Bijection(1..Len(list), 1..Len(list)) : \A n \in 1..Len(list) : s[n] = list[p[n]]}

\* The DNS server publishes another answer.
DnsChanges ==
    /\ changes < MaxChanges
    /\ dns' \in Answer
    /\ changes' = changes + 1
    /\ wasEmpty' = (wasEmpty \/ dns' = << >>)
    /\ UNCHANGED <<kind, updVars, clientVars>>

\* <-time.After(s.ttl)
Wake ==
    /\ upd = "sleeping"
    /\ upd' = "resolving"
    /\ UNCHANGED <<kind, dnsVars, ready, resolved, cache, clientVars>>

LookupOk ==
    /\ upd = "resolving"
    /\ resolved' = dns
    /\ upd' = "locking"
    /\ UNCHANGED <<kind, dnsVars, ready, cache, clientVars>>

\* A bug to guard against: what resolve returns with an error is stored.
LookupFailsStored ==
    /\ upd = "resolving"
    /\ resolved' = << >>
    /\ upd' = "locking"
    /\ UNCHANGED <<kind, dnsVars, ready, cache, clientVars>>

\* if err != nil { return }
LookupFails ==
    /\ upd = "resolving"
    /\ upd' = "sleeping"
    /\ ready' = TRUE
    /\ UNCHANGED <<kind, dnsVars, resolved, cache, clientVars>>

\* s.mutex.Lock()
Lock ==
    /\ upd = "locking"
    /\ Reading = {}
    /\ upd' = "storing"
    /\ UNCHANGED <<kind, dnsVars, ready, resolved, cache, clientVars>>

\* *(s.cache) = sd.FixedSubscriber(instances), two words at least
StoreArray ==
    /\ upd = "storing"
    /\ \E list \in Shuffles(resolved) : cache' = [cache EXCEPT !.array = list]
    /\ upd' = "storinglen"
    /\ UNCHANGED <<kind, dnsVars, ready, resolved, clientVars>>

\* ... and the deferred Unlock
StoreLen ==
    /\ upd = "storinglen"
    /\ cache' = [cache EXCEPT !.len = Len(resolved)]
    /\ upd' = "sleeping"
    /\ ready' = TRUE
    /\ UNCHANGED <<kind, dnsVars, resolved, clientVars>>

-----------------------------------------------------------------------------
(* A request reaches lb.Host()                                             *)

Call(c) ==
    /\ pc[c] = "idle" /\ ready
    \* nopBalancer: the one host of the configuration
    /\ pc' = [pc EXCEPT ![c] = IF kind = "nop" THEN "picked" ELSE "wanting"]
    /\ full' = [full EXCEPT ![c] = cache.len > 0]
    /\ UNCHANGED <<kind, dnsVars, updVars, view, counter, recent>>

\* A bug to guard against: the cache is read without the lock.
RLockNone(c) ==
    /\ pc[c] = "wanting"
    /\ pc' = [pc EXCEPT ![c] = "reading"]
    /\ UNCHANGED <<kind, dnsVars, updVars, view, counter, recent, full>>

\* A bug to guard against: readers overtake a writer that waits.
RLockBarging(c) ==
    /\ pc[c] = "wanting"
    /\ upd \notin {"storing", "storinglen"}
    /\ pc' = [pc EXCEPT ![c] = "reading"]
    /\ UNCHANGED <<kind, dnsVars, updVars, view, counter, recent, full>>

\* s.mutex.RLock()
RLock(c) ==
    /\ pc[c] = "wanting"
    /\ ~WriterWaits
    /\ pc' = [pc EXCEPT ![c] = "reading"]
    /\ UNCHANGED <<kind, dnsVars, updVars, view, counter, recent, full>>

ReadArray(c) ==
    /\ pc[c] = "reading"
    /\ view' = [view EXCEPT ![c].array = cache.array]
    /\ pc' = [pc EXCEPT ![c] = "readinglen"]
    /\ UNCHANGED <<kind, dnsVars, updVars, counter, recent, full>>

\* ... the copy, the deferred RUnlock, and the check of balancer.hosts
ReadLen(c) ==
    /\ pc[c] = "readinglen"
    /\ view' = [view EXCEPT ![c].len = cache.len]
    /\ pc' = [pc EXCEPT ![c] = IF cache.len = 0 THEN "nohosts" ELSE "picking"]
    /\ UNCHANGED <<kind, dnsVars, updVars, counter, recent, full>>

\* What the atomic add returned, minus one: unsigned.
Ticket(n) == (n + CounterMod - 1) % CounterMod

\* The observer follows one list until it is replaced or the counter wraps.
Observe(list, ticket) ==
    LET pick == <<list, ticket % Len(list)>>
        last == IF recent = << >> THEN pick ELSE recent[Len(recent)]
    IN IF ticket = 0 \/ last[1] # list THEN <<pick>>
       ELSE IF Len(recent) < Len(list) THEN Append(recent, pick)
       ELSE Append(Tail(recent), pick)

\* The host at the offset is handed to the request: data, not kept here.
Pick(c) ==
    /\ pc' = [pc EXCEPT ![c] = "picked"]
    /\ view' = [view EXCEPT ![c] = NoSlice]
    /\ full' = [full EXCEPT ![c] = FALSE]
    /\ UNCHANGED <<kind, dnsVars, updVars>>

\* A bug to guard against: the counter is read and not advanced.
RoundRobinStuck(c) ==
    /\ pc[c] = "picking" /\ kind = "roundrobin"
    /\ Pick(c)
    /\ recent' = Observe(view[c].array, Ticket(counter + 1))
    /\ UNCHANGED counter

\* hosts[(atomic.AddUint64(&r.counter, 1) - 1) % uint64(len(hosts))]
RoundRobin(c) ==
    /\ pc[c] = "picking" /\ kind = "roundrobin"
    /\ counter' = (counter + 1) % CounterMod
    /\ Pick(c)
    /\ recent' = Observe(view[c].array, Ticket(counter'))

\* hosts[int(r.rand(uint32(len(hosts))))]
Random(c) ==
    /\ pc[c] = "picking" /\ kind = "random"
    /\ Pick(c)
    /\ UNCHANGED <<counter, recent>>

\* The request goes on to the host, or is answered with ErrNoHosts.
Return(c) ==
    /\ pc[c] \in {"picked", "nohosts"}
    /\ pc' = [pc EXCEPT ![c] = "idle"]
    /\ view' = [view EXCEPT ![c] = NoSlice]
    /\ full' = [full EXCEPT ![c] = FALSE]
    /\ UNCHANGED <<kind, dnsVars, updVars, counter, recent>>

Update == Wake \/ Lock \/ StoreArray \/ StoreLen
Serve(c) == ReadArray(c) \/ ReadLen(c) \/ RoundRobin(c) \/ Random(c) \/ Return(c)

Next ==
    \/ DnsChanges \/ LookupOk \/ LookupFails \/ Update
    \/ \E c \in Client : Call(c) \/ RLock(c) \/ Serve(c)

Spec == Init /\ [][Next]_vars

(***************************************************************************)
(* Goroutines run and timers fire.  RWMutex lets the readers that wait in  *)
(* before the next writer, hence SF for RLock; a writer that announced     *)
(* itself needs no more than WF.  Of the DNS server it is assumed that a   *)
(* lookup repeated for ever succeeds again and again.                      *)
(***************************************************************************)
FairSpec ==
    /\ Spec
    /\ WF_vars(Update)
    /\ SF_vars(LookupOk) /\ WF_vars(LookupOk \/ LookupFails)
    /\ \A c \in Client : SF_vars(RLock(c)) /\ WF_vars(Serve(c))

-----------------------------------------------------------------------------
(* Properties                                                              *)

SliceType == [array : Seq(Host), len : Nat]

TypeOK ==
    /\ kind \in {"roundrobin", "random", "nop"}
    /\ dns \in Answer
    /\ changes \in 0..MaxChanges
    /\ wasEmpty \in BOOLEAN
    /\ ready \in BOOLEAN
    /\ upd \in {"none", "resolving", "locking", "storing", "storinglen", "sleeping"}
    /\ resolved \in Seq(Host)
    /\ cache \in SliceType
    /\ pc \in [Client -> {"idle", "wanting", "reading", "readinglen", "picking", "picked", "nohosts"}]
    /\ view \in [Client -> SliceType]
    /\ counter \in 0..(CounterMod - 1)
    /\ recent \in Seq(Seq(Host) \X Nat)
    /\ full \in [Client -> BOOLEAN]

(***************************************************************************)
(* A balancer never works on half a slice: the copy it got from Hosts()    *)
(* has the length of its array, so the offset it computes from that length *)
(* is inside the list, whatever update() does meanwhile.                   *)
(***************************************************************************)
WholeSnapshot ==
    \A c \in Client : pc[c] \in {"picking", "picked", "nohosts"} =>
        view[c].len = Len(view[c].array)

(***************************************************************************)
(* A backend that had hosts loses them only because the DNS server says    *)
(* so, never because a lookup failed: a call that starts with hosts in the *)
(* cache gets ErrNoHosts only if some answer published so far was empty.   *)
(***************************************************************************)
LastGoodKept ==
    \A c \in Client : (pc[c] = "nohosts" /\ full[c]) => wasEmpty

\* The lock: nobody copies the slice while it is being replaced.
StoringAlone == upd \in {"storing", "storinglen"} => Reading = {}

\* Only in between the two stores do the words of the slice disagree.
SliceWhole ==
    IF upd = "storinglen" THEN Len(cache.array) = Len(resolved)
    ELSE cache.len = Len(cache.array)

\* Half a copy is half of the present slice.
CopyInProgress ==
    \A c \in Client :
        /\ pc[c] = "idle" => view[c] = NoSlice
        /\ pc[c] = "readinglen" => view[c].array = cache.array
        /\ pc[c] = "picking" => view[c].len > 0

\* No hosts were published before no hosts are resolved, stored or missed.
EmptyExplained ==
    /\ dns = << >> => wasEmpty
    /\ (WriterWaits /\ resolved = << >>) => wasEmpty
    /\ \A c \in Client : (full[c] /\ cache.len = 0) => wasEmpty

\* One list was picked from by the tickets up to this one, modulo its length.
AreLatest(picks, ticket) ==
    LET list == picks[1][1]
    IN /\ list \in Seq(Host)
       /\ Len(picks) <= Len(list) /\ Len(picks) <= ticket + 1
       /\ \A n \in DOMAIN picks :
            picks[n] = <<list, (ticket - (Len(picks) - n)) % Len(list)>>

LatestTickets == recent # << >> => AreLatest(recent, Ticket(counter))

(***************************************************************************)
(* The cache and what its readers see of it, in one inductive invariant:   *)
(* everything has its type, a balancer works on a whole slice, hosts are   *)
(* lost only when the DNS server withdraws them, and the picks follow the  *)
(* tickets; with what the lock and the half done copies owe to that.       *)
(***************************************************************************)
CacheInv ==
    /\ TypeOK /\ WholeSnapshot /\ LastGoodKept
    /\ StoringAlone /\ SliceWhole /\ CopyInProgress /\ EmptyExplained
    /\ LatestTickets

(***************************************************************************)
(* Round robin is fair among concurrent requests: as many consecutive      *)
(* picks as the list is long, taken from one list by any clients and with  *)
(* no wrap of the counter in between, use every entry of it once.          *)
(***************************************************************************)
RoundRobinFair ==
    \A m, n \in DOMAIN recent :
        (m < n /\ n - m < Len(recent[1][1])) => recent[m][2] # recent[n][2]

(***************************************************************************)
(* Readers do not starve the update: once the DNS server has settled, the  *)
(* cache is its answer for good.                                           *)
(***************************************************************************)
Converges ==
    (upd # "none") => <>[](\E list \in Shuffles(dns) : cache = Slice(list))

=============================================================================
