----------------------------- MODULE AsyncAgent -----------------------------
(***************************************************************************)
(* async/asyncagent.go and backoff/backoff.go: Start offers every agent to *)
(* the factories in turn and returns the Wait of an error group.  What a   *)
(* factory runs in that group is external: it is modelled from the Options *)
(* it is given, as a goroutine that connects, and as long as               *)
(* ShouldContinue lets it waits BackoffF and tries again.                  *)
(*                                                                         *)
(* The jitter of all agents comes from one rand.Rand, which has no lock.   *)
(* Of its source (external, a ring of RngLen numbers) only the index that  *)
(* each draw moves down is modelled.                                       *)
(***************************************************************************)
EXTENDS Integers, Sequences

CONSTANTS
    Configs,      \* [factories, tap, agents]; agents[i] = [pipe, retries, jitter, takers]
    MaxAttempts,  \* bound: attempts of an agent looked at
    MaxAgents,    \* bound: agents of a configuration
    RngLen

\* What a configuration of agents is: the index is in the ring of the source.
WellFormed(c) ==
    /\ c.factories \in Nat
    /\ c.tap \in 0..(RngLen - 1)
    /\ c.agents \in Seq([pipe : BOOLEAN, retries : Int, jitter : BOOLEAN, takers : SUBSET Nat])

VARIABLES
    cfg,
    i, f,       \* Start: the agent, and the factory it is offered to
    start,      \* Start and the call of what it returned
    offered,    \* [agents -> the factories it was offered to]
    agent,      \* the goroutine of each agent
    attempt,    \* the attempts it made
    index,      \* rng.tap
    ctxDone,    \* the context of the group
    groupErr    \* the first agent that failed, or 0

vars == <<cfg, i, f, start, offered, agent, attempt, index, ctxDone, groupErr>>

Agents == DOMAIN cfg.agents
Working == {"connecting", "backoff", "move", "test", "wrap", "read"}

\* A bug to guard against: the closures share the variable of the loop.
ShouldContinueCaptured(a, n) ==
    LET last == cfg.agents[Len(cfg.agents)] IN last.retries <= 0 \/ n <= last.retries

\* if agent.Connection.MaxRetries <= 0 { agent.Connection.MaxRetries = math.MaxInt }
ShouldContinue(a, n) == cfg.agents[a].retries <= 0 \/ n <= cfg.agents[a].retries

Begin ==
    /\ i = 1 /\ f = 1
    /\ start = "running"
    /\ offered = [a \in Agents |-> << >>]
    /\ agent = [a \in Agents |-> "none"]
    /\ attempt = [a \in Agents |-> 0]
    /\ index = cfg.tap
    /\ ctxDone = FALSE
    /\ groupErr = 0

Init == cfg \in Configs /\ Begin

-----------------------------------------------------------------------------
(* AgentStarter.Start                                                      *)

NoAgents ==
    /\ start = "running" /\ i = 1 /\ cfg.factories = 0
    /\ start' = "ErrNoAgents"
    /\ UNCHANGED <<cfg, i, f, offered, agent, attempt, index, ctxDone, groupErr>>

\* pf.New(endpoint) failed: continue
BuildFails ==
    /\ start = "running" /\ cfg.factories > 0 /\ i \in Agents /\ f = 1
    /\ ~cfg.agents[i].pipe
    /\ i' = i + 1
    /\ UNCHANGED <<cfg, f, start, offered, agent, attempt, index, ctxDone, groupErr>>

\* A bug to guard against: the other factories are asked too.
OfferToAll ==
    /\ start = "running" /\ i \in Agents /\ f <= cfg.factories
    /\ cfg.agents[i].pipe
    /\ offered' = [offered EXCEPT ![i] = Append(@, f)]
    /\ agent' = [agent EXCEPT ![i] = IF f \in cfg.agents[i].takers THEN "connecting" ELSE @]
    /\ f' = IF f = cfg.factories THEN 1 ELSE f + 1
    /\ i' = IF f = cfg.factories THEN i + 1 ELSE i
    /\ UNCHANGED <<cfg, start, attempt, index, ctxDone, groupErr>>

\* if f(ctx, opts) { break }
Offer ==
    /\ start = "running" /\ i \in Agents /\ f <= cfg.factories
    /\ cfg.agents[i].pipe
    /\ offered' = [offered EXCEPT ![i] = Append(@, f)]
    /\ LET taken == f \in cfg.agents[i].takers IN
        /\ agent' = [agent EXCEPT ![i] = IF taken THEN "connecting" ELSE @]
        /\ f' = IF taken \/ f = cfg.factories THEN 1 ELSE f + 1
        /\ i' = IF taken \/ f = cfg.factories THEN i + 1 ELSE i
    /\ UNCHANGED <<cfg, start, attempt, index, ctxDone, groupErr>>

Started ==
    /\ start = "running" /\ cfg.factories > 0 /\ i > Len(cfg.agents)
    /\ start' = "wait"
    /\ UNCHANGED <<cfg, i, f, offered, agent, attempt, index, ctxDone, groupErr>>

\* g.Wait
Wait ==
    /\ start = "wait"
    /\ \A a \in Agents : agent[a] \notin Working
    /\ start' = "returned"
    /\ ctxDone' = TRUE
    /\ UNCHANGED <<cfg, i, f, offered, agent, attempt, index, groupErr>>

-----------------------------------------------------------------------------
(* The goroutines of the agents                                            *)

Alive == \A a \in Agents : agent[a] # "crashed"

Become(a, state) == agent' = [agent EXCEPT ![a] = state]
Quiet == UNCHANGED <<cfg, i, f, start, offered>>

\* A bug to guard against: one agent's failure is nobody else's.
FailAlone(a) ==
    /\ Become(a, "failed")
    /\ groupErr' = IF groupErr = 0 THEN a ELSE groupErr
    /\ UNCHANGED ctxDone

\* The goroutine returns an error, which ends the context of the group.
Fail(a) ==
    /\ Become(a, "failed")
    /\ groupErr' = IF groupErr = 0 THEN a ELSE groupErr
    /\ ctxDone' = TRUE

\* A connection that works lasts until the context ends.
Connect(a) ==
    /\ agent[a] = "connecting"
    /\ Become(a, "connected")
    /\ UNCHANGED <<attempt, index, ctxDone, groupErr>> /\ Quiet

ConnectFails(a) ==
    /\ agent[a] = "connecting" /\ attempt[a] < MaxAttempts
    /\ attempt' = [attempt EXCEPT ![a] = @ + 1]
    /\ IF ShouldContinue(a, attempt[a] + 1)
       THEN Become(a, IF cfg.agents[a].jitter THEN "move" ELSE "backoff")
            /\ UNCHANGED <<ctxDone, groupErr>>
       ELSE Fail(a)
    /\ UNCHANGED index /\ Quiet

BackoffOver(a) ==
    /\ agent[a] = "backoff"
    /\ Become(a, "connecting")
    /\ UNCHANGED <<attempt, index, ctxDone, groupErr>> /\ Quiet

ConnectionLost(a) ==
    /\ agent[a] = "connected" /\ attempt[a] < MaxAttempts
    /\ Become(a, "connecting")
    /\ UNCHANGED <<attempt, index, ctxDone, groupErr>> /\ Quiet

Stop(a) ==
    /\ agent[a] \in {"connecting", "backoff", "connected"} /\ ctxDone
    /\ Become(a, "stopped")
    /\ UNCHANGED <<attempt, index, ctxDone, groupErr>> /\ Quiet

-----------------------------------------------------------------------------
(* jitter: random.Intn, by the steps of the source                         *)

Move(a) ==
    /\ agent[a] = "move"
    /\ index' = index - 1
    /\ Become(a, "test")
    /\ UNCHANGED <<attempt, ctxDone, groupErr>> /\ Quiet

Test(a) ==
    /\ agent[a] = "test"
    /\ Become(a, IF index < 0 THEN "wrap" ELSE "read")
    /\ UNCHANGED <<attempt, index, ctxDone, groupErr>> /\ Quiet

Wrap(a) ==
    /\ agent[a] = "wrap"
    /\ index' = index + RngLen
    /\ Become(a, "read")
    /\ UNCHANGED <<attempt, ctxDone, groupErr>> /\ Quiet

Read(a) ==
    /\ agent[a] = "read"
    /\ Become(a, IF index \in 0..(RngLen - 1) THEN "backoff" ELSE "crashed")
    /\ UNCHANGED <<attempt, index, ctxDone, groupErr>> /\ Quiet

\* The service stops.
Cancel ==
    /\ ~ctxDone /\ start \in {"running", "wait"}
    /\ ctxDone' = TRUE
    /\ UNCHANGED <<cfg, i, f, start, offered, agent, attempt, index, groupErr>>

Start == NoAgents \/ BuildFails \/ Offer \/ Started \/ Wait

Jitter(a) == Move(a) \/ Test(a) \/ Wrap(a) \/ Read(a)

Next ==
    /\ Alive
    /\ \/ Start \/ Cancel
       \/ \E a \in Agents :
            \/ Connect(a) \/ ConnectFails(a) \/ BackoffOver(a) \/ ConnectionLost(a) \/ Stop(a)
            \/ Jitter(a)

Spec == Init /\ [][Next]_vars

\* Start and the agents run, and heed the context when it ends.
FairSpec ==
    /\ Spec
    /\ WF_vars(Alive /\ Start)
    /\ \A a \in 1..MaxAgents :
        WF_vars(Alive /\ a \in Agents /\ (Jitter(a) \/ Stop(a)))

-----------------------------------------------------------------------------
(* Properties                                                              *)

TypeOK ==
    /\ i \in 1..(Len(cfg.agents) + 1) /\ f \in {1} \cup 1..cfg.factories
    /\ start \in {"running", "wait", "returned", "ErrNoAgents"}
    /\ offered \in [Agents -> Seq(1..cfg.factories)]
    /\ agent \in [Agents -> Working \cup {"none", "connected", "failed", "stopped", "crashed"}]
    /\ attempt \in [Agents -> 0..MaxAttempts]
    /\ index \in Int
    /\ ctxDone \in BOOLEAN
    /\ groupErr \in Agents \cup {0}

OfferedToOne(a) ==
    LET n == Len(offered[a])  takers == cfg.agents[a].takers IN
    /\ offered[a] = [k \in 1..n |-> k]
    /\ n = 0 <=> ~cfg.agents[a].pipe
    /\ \A k \in 1..(n - 1) : k \notin takers
    /\ cfg.agents[a].pipe => n \in takers \/ (n = cfg.factories /\ agent[a] = "none")

\* How far Start is: agents before i were offered, i is at factory f, and those
\* behind it were not.
OfferedSoFar ==
    /\ start \in {"wait", "returned"} => cfg.factories > 0 /\ i > Len(cfg.agents)
    /\ f > 1 => i \in Agents /\ cfg.agents[i].pipe
    /\ \A a \in Agents :
        /\ a < i => OfferedToOne(a)
        /\ a >= i => /\ agent[a] = "none"
                    /\ offered[a] = [k \in 1..(IF a = i THEN f - 1 ELSE 0) |-> k]
        /\ a = i => \A k \in 1..(f - 1) : k \notin cfg.agents[a].takers

\* An agent that has not failed has retries left.
RetriesLeft ==
    \A a \in Agents : (cfg.agents[a].retries > 0 /\ agent[a] # "failed") =>
        attempt[a] <= cfg.agents[a].retries

\* While no two agents draw, the index is in the ring but for the steps of a draw.
DrawsAlone ==
    /\ \A a \in Agents : agent[a] \in {"move", "test", "wrap", "read"} => cfg.agents[a].jitter
    /\ (\A a, b \in Agents : cfg.agents[a].jitter /\ cfg.agents[b].jitter => a = b) =>
        /\ index \in -1..(RngLen - 1)
        /\ index = -1 => \E a \in Agents : agent[a] \in {"test", "wrap"}
        /\ \A a \in Agents : agent[a] = "test" => index < RngLen - 1
        /\ \A a \in Agents : agent[a] = "wrap" => index = -1

(***************************************************************************)
(* Every agent whose pipe was built is offered to the factories up to the  *)
(* first one that takes it, and an agent whose pipe was not is left out,   *)
(* whatever happened to the agents before it.                              *)
(***************************************************************************)
OfferedInTurn == start \in {"wait", "returned"} => \A a \in Agents : OfferedToOne(a)

(***************************************************************************)
(* An agent gives up only after its own retries, never after another's,    *)
(* and one without a limit does not give up.                               *)
(***************************************************************************)
GivesUpOnItsOwn ==
    \A a \in Agents : agent[a] = "failed" =>
        cfg.agents[a].retries > 0 /\ attempt[a] = cfg.agents[a].retries + 1

(***************************************************************************)
(* A draw of jitter panics only if two agents draw from the one source, at *)
(* the same time: an agent alone is safe.                                  *)
(***************************************************************************)
JitterSafeAlone ==
    ~Alive => \E a, b \in Agents : a # b /\ cfg.agents[a].jitter /\ cfg.agents[b].jitter

(***************************************************************************)
(* Start and its agents in one inductive invariant: everything has its     *)
(* type, agents are offered in turn, give up on their own, and do not      *)
(* panic alone.                                                            *)
(***************************************************************************)
AgentsInv ==
    /\ TypeOK /\ OfferedSoFar /\ RetriesLeft /\ DrawsAlone
    /\ OfferedInTurn /\ GivesUpOnItsOwn /\ JitterSafeAlone

(***************************************************************************)
(* The function Start returned ends once an agent has failed: the others   *)
(* are stopped through the context of the group.                           *)
(***************************************************************************)
FailureEndsAll == (groupErr # 0 /\ start # "ErrNoAgents") ~> (start = "returned" \/ ~Alive)

=============================================================================
