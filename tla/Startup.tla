------------------------------- MODULE Startup -------------------------------
(***************************************************************************)
(* A gateway from its configuration to its end: ConfigInit reads and       *)
(* completes the configuration, PluginLoading fills the registers,         *)
(* AsyncAgent starts the agents, Routing registers the handlers of the     *)
(* endpoints, and ServerLifecycle serves and stops.  Between the endpoints *)
(* and the server the plugins wrap the handler, since the RunServer of the *)
(* plugins is the one the router was given.                                *)
(*                                                                         *)
(* The main program is not part of the repository; the order of its calls  *)
(* is the one of the README: parse, build the router, run it.  It starts   *)
(* the agents first and has a router only if there are endpoints; one      *)
(* context is handed to both.                                              *)
(***************************************************************************)
EXTENDS Integers, Sequences

CONSTANTS
    Services, Sequential, Titled, Durations, Reserved, Decoders, ToLower, Alias, Texts, Default,  \* ConfigInit
    Plugins, Names, Fifos, MaxFiles,      \* as in PluginLoading
    MaxAttempts, MaxAgents, RngLen,       \* as in AsyncAgent
    TitleWord,                            \* as in Routing
    Configs, Requests, Polite,            \* as in ServerLifecycle
    Setups  \* [file, colon, files, fifo, user, crew, site, cfg]: one deployment

VARIABLES file, svc, at, pending, err
VARIABLES files, k, step, registry, loaded, errors, fifo, handler, executor, user, stage
VARIABLES crew, agentAt, factoryAt, start, offered, agent, attempt, index, groupDone, groupErr
VARIABLES colon, site, todo, seen, routes, catalog, transport, panicked
VARIABLES cfg, pc, keys, serve, stopping, ctxDone, timer, req, result

C == INSTANCE ConfigInit
P == INSTANCE PluginLoading
A == INSTANCE AsyncAgent WITH cfg <- crew, i <- agentAt, f <- factoryAt, ctxDone <- groupDone
R == INSTANCE Routing WITH endpoints <- svc.endpoints
S == INSTANCE ServerLifecycle

configVars == <<file, svc, at, pending, err>>
pluginVars == <<files, k, step, registry, loaded, errors, fifo, handler, executor, user, stage>>
agentVars == <<crew, agentAt, factoryAt, start, offered, agent, attempt, index, groupDone, groupErr>>
routerVars == <<colon, site, todo, seen, routes, catalog, transport, panicked>>
serverVars == <<cfg, pc, keys, serve, stopping, ctxDone, timer, req, result>>
vars == <<configVars, pluginVars, agentVars, routerVars, serverVars>>

\* A plugin registers factories under names.
ASSUME PluginsAssumption ==
    /\ MaxFiles \in Nat
    /\ Plugins \subseteq
         [opens : BOOLEAN, panics : BOOLEAN,
          registers : Seq([name : Names, kind : {"ok", "error", "wrongType"}])]

\* A duration is a number; the default is one a call can have.  Nobody takes
\* the paths of the service.
ASSUME ConfigAssumption ==
    /\ Durations \in [DOMAIN Durations -> Int] /\ Default \in Int \ {0}
    /\ Texts \subseteq Seq(STRING)
    /\ R!OwnPaths \subseteq Reserved

ASSUME BoundsAssumption == MaxAttempts \in Nat /\ RngLen \in Nat \ {0}

\* Each endpoint of the configuration has an outcome when its pipe is built,
\* and each agent one when there are factories to offer it to.
ASSUME SetupsAssumption ==
    \A s \in Setups :
        /\ s.files \in Seq(Plugins) /\ Len(s.files) <= MaxFiles
        /\ s.fifo \in Seq(Names) /\ s.user \in {"server", "client"}
        /\ C!WellFormed(s.file) /\ A!WellFormed(s.crew) /\ S!WellFormed(s.cfg)
        /\ R!WellFormed(s.site)
        /\ Len(s.site.build) = Len(s.file.endpoints)
        /\ s.crew.factories > 0 => Len(s.crew.agents) = Len(s.file.agents)

Init ==
    /\ \E s \in Setups :
        /\ file = s.file /\ files = s.files /\ fifo = s.fifo /\ user = s.user
        /\ crew = s.crew /\ colon = s.colon /\ site = s.site /\ cfg = s.cfg
    /\ C!Begin /\ P!Begin /\ A!Begin /\ R!Begin /\ S!Begin

HasRouter == svc.endpoints # << >>

\* parser.Parse, which ends with ServiceConfig.Init, and Normalize.
Parse == C!Next /\ UNCHANGED <<pluginVars, agentVars, routerVars, serverVars>>

\* A program that got an error stops.
LoadPlugins ==
    /\ C!Accepted
    /\ P!Open \/ P!RegisterOne \/ P!OpenReturns \/ P!LoadReturns
    /\ UNCHANGED <<configVars, agentVars, routerVars, serverVars>>

StartAgents ==
    /\ stage # "load"
    /\ A!Start
    /\ UNCHANGED <<configVars, pluginVars, routerVars, serverVars>>

\* The executors of the backends are made with the pipes of the endpoints.
BuildExecutors ==
    /\ R!Registering("endpoints")
    /\ \E n \in Names : P!BuildExecutor(n)
    /\ UNCHANGED <<configVars, agentVars, routerVars, serverVars>>

RegisterEndpoints ==
    /\ UNCHANGED <<configVars, pluginVars, agentVars, colon, serverVars>>
    /\ stage # "load" /\ start # "running" /\ HasRouter
    /\ R!Run

\* The plugin server's RunServer wraps the handler before it calls the next.
WrapHandlers ==
    /\ R!Done
    /\ P!WrapHandler \/ P!HandlerReady
    /\ UNCHANGED <<configVars, agentVars, routerVars, serverVars>>

RunServer ==
    /\ R!Done /\ stage \in {"client", "serving"}
    /\ \/ S!PlainHTTP \/ S!CollectKeys \/ S!LoadKey \/ S!KeysLoaded
       \/ S!ServerFailed \/ S!BeginShutdown \/ S!Drained \/ S!ShutdownTimeout
    /\ UNCHANGED <<configVars, pluginVars, agentVars, routerVars>>

Serve ==
    /\ S!Listen \/ S!ListenerClosed \/ S!ListenerBroken
    /\ UNCHANGED <<configVars, pluginVars, agentVars, routerVars>>

\* Before the server is started a request goes nowhere.
Request(r) ==
    /\ serve # "none"
    /\ S!Arrive(r) \/ S!Answer(r) \/ S!Stream(r)
    /\ UNCHANGED <<configVars, pluginVars, agentVars, routerVars>>

RunAgent(a) ==
    /\ a \in A!Agents
    /\ A!Connect(a) \/ A!ConnectFails(a) \/ A!BackoffOver(a) \/ A!ConnectionLost(a)
    /\ UNCHANGED <<configVars, pluginVars, routerVars, serverVars>>

\* An agent draws its jitter, or heeds the end of its context.
AgentSettles(a) ==
    /\ a \in A!Agents
    /\ A!Stop(a) \/ A!Jitter(a)
    /\ UNCHANGED <<configVars, pluginVars, routerVars, serverVars>>

\* A signal ends the context, at any time once the router and the agents have it.
Signal ==
    /\ C!Accepted /\ stage # "load"
    /\ HasRouter => R!Done
    /\ S!Cancel
    /\ groupDone' = TRUE
    /\ UNCHANGED <<crew, agentAt, factoryAt, start, offered, agent, attempt, index, groupErr>>
    /\ UNCHANGED <<configVars, pluginVars, routerVars>>

Main == A!Alive /\ (Parse \/ LoadPlugins \/ StartAgents \/ RegisterEndpoints \/ WrapHandlers \/ RunServer)

\* A goroutine that panics takes the program with it.
Next ==
    \/ Main
    \/ /\ A!Alive
       /\ \/ BuildExecutors \/ Serve \/ Signal
          \/ \E r \in Requests : Request(r)
          \/ \E a \in 1..MaxAgents : RunAgent(a) \/ AgentSettles(a)

Spec == Init /\ [][Next]_vars

\* The scheduler runs the goroutines, agents heed their context when it ends,
\* and the handlers of Polite return.
FairSpec ==
    /\ Spec
    /\ WF_vars(Main)
    /\ WF_vars(A!Alive /\ Serve /\ (serve = "starting" \/ stopping))
    /\ \A r \in Polite : WF_vars(A!Alive /\ Request(r) /\ req[r] = "open")
    /\ \A a \in 1..MaxAgents : WF_vars(A!Alive /\ AgentSettles(a))

-----------------------------------------------------------------------------
(* Properties: of each part, with what the others made of its input        *)

\* ConfigInit.ConfigInv: what an accepted configuration guarantees.
ConfigInv == C!ConfigInv

\* PluginLoading.LoaderInv: files counted, registrations that last.
LoaderInv == P!LoaderInv

\* AsyncAgent.AgentsInv: agents offered in turn, that give up on their own.
AgentsInv == A!AgentsInv

\* Routing.RoutingInv: requests get to their endpoints with their parameters.
RoutingInv == R!RoutingInv

\* ServerLifecycle.ServerInv: certificates, errors and requests of the server.
ServerInv == S!ServerInv

\* A request enters only after all the parts are done ...
RequestsEnterReady ==
    [][\A r \in Requests : (req[r] # "open" /\ req'[r] = "open") =>
        /\ C!Accepted
        /\ R!Done /\ seen = Len(svc.endpoints) /\ transport
        /\ loaded + Len(errors) = Len(files)
        /\ user = "server" => fifo = << >> /\ stage = "serving"]_vars

\* ... and agents are offered only what the configuration says.
AgentsWaitForConfig == [][offered' # offered => C!Accepted]_vars

(***************************************************************************)
(* A request is let in only into a gateway that is ready: its              *)
(* configuration was accepted, every plugin of the folder has been tried,  *)
(* each endpoint was considered and nothing panicked, the transport of the *)
(* backends is the configured one, the handler is wrapped in all the       *)
(* factories it asks for that work, in their order, and the certificates   *)
(* are loaded.  No agent is offered before the configuration was accepted. *)
(***************************************************************************)
StartsInOrder ==
    P!WrappedInOrder /\ S!ServesWhenReady /\ RequestsEnterReady /\ AgentsWaitForConfig

(***************************************************************************)
(* A signal ends the gateway: RunServer as ServerLifecycle.CancelEndsRun   *)
(* says, and the agents with it.                                           *)
(***************************************************************************)
CancelEndsRun ==
    /\ (ctxDone /\ HasRouter) ~>
            \/ pc = "returned"
            \/ ~cfg.timeout /\ \E r \in Requests \ Polite : req[r] = "open" /\ ~S!Hijacked(r)
    /\ (ctxDone /\ start = "wait") ~> (start = "returned" \/ ~A!Alive)

(***************************************************************************)
(* config.go says that URLKeys is the list of keys to be replaced in the   *)
(* URL pattern.  Routing.KeysAreReplaced, which does not hold.             *)
(***************************************************************************)
KeysAreReplaced == R!KeysAreReplaced

\* AsyncAgent.FailureEndsAll: an agent that fails ends the others.
FailureEndsAll == A!FailureEndsAll

=============================================================================
