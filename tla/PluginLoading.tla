--------------------------- MODULE PluginLoading ---------------------------
(***************************************************************************)
(* The plugins: the loaders open the files of a folder one after the other *)
(* and let each register factories by name; a panic of one of them is its  *)
(* own error.  The three loaders (of handlers of the server, of clients,   *)
(* of modifiers) are the same code, each with a register of its own; one   *)
(* behaviour is about one of them.  What handlers and clients are used for *)
(* follows: the handler is wrapped in what the factories named in the      *)
(* configuration return, the executor of a backend is replaced.  Modifiers *)
(* are in EndpointPipe.                                                    *)
(*                                                                         *)
(* Opening a shared object is the Go runtime's.                            *)
(***************************************************************************)
EXTENDS Naturals, SequencesExt

CONSTANTS
    Plugins,  \* what a plugin may be: [opens, registers, panics]
    Names,
    Fifos,    \* the names the configuration of the server may list
    MaxFiles  \* bound: files of the folder

VARIABLES
    files,      \* the folder, in the order of os.ReadDir
    k,          \* the plugin being loaded
    step,       \* the registration it is about to make
    registry,   \* the register: the factory of each name
    loaded,     \* loadedPlugins
    errors,     \* the plugins that gave an error
    fifo,       \* the names the server still has to apply
    handler,    \* the handler: the factories that wrap it, the outermost last
    executor,   \* the executor of a backend for each name it may ask for
    user,       \* who uses the register
    stage

vars == <<files, k, step, registry, loaded, errors, fifo, handler, executor, user, stage>>

None == [name |-> "none", from |-> 0, kind |-> "none"]

Begin ==
    /\ k = 1 /\ step = 0
    /\ registry = [n \in Names |-> None]
    /\ loaded = 0 /\ errors = << >>
    /\ handler = << >>
    /\ executor = [n \in Names |-> None]
    /\ stage = "load"

Init ==
    /\ files \in UNION {[1..n -> Plugins] : n \in 0..MaxFiles}
    /\ fifo \in Fifos
    /\ user \in {"server", "client"}
    /\ Begin

-----------------------------------------------------------------------------
(* load and open                                                           *)

\* A bug to guard against: the index is advanced by the loop and before continue.
PluginFailedSkips ==
    /\ errors' = Append(errors, k)
    /\ k' = k + 2 /\ step' = 0
    /\ UNCHANGED loaded

PluginFailed ==
    /\ errors' = Append(errors, k)
    /\ k' = k + 1 /\ step' = 0
    /\ UNCHANGED loaded

\* pluginOpener, Lookup and the assertion to Registerer.
Open ==
    /\ stage = "load" /\ k <= Len(files) /\ step = 0
    /\ IF files[k].opens THEN step' = 1 /\ UNCHANGED <<k, errors, loaded>>
       ELSE PluginFailed
    /\ UNCHANGED <<files, registry, fifo, handler, executor, user, stage>>

\* rcf(name, factory), called by the plugin.
RegisterOne ==
    /\ stage = "load" /\ k <= Len(files) /\ step \in DOMAIN files[k].registers
    /\ LET r == files[k].registers[step] IN
        registry' = [registry EXCEPT ![r.name] = [name |-> r.name, from |-> k, kind |-> r.kind]]
    /\ step' = step + 1
    /\ UNCHANGED <<files, k, loaded, errors, fifo, handler, executor, user, stage>>

\* A bug to guard against: a plugin that panicked ends the loop.
OpenReturnsStops ==
    /\ stage = "load" /\ k <= Len(files) /\ step = Len(files[k].registers) + 1
    /\ IF files[k].panics THEN errors' = Append(errors, k) /\ k' = Len(files) + 1 /\ step' = 0 /\ UNCHANGED loaded
       ELSE loaded' = loaded + 1 /\ k' = k + 1 /\ step' = 0 /\ UNCHANGED errors
    /\ UNCHANGED <<files, registry, fifo, handler, executor, user, stage>>

\* open returns; the deferred function turns a panic into its error.
OpenReturns ==
    /\ stage = "load" /\ k <= Len(files) /\ step = Len(files[k].registers) + 1
    /\ IF files[k].panics THEN PluginFailed
       ELSE loaded' = loaded + 1 /\ k' = k + 1 /\ step' = 0 /\ UNCHANGED errors
    /\ UNCHANGED <<files, registry, fifo, handler, executor, user, stage>>

LoadReturns ==
    /\ stage = "load" /\ k > Len(files)
    /\ stage' = user
    /\ UNCHANGED <<files, k, step, registry, loaded, errors, fifo, handler, executor, user>>

-----------------------------------------------------------------------------
(* The handler of the server                                               *)

\* A bug to guard against: each wrapper gets the handler of the router.
WrapHandlerForgets ==
    /\ stage = "server" /\ fifo # << >>
    /\ handler' = IF registry[Head(fifo)].kind = "ok" THEN <<registry[Head(fifo)]>> ELSE handler
    /\ fifo' = Tail(fifo)
    /\ UNCHANGED <<files, k, step, registry, loaded, errors, executor, user, stage>>

\* Unknown names, factories of another type and their errors are skipped.
WrapHandler ==
    /\ stage = "server" /\ fifo # << >>
    /\ handler' = IF registry[Head(fifo)].kind = "ok" THEN Append(handler, registry[Head(fifo)])
                  ELSE handler
    /\ fifo' = Tail(fifo)
    /\ UNCHANGED <<files, k, step, registry, loaded, errors, executor, user, stage>>

HandlerReady ==
    /\ stage = "server" /\ fifo = << >>
    /\ stage' = "serving"
    /\ UNCHANGED <<files, k, step, registry, loaded, errors, fifo, handler, executor, user>>

\* HTTPRequestExecutor: next(cfg) unless a factory gives a handler.
BuildExecutor(n) ==
    /\ stage = "client" /\ executor[n] = None
    /\ registry[n].kind = "ok"
    /\ executor' = [executor EXCEPT ![n] = registry[n]]
    /\ UNCHANGED <<files, k, step, registry, loaded, errors, fifo, handler, user, stage>>

Next ==
    \/ Open \/ RegisterOne \/ OpenReturns \/ LoadReturns
    \/ WrapHandler \/ HandlerReady
    \/ \E n \in Names : BuildExecutor(n)

Spec == Init /\ [][Next]_vars

-----------------------------------------------------------------------------
(* Properties                                                              *)

Factory == [name : Names, from : 1..MaxFiles, kind : {"ok", "error", "wrongType"}]

TypeOK ==
    /\ k \in 1..(Len(files) + 1) /\ step \in Nat
    /\ registry \in [Names -> Factory \cup {None}]
    /\ loaded \in 0..MaxFiles /\ errors \in Seq(1..MaxFiles)
    /\ handler \in Seq(Factory)
    /\ executor \in [Names -> Factory \cup {None}]
    /\ user \in {"server", "client"} /\ stage \in {"load", "server", "client", "serving"}

Failing(j) == ~files[j].opens \/ files[j].panics

(***************************************************************************)
(* Every file is accounted for: it is counted, or it has one error, in the *)
(* order of the folder.                                                    *)
(***************************************************************************)
EveryFileAccounted ==
    /\ loaded + Len(errors) = k - 1
    /\ ToSet(errors) = {j \in 1..(k - 1) : Failing(j)}
    /\ \A m \in 2..Len(errors) : errors[m - 1] < errors[m]
    /\ stage # "load" => k = Len(files) + 1

\* The names plugin j has registered by now.
RegisteredBy(j) ==
    {files[j].registers[m].name :
        m \in {m \in DOMAIN files[j].registers : files[j].opens /\ (j < k \/ (j = k /\ m < step))}}

\* Step by step: each name has the last plugin so far that registered it.
LastSoFar ==
    /\ k <= Len(files) => step \in 0..(Len(files[k].registers) + 1)
    /\ k > Len(files) => step = 0
    /\ step > 0 => files[k].opens
    /\ \A n \in Names :
        /\ registry[n].from \in {0} \cup {j \in DOMAIN files : n \in RegisteredBy(j)}
        /\ \A j \in DOMAIN files : n \in RegisteredBy(j) => j <= registry[n].from

(***************************************************************************)
(* What a plugin registered before it panicked stays: a name resolves to   *)
(* the last plugin of the folder that got as far as to register it,        *)
(* whether that plugin counts as loaded or not.                            *)
(***************************************************************************)
LastRegistrationWins ==
    stage # "load" =>
        \A n \in Names :
            LET from == {j \in DOMAIN files : files[j].opens /\
                            \E r \in ToSet(files[j].registers) : r.name = n} IN
            registry[n].from = Max({0} \cup from)

(***************************************************************************)
(* The register of the loader, in one inductive invariant: everything has  *)
(* its type, every file is accounted for, and the last registration of a   *)
(* name wins.                                                              *)
(***************************************************************************)
LoaderInv == TypeOK /\ EveryFileAccounted /\ LastSoFar /\ LastRegistrationWins

\* What the last n names of a list wrap the handler in, the first of them first.
Wrapping(s) ==
    LET last[n \in 0..Len(s)] ==
            IF n = 0 THEN << >>
            ELSE LET r == registry[s[Len(s) - n + 1]] IN
                 (IF r.kind = "ok" THEN <<r>> ELSE << >>) \o last[n - 1]
    IN last

(***************************************************************************)
(* The handler is wrapped by each usable factory the configuration lists,  *)
(* in its order, whichever of the others fail.                             *)
(***************************************************************************)
WrappedInOrder ==
    [][\/ handler' \o Wrapping(fifo')[Len(fifo')] = handler \o Wrapping(fifo)[Len(fifo)]
       \/ stage = "load"]_vars

=============================================================================
