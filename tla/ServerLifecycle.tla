-------------------------- MODULE ServerLifecycle --------------------------
(***************************************************************************)
(* RunServer, from the TLS configuration to its end: the certificates are  *)
(* loaded, a goroutine serves, and the caller waits for its error or for   *)
(* the context, whose end shuts the server down.                           *)
(*                                                                         *)
(* net/http and crypto/tls are external: ListenAndServe, the connections,  *)
(* the handshake and Shutdown are modelled as the code uses them.  The     *)
(* channel done has no buffer.  TLS versions are numbers, 9 is SSL 3.0.    *)
(* With use_h2c a connection that speaks HTTP/2 without ALPN is hijacked:  *)
(* Shutdown neither waits for it nor closes it.                            *)
(***************************************************************************)
EXTENDS Integers, Sequences

CONSTANTS
    Configs,   \* [tls, legacy, keys, min, max, mtls, system, cas, timeout, h2c, clients]
    Requests,
    Polite     \* the requests whose handlers end by themselves

VARIABLES
    cfg,       \* the configuration; cas are files, "missing" cannot be read;
               \* clients are who makes the requests: [versions, issuer, h2c]
    pc,        \* where the goroutine of RunServer is
    keys,      \* cfg.TLS.Keys still to load
    serve,     \* the goroutine that serves
    stopping,  \* the server is shutting down
    ctxDone,   \* the context of the router is over
    timer,     \* the timeout of the shutdown
    req,       \* the requests: away, open, answered or refused
    result     \* what RunServer returned

vars == <<cfg, pc, keys, serve, stopping, ctxDone, timer, req, result>>

Started == {"listening", "stopped", "sent"}

\* What loading a key pair gives, and what a configuration is.  "missing" is a
\* file that cannot be read; nobody else is certified under a name of ours.
Outcome == {"ok", "ErrPublicKey", "ErrPrivateKey", "badPair"}
WellFormed(c) ==
    /\ c.tls \in {"none", "disabled", "on"}
    /\ c.keys \in Seq(Outcome) /\ c.legacy \in Seq(Outcome)
    /\ c.cas \cap {"none", "system", "keys", "legacy"} = {}
    /\ c.h2c \in BOOLEAN
    /\ \A r \in Requests : c.clients[r].versions \subseteq Int /\ c.clients[r].h2c \in BOOLEAN

Begin ==
    /\ pc = "tls"
    /\ keys = << >>
    /\ serve = "none"
    /\ stopping = FALSE /\ ctxDone = FALSE
    /\ timer = "off"
    /\ req = [r \in Requests |-> "away"]
    /\ result = "none"

Init == cfg \in Configs /\ Begin

-----------------------------------------------------------------------------
(* ParseTLSConfig                                                          *)

\* No section, or one that is disabled: the server has no TLS.
Secure == cfg.tls = "on"

Known == [n \in {"SSL3.0", "TLS10", "TLS11", "TLS12", "TLS13"} |->
            CASE n = "SSL3.0" -> 9 [] n = "TLS10" -> 10 [] n = "TLS11" -> 11 [] n = "TLS12" -> 12 [] OTHER -> 13]

\* parseTLSVersion: a name it does not know, or none, is the last version.
Version(name) == IF name \in DOMAIN Known THEN Known[name] ELSE 13

\* loadCertPool: a file that cannot be read is left out.
CertPool == (IF cfg.system THEN {"system"} ELSE {}) \cup (cfg.cas \ {"missing"})

\* A bug to guard against: the single pair of the old format is trusted too.
ClientCAsLegacy == CertPool \cup (IF cfg.keys \o cfg.legacy = << >> THEN {} ELSE {"keys", "legacy"})

\* The public keys of the list are trusted as well; the single pair of the old
\* format is not in the list yet.
ClientCAs == CertPool \cup (IF cfg.keys = << >> THEN {} ELSE {"keys"})

\* The handshake a configuration admits (external).
Admits(client) ==
    Secure =>
        /\ \E v \in client.versions : Version(cfg.min) <= v /\ v <= Version(cfg.max)
        /\ cfg.mtls => client.issuer \in ClientCAs

\* NewServerWithLogger: the connection of the client is one that h2c.NewHandler hijacks.
Hijacked(r) == cfg.h2c /\ cfg.clients[r].h2c

-----------------------------------------------------------------------------
(* RunServer: the certificates                                             *)

Return(err) ==
    /\ pc' = "returned"
    /\ result' = err

PlainHTTP ==
    /\ pc = "tls" /\ ~Secure
    /\ pc' = "select" /\ serve' = "starting"
    /\ UNCHANGED <<cfg, keys, stopping, ctxDone, timer, req, result>>

\* A bug to guard against: the server is started before the pairs are loaded.
CollectKeysServes ==
    /\ pc = "tls" /\ Secure
    /\ keys' = cfg.keys \o cfg.legacy
    /\ pc' = "load" /\ serve' = "starting"
    /\ UNCHANGED <<cfg, stopping, ctxDone, timer, req, result>>

\* The single pair of the old format joins the list.
CollectKeys ==
    /\ pc = "tls" /\ Secure
    /\ keys' = cfg.keys \o cfg.legacy
    /\ IF keys' = << >> THEN Return("ErrPublicKey")
       ELSE pc' = "load" /\ UNCHANGED result
    /\ UNCHANGED <<cfg, serve, stopping, ctxDone, timer, req>>

\* A bug to guard against: a pair that does not load is skipped.
LoadKeySkips ==
    /\ pc = "load" /\ keys # << >>
    /\ IF Head(keys) = "ErrPublicKey" THEN Return("ErrPublicKey") ELSE UNCHANGED <<pc, result>>
    /\ keys' = Tail(keys)
    /\ UNCHANGED <<cfg, serve, stopping, ctxDone, timer, req>>

LoadKey ==
    /\ pc = "load" /\ keys # << >>
    /\ IF Head(keys) = "ok" THEN UNCHANGED <<pc, result>> ELSE Return(Head(keys))
    /\ keys' = Tail(keys)
    /\ UNCHANGED <<cfg, serve, stopping, ctxDone, timer, req>>

KeysLoaded ==
    /\ pc = "load" /\ keys = << >>
    /\ pc' = "select" /\ serve' = "starting"
    /\ UNCHANGED <<cfg, keys, stopping, ctxDone, timer, req, result>>

-----------------------------------------------------------------------------
(* RunServer: the select                                                   *)

\* case err := <-done
ServerFailed ==
    /\ pc = "select" /\ serve = "stopped"
    /\ serve' = "sent"
    /\ Return("server")
    /\ UNCHANGED <<cfg, keys, stopping, ctxDone, timer, req>>

\* A bug to guard against: the shutdown waits as long as it takes.
BeginShutdownPatient ==
    /\ pc = "select" /\ ctxDone
    /\ stopping' = TRUE
    /\ pc' = "shutdown"
    /\ UNCHANGED <<cfg, keys, serve, ctxDone, timer, req, result>>

\* case <-ctx.Done()
BeginShutdown ==
    /\ pc = "select" /\ ctxDone
    /\ stopping' = TRUE
    /\ timer' = IF cfg.timeout THEN "armed" ELSE "off"
    /\ pc' = "shutdown"
    /\ UNCHANGED <<cfg, keys, serve, ctxDone, req, result>>

\* A bug to guard against: Close instead of Shutdown, which waits for nobody.
DrainedEarly ==
    /\ pc = "shutdown"
    /\ Return("nil")
    /\ UNCHANGED <<cfg, keys, serve, stopping, ctxDone, timer, req>>

\* Shutdown waits for the connections that are still the server's.
Drained ==
    /\ pc = "shutdown"
    /\ \A r \in Requests : req[r] = "open" => Hijacked(r)
    /\ Return("nil")
    /\ UNCHANGED <<cfg, keys, serve, stopping, ctxDone, timer, req>>

ShutdownTimeout ==
    /\ pc = "shutdown" /\ timer = "armed"
    /\ timer' = "fired"
    /\ Return("deadline")
    /\ UNCHANGED <<cfg, keys, serve, stopping, ctxDone, req>>

-----------------------------------------------------------------------------
(* The goroutine that serves, the clients and the signal                   *)

\* ListenAndServe: the listener is opened, unless the server is stopped or
\* the address is taken.
Listen ==
    /\ serve = "starting"
    /\ serve' \in IF stopping THEN {"stopped"} ELSE {"listening", "stopped"}
    /\ UNCHANGED <<cfg, pc, keys, stopping, ctxDone, timer, req, result>>

\* done <- s.ListenAndServe() is reached because of the shutdown.
ListenerClosed ==
    /\ serve = "listening" /\ stopping
    /\ serve' = "stopped"
    /\ UNCHANGED <<cfg, pc, keys, stopping, ctxDone, timer, req, result>>

ListenerBroken ==
    /\ serve = "listening" /\ ~stopping
    /\ serve' = "stopped"
    /\ UNCHANGED <<cfg, pc, keys, stopping, ctxDone, timer, req, result>>

Arrive(r) ==
    /\ req[r] = "away"
    /\ req' = [req EXCEPT ![r] = IF serve = "listening" /\ ~stopping /\ Admits(cfg.clients[r]) THEN "open" ELSE "refused"]
    /\ UNCHANGED <<cfg, pc, keys, serve, stopping, ctxDone, timer, result>>

Answer(r) ==
    /\ req[r] = "open"
    /\ req' = [req EXCEPT ![r] = "answered"]
    /\ UNCHANGED <<cfg, pc, keys, serve, stopping, ctxDone, timer, result>>

\* Another request over a hijacked connection, to which nobody said that the server stops.
Stream(r) ==
    /\ req[r] = "answered" /\ Hijacked(r)
    /\ req' = [req EXCEPT ![r] = "open"]
    /\ UNCHANGED <<cfg, pc, keys, serve, stopping, ctxDone, timer, result>>

Cancel ==
    /\ ~ctxDone
    /\ ctxDone' = TRUE
    /\ UNCHANGED <<cfg, pc, keys, serve, stopping, timer, req, result>>

Main ==
    \/ PlainHTTP \/ CollectKeys \/ LoadKey \/ KeysLoaded
    \/ ServerFailed \/ BeginShutdown \/ Drained \/ ShutdownTimeout

Next ==
    \/ Main \/ Listen \/ ListenerClosed \/ ListenerBroken \/ Cancel
    \/ \E r \in Requests : Arrive(r) \/ Answer(r) \/ Stream(r)

Spec == Init /\ [][Next]_vars

\* The scheduler runs the two goroutines, and Polite handlers return.
FairSpec ==
    /\ Spec
    /\ WF_vars(Main)
    /\ WF_vars(Listen \/ ListenerClosed)
    /\ \A r \in Polite : WF_vars(Answer(r))

-----------------------------------------------------------------------------
(* Properties                                                              *)

TypeOK ==
    /\ pc \in {"tls", "load", "select", "shutdown", "returned"}
    /\ keys \in Seq(Outcome)
    /\ serve \in {"none", "starting"} \cup Started
    /\ stopping \in BOOLEAN /\ ctxDone \in BOOLEAN
    /\ timer \in {"off", "armed", "fired"}
    /\ req \in [Requests -> {"away", "open", "answered", "refused"}]
    /\ result \in {"none", "nil", "deadline", "server", "ErrPublicKey", "ErrPrivateKey", "badPair"}

AllKeys == cfg.keys \o cfg.legacy

AllGood == AllKeys # << >> /\ \A i \in DOMAIN AllKeys : AllKeys[i] = "ok"

\* The pairs that are no longer in keys are good.
GoodSoFar ==
    AllKeys # << >> /\ \E d \in 0..Len(AllKeys) :
        /\ Len(keys) = Len(AllKeys) - d
        /\ \A j \in 1..Len(keys) : keys[j] = AllKeys[d + j]
        /\ \A j \in 1..d : AllKeys[j] = "ok"

\* What the goroutine of RunServer has done when it is where it is: the pairs
\* it loaded so far are good, the server is started after the last one, and
\* told to stop before anybody waits for it.
StartedInOrder ==
    /\ pc \in {"tls", "load"} => serve = "none" /\ ~stopping
    /\ pc = "select" => ~stopping
    /\ pc = "load" => Secure /\ GoodSoFar
    /\ (serve # "none" /\ Secure) => AllGood
    /\ pc = "shutdown" \/ result \in {"nil", "deadline"} => stopping
    /\ result # "none" => pc = "returned"
    /\ pc \in {"select", "shutdown"} => serve # "none"
    /\ serve = "sent" => pc = "returned"

\* Whoever was let in, the configuration admits.
AdmittedOnly ==
    \A r \in Requests : req[r] \in {"open", "answered"} => Admits(cfg.clients[r])

(***************************************************************************)
(* RunServer returns no error only when every request it let in has been   *)
(* answered: a shutdown loses none, unless its timeout says so or the      *)
(* request came over a connection that was hijacked.                       *)
(***************************************************************************)
CleanEndLosesNothing ==
    result = "nil" => \A r \in Requests : req[r] = "open" => Hijacked(r)

(***************************************************************************)
(* A request is let in only with every certificate loaded; none is let in  *)
(* once the shutdown began or RunServer returned, but for those of         *)
(* connections that were hijacked before.                                  *)
(***************************************************************************)
ServesWhenReady ==
    [][\A r \in Requests : (req[r] # "open" /\ req'[r] = "open") =>
        /\ Secure => cfg.keys \o cfg.legacy # << >>
                        /\ \A i \in DOMAIN (cfg.keys \o cfg.legacy) :
                            (cfg.keys \o cfg.legacy)[i] = "ok"
        /\ pc = "select" \/ (req[r] = "answered" /\ Hijacked(r))]_vars

(***************************************************************************)
(* The error of the first wrong key pair is the one that is returned.      *)
(***************************************************************************)
FirstKeyErrorReturned ==
    (pc = "returned" /\ Secure) =>
        LET all == cfg.keys \o cfg.legacy IN
        \A i \in DOMAIN all :
            (all[i] # "ok" /\ \A j \in 1..(i - 1) : all[j] = "ok") => result = all[i]

(***************************************************************************)
(* The goroutine that serves is left waiting on done only if the caller    *)
(* took the other branch of the select.                                    *)
(***************************************************************************)
LeftWaitingOnlyByShutdown ==
    (pc = "returned" /\ serve \in {"starting", "listening", "stopped"}) =>
        result \in {"nil", "deadline"}

(***************************************************************************)
(* A request over TLS comes from a client that speaks a version the        *)
(* configuration names, the last one where it names none, and, when clients*)
(* are asked for certificates, was certified by an authority that could be *)
(* loaded: a file that is missing never lets its clients in, nor does the  *)
(* pair of the old format, which serves as any other pair does.            *)
(***************************************************************************)
ClientsAreAdmitted ==
    \A r \in Requests : (Secure /\ req[r] \in {"open", "answered"}) =>
        /\ cfg.min \notin DOMAIN Known => 13 \in cfg.clients[r].versions
        /\ cfg.max \in DOMAIN Known => \E v \in cfg.clients[r].versions : v <= Known[cfg.max]
        /\ cfg.mtls => /\ cfg.clients[r].issuer \notin {"none", "missing", "legacy"}
                       /\ cfg.clients[r].issuer = "system" => cfg.system

(***************************************************************************)
(* The server in one invariant, which is inductive: everything has its     *)
(* type and happens in order, no request is lost without an error but over *)
(* a hijacked connection, the first wrong key pair is reported, a goroutine*)
(* is left behind only by a shutdown, and clients are those of the         *)
(* configuration.                                                          *)
(***************************************************************************)
ServerInv ==
    /\ TypeOK /\ StartedInOrder /\ AdmittedOnly /\ CleanEndLosesNothing /\ FirstKeyErrorReturned
    /\ LeftWaitingOnlyByShutdown /\ ClientsAreAdmitted

(***************************************************************************)
(* Once the context is over the router ends: within the timeout of the     *)
(* shutdown, or else as soon as the last handler returned that Shutdown    *)
(* waits for.                                                              *)
(***************************************************************************)
CancelEndsRun ==
    ctxDone ~> \/ pc = "returned"
               \/ ~cfg.timeout /\ \E r \in Requests \ Polite : req[r] = "open" /\ ~Hijacked(r)

=============================================================================
