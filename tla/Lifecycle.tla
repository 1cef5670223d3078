----------------------------- MODULE Lifecycle ------------------------------
(***************************************************************************)
(* The life of the driver's process: main and run (qnap-csi-plugin/main.go)*)
(* and Driver.Run (driver/driver.go).  Three goroutines matter: the one    *)
(* that starts and serves, the one that waits for a signal and cancels the *)
(* context, and the one that waits for the context and stops the server.   *)
(* The grpc server, the kubelet that restarts the container, the liveness  *)
(* probe and the files of the host are not part of the repository.  Serve  *)
(* does not return before GracefulStop has; GracefulStop closes and        *)
(* unlinks the socket and waits for the requests that run, and a Serve     *)
(* that comes after it gives up at once.                                   *)
(***************************************************************************)
EXTENDS Naturals

CONSTANTS
    Requests,   \* requests at work at a time
    MaxFaults   \* bound on steps that fail and on kills

ASSUME MaxFaultsAssumption == MaxFaults \in Nat

VARIABLES
    pc,        \* what Run does next, "down" if there is no process
    sock,      \* the socket file: "none", "live", or "stale" (nobody listens)
    ready,     \* d.ready
    signal,    \* "none", "sent", or "caught" (the context is done)
    stopper,   \* where the goroutine that stops the server is
    request,   \* a request is "idle", "running" or "hung" (on the NAS)
    health,    \* what the last Probe answered
    faults

procVars == <<ready, signal, stopper>>
vars == <<pc, sock, procVars, request, health, faults>>

TypeOK ==
    /\ pc \in {"down", "remove", "mkdir", "listen", "ready", "spawn", "serve",
               "serving"}
    /\ sock \in {"none", "live", "stale"}
    /\ ready \in BOOLEAN
    /\ signal \in {"none", "sent", "caught"}
    /\ stopper \in {"none", "waiting", "stop", "draining", "done"}
    /\ request \in [Requests -> {"idle", "running", "hung"}]
    /\ health \in {"none", "ready", "notReady"}
    /\ faults \in 0..MaxFaults

Init ==
    /\ pc = "down" /\ sock = "none"
    /\ ready = FALSE /\ signal = "none" /\ stopper = "none"
    /\ request = [r \in Requests |-> "idle"]
    /\ health = "none" /\ faults = 0

NoFault == UNCHANGED faults

Fault ==
    /\ faults < MaxFaults
    /\ faults' = faults + 1

\* What the process knew is gone, and so is what it was doing.
Exit ==
    /\ pc' = "down"
    /\ ready' = FALSE /\ signal' = "none" /\ stopper' = "none"
    /\ request' = [r \in Requests |-> "idle"]
    /\ health' = "none"

-----------------------------------------------------------------------------
\* Run

Start ==
    /\ pc = "down" /\ pc' = "remove"
    /\ UNCHANGED <<sock, procVars, request, health, faults>>

\* A step that goes on to the next, or fails and ends the process.
Step(from, to) ==
    /\ pc = from
    /\ \/ /\ pc' = to /\ NoFault
          /\ UNCHANGED <<signal, request, health>>
       \/ Exit /\ Fault

\* Mutant: the socket of an earlier process is left where it is.
RemovedNothing == sock

Removed == "none"

RemoveSocket ==
    /\ Step("remove", "mkdir")
    /\ sock' = IF pc' = "mkdir" THEN Removed ELSE sock
    /\ pc' # "down" => UNCHANGED procVars

MakeDirs ==
    /\ Step("mkdir", "listen")
    /\ pc' # "down" => UNCHANGED procVars
    /\ UNCHANGED sock

\* The address is in use as long as there is a file.
Listen ==
    /\ pc = "listen"
    /\ \/ /\ sock = "none" /\ sock' = "live" /\ pc' = "ready" /\ NoFault
          /\ UNCHANGED <<procVars, request, health>>
       \/ sock # "none" /\ UNCHANGED sock /\ NoFault /\ Exit
       \/ UNCHANGED sock /\ Fault /\ Exit

SetReady ==
    /\ pc = "ready" /\ pc' = "spawn"
    /\ ready' = TRUE
    /\ UNCHANGED <<sock, signal, stopper, request, health, faults>>

Spawn ==
    /\ pc = "spawn" /\ pc' = "serve"
    /\ stopper' = "waiting"
    /\ UNCHANGED <<sock, ready, signal, request, health, faults>>

Serve ==
    /\ pc = "serve" /\ NoFault
    /\ \/ /\ stopper \in {"waiting", "stop"}
          /\ pc' = "serving"
          /\ UNCHANGED <<sock, procVars, request, health>>
       \/ /\ stopper \in {"draining", "done"}   \* ErrServerStopped
          /\ sock' = "none" /\ Exit

\* main logs the error of run, if there is one, and returns.
ServeReturns ==
    /\ pc = "serving"
    /\ \/ stopper = "done" /\ NoFault
       \/ stopper \in {"waiting", "stop"} /\ Fault   \* Accept fails
    /\ sock' = "none" /\ Exit

-----------------------------------------------------------------------------
\* The goroutine of run that waits for the first signal.  A later one stays
\* in the channel.

Signal ==
    /\ pc # "down" /\ signal = "none"
    /\ signal' = "sent"
    /\ UNCHANGED <<pc, sock, ready, stopper, request, health, faults>>

\* Mutant: the signal is logged, the context is not cancelled.
AfterSignalNothing == "sent"

AfterSignal == "caught"

CatchSignal ==
    /\ signal = "sent"
    /\ signal' = AfterSignal
    /\ UNCHANGED <<pc, sock, ready, stopper, request, health, faults>>

\* The goroutine of Run that stops the server.

\* Mutant: the driver is not ready any more only once the server has stopped.
StillReady == ready

NotReady == FALSE

SetNotReady ==
    /\ stopper = "waiting" /\ signal = "caught"
    /\ ready' = NotReady
    /\ stopper' = "stop"
    /\ UNCHANGED <<pc, sock, signal, request, health, faults>>

GracefulStop ==
    /\ stopper = "stop"
    /\ stopper' = "draining"
    /\ sock' = IF pc = "serving" THEN "none" ELSE sock
    /\ UNCHANGED <<pc, ready, signal, request, health, faults>>

\* Mutant: Stop instead of GracefulStop.
DrainedAtOnce == TRUE

Drained == \A r \in Requests : request[r] = "idle"

StopReturns ==
    /\ stopper = "draining" /\ Drained
    /\ stopper' = "done"
    /\ UNCHANGED <<pc, sock, ready, signal, request, health, faults>>

-----------------------------------------------------------------------------
\* Requests

Arrive(r) ==
    /\ pc = "serving" /\ stopper \in {"waiting", "stop"}
    /\ request[r] = "idle"
    /\ request' = [request EXCEPT ![r] = "running"]
    /\ UNCHANGED <<pc, sock, procVars, health, faults>>

\* The handler answers, with an error or without.
Finish(r) ==
    /\ request[r] = "running"
    /\ request' = [request EXCEPT ![r] = "idle"]
    /\ UNCHANGED <<pc, sock, procVars, health, faults>>

\* A NAS that never answers is waited for without a deadline (api.go:64).
Hang(r) ==
    /\ request[r] = "running" /\ Fault
    /\ request' = [request EXCEPT ![r] = "hung"]
    /\ UNCHANGED <<pc, sock, procVars, health>>

\* A request that is a Probe.
Probe(r) ==
    /\ request[r] = "running"
    /\ request' = [request EXCEPT ![r] = "idle"]
    /\ health' = IF ready THEN "ready" ELSE "notReady"
    /\ UNCHANGED <<pc, sock, procVars, faults>>

\* SIGKILL, or a panic of a handler.
Kill ==
    /\ pc # "down" /\ Fault /\ Exit
    /\ sock' = IF sock = "live" THEN "stale" ELSE sock

Run ==
    \/ RemoveSocket \/ MakeDirs \/ Listen \/ SetReady \/ Spawn
    \/ Serve \/ ServeReturns

Next ==
    \/ Start \/ Run
    \/ Signal \/ CatchSignal
    \/ SetNotReady \/ GracefulStop \/ StopReturns
    \/ \E r \in Requests : Arrive(r) \/ Finish(r) \/ Hang(r) \/ Probe(r)
    \/ Kill

Spec == Init /\ [][Next]_vars

\* Goroutines run on, handlers that do not wait for the NAS end, and the
\* kubelet restarts the container.  Signals, requests, kills and a NAS that
\* answers again are never owed.
FairSpec ==
    /\ Spec
    /\ WF_vars(Start) /\ WF_vars(Run) /\ WF_vars(CatchSignal)
    /\ WF_vars(SetNotReady) /\ WF_vars(GracefulStop) /\ WF_vars(StopReturns)
    /\ \A r \in Requests : WF_vars(Finish(r))

-----------------------------------------------------------------------------
(* Properties *)

\* What the goroutines of the process can be doing at a time (driver.go:121-
\* 135, main.go:72-84); with TypeOK it is inductive.
LifecycleInv ==
    /\ TypeOK
    /\ stopper # "none" => pc \in {"serve", "serving"}
    /\ pc \in {"serve", "serving"} => stopper # "none"
    /\ ready => stopper \in {"none", "waiting"}
    /\ stopper \notin {"none", "waiting"} => signal = "caught"
    /\ pc \in {"ready", "spawn", "serve"} => sock = "live"
    /\ pc = "serving" /\ stopper \in {"waiting", "stop"} => sock = "live"
    /\ \A r \in Requests : request[r] # "idle" => pc = "serving"
    /\ stopper = "done" => \A r \in Requests : request[r] = "idle"

\* A Probe that is answered while the server stops, having come before, does
\* not say that the driver is ready (driver.go:129, identity.go:58).
ProbeIsHonest ==
    [][\A r \in Requests :
          Probe(r) /\ health' = "ready" =>
              stopper = "waiting" /\ sock = "live"]_vars

\* A process that ends because of a signal (driver.go:130), and not because
\* something failed, has answered every request it took.
NothingIsCut ==
    [][signal = "caught" /\ Run /\ pc' = "down" /\ NoFault =>
          \A r \in Requests : request[r] = "idle"]_vars

\* "Remove socket if it exists" (driver.go:88): whatever a killed process has
\* left behind, the driver comes to serve again, unless it is told to stop or
\* something fails once more.
ServesAgain ==
    \A n \in 0..MaxFaults :
        faults = n ~> pc = "serving" \/ signal # "none" \/ faults > n

\* A signal ends the process, whenever it comes, unless a request hangs.
SignalEndsIt ==
    signal # "none" ~>
        pc = "down" \/ \E r \in Requests : request[r] = "hung"
=============================================================================
