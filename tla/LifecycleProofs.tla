-------------------------- MODULE LifecycleProofs ---------------------------
(***************************************************************************)
(* What holds of the process for any number of requests and of failures.   *)
(***************************************************************************)
EXTENDS Lifecycle, TLAPS

LEMMA InitHolds == ASSUME Init PROVE LifecycleInv
<1>1. ready \in BOOLEAN
  BY Zenon DEF Init
<1>2. TypeOK
  BY <1>1, MaxFaultsAssumption DEF Init, TypeOK
<1> QED BY <1>2 DEF Init, LifecycleInv

\* An ended process has nothing to keep: only the file and the count matter.
LEMMA ExitHolds ==
    ASSUME LifecycleInv, Exit, sock' \in {"none", "live", "stale"},
           faults' \in 0..MaxFaults
    PROVE  LifecycleInv'
  BY DEF LifecycleInv, TypeOK, Exit

LEMMA StepHolds ==
    ASSUME LifecycleInv, NEW from, NEW to, Step(from, to),
           sock' \in {"none", "live", "stale"},
           pc' # "down" => UNCHANGED procVars,
           <<from, to>> \in {<<"remove", "mkdir">>, <<"mkdir", "listen">>}
    PROVE  LifecycleInv'
<1>1. CASE Exit /\ Fault
  BY <1>1, ExitHolds, MaxFaultsAssumption DEF Fault, LifecycleInv, TypeOK
<1>2. CASE pc' = to /\ NoFault /\ UNCHANGED <<signal, request, health>>
  <2>1. pc = from /\ pc' = to /\ UNCHANGED <<procVars, request, health, faults>>
    BY <1>2 DEF Step, NoFault
  <2> QED BY <2>1 DEF LifecycleInv, TypeOK, procVars
<1> QED BY <1>1, <1>2 DEF Step

LEMMA RunHolds ==
    ASSUME LifecycleInv, Run
    PROVE  LifecycleInv'
<1> USE MaxFaultsAssumption
<1>1. CASE RemoveSocket
  <2>1. sock' \in {"none", "live", "stale"}
    BY <1>1 DEF RemoveSocket, Removed, LifecycleInv, TypeOK
  <2> QED BY <1>1, <2>1, StepHolds DEF RemoveSocket
<1>2. CASE MakeDirs
  <2>1. sock' \in {"none", "live", "stale"}
    BY <1>2 DEF MakeDirs, LifecycleInv, TypeOK
  <2> QED BY <1>2, <2>1, StepHolds DEF MakeDirs
<1>3. CASE Listen
  <2>1. CASE /\ sock = "none" /\ sock' = "live" /\ pc' = "ready" /\ NoFault
             /\ UNCHANGED <<procVars, request, health>>
    BY <1>3, <2>1 DEF Listen, LifecycleInv, TypeOK, NoFault, procVars
  <2>2. CASE UNCHANGED sock /\ (NoFault \/ Fault) /\ Exit
    BY <2>2, ExitHolds DEF LifecycleInv, TypeOK, NoFault, Fault
  <2> QED BY <1>3, <2>1, <2>2 DEF Listen
<1>4. CASE SetReady
  BY <1>4 DEF SetReady, LifecycleInv, TypeOK
<1>5. CASE Spawn
  BY <1>5 DEF Spawn, LifecycleInv, TypeOK
<1>6. CASE Serve
  <2>1. CASE sock' = "none" /\ Exit
    BY <1>6, <2>1, ExitHolds DEF Serve, NoFault, LifecycleInv, TypeOK
  <2>2. CASE pc' = "serving" /\ UNCHANGED <<sock, procVars, request, health>>
    BY <1>6, <2>2 DEF Serve, NoFault, LifecycleInv, TypeOK, procVars
  <2> QED BY <1>6, <2>1, <2>2 DEF Serve
<1>7. CASE ServeReturns
  BY <1>7, ExitHolds DEF ServeReturns, NoFault, Fault, LifecycleInv, TypeOK
<1> QED BY <1>1, <1>2, <1>3, <1>4, <1>5, <1>6, <1>7 DEF Run

LEMMA StopHolds ==
    ASSUME LifecycleInv,
           \/ Start \/ Signal \/ CatchSignal
           \/ SetNotReady \/ GracefulStop \/ StopReturns
    PROVE  LifecycleInv'
<1>1. CASE Start
  BY <1>1 DEF Start, LifecycleInv, TypeOK, procVars
<1>2. CASE Signal
  BY <1>2 DEF Signal, LifecycleInv, TypeOK
<1>3. CASE CatchSignal
  BY <1>3 DEF CatchSignal, AfterSignal, LifecycleInv, TypeOK
<1>4. CASE SetNotReady
  BY <1>4 DEF SetNotReady, NotReady, LifecycleInv, TypeOK
<1>5. CASE GracefulStop
  BY <1>5 DEF GracefulStop, LifecycleInv, TypeOK
<1>6. CASE StopReturns
  BY <1>6 DEF StopReturns, Drained, LifecycleInv, TypeOK
<1> QED BY <1>1, <1>2, <1>3, <1>4, <1>5, <1>6

LEMMA RequestHolds ==
    ASSUME LifecycleInv, NEW r \in Requests,
           Arrive(r) \/ Finish(r) \/ Hang(r) \/ Probe(r)
    PROVE  LifecycleInv'
<1> USE MaxFaultsAssumption
<1>1. CASE Arrive(r)
  BY <1>1 DEF Arrive, LifecycleInv, TypeOK, procVars
<1>2. CASE Finish(r)
  BY <1>2 DEF Finish, LifecycleInv, TypeOK, procVars
<1>3. CASE Hang(r)
  BY <1>3 DEF Hang, Fault, LifecycleInv, TypeOK, procVars
<1>4. CASE Probe(r)
  BY <1>4 DEF Probe, LifecycleInv, TypeOK, procVars
<1> QED BY <1>1, <1>2, <1>3, <1>4

LEMMA KillHolds == ASSUME LifecycleInv, Kill PROVE LifecycleInv'
  BY ExitHolds, MaxFaultsAssumption DEF Kill, Fault, LifecycleInv, TypeOK

\* The goroutines of the process keep to their order, whatever fails.
THEOREM LifecycleInvariance == Spec => []LifecycleInv
<1>1. LifecycleInv /\ [Next]_vars => LifecycleInv'
  <2> SUFFICES ASSUME LifecycleInv, [Next]_vars PROVE LifecycleInv'
    OBVIOUS
  <2>1. CASE UNCHANGED vars
    BY <2>1 DEF vars, procVars, LifecycleInv, TypeOK
  <2> QED BY <2>1, RunHolds, StopHolds, RequestHolds, KillHolds DEF Next
<1> QED BY <1>1, InitHolds, PTL DEF Spec

\* The type invariant of the process.
THEOREM TypeCorrect == Spec => []TypeOK
<1>1. LifecycleInv => TypeOK
  BY DEF LifecycleInv
<1> QED BY <1>1, LifecycleInvariance, PTL

\* A Probe says ready only while the server takes requests.
THEOREM ProbesAreHonest == Spec => ProbeIsHonest
<1> DEFINE A == \A r \in Requests :
                   Probe(r) /\ health' = "ready" =>
                      stopper = "waiting" /\ sock = "live"
<1>1. LifecycleInv /\ [Next]_vars => [A]_vars
  <2> SUFFICES ASSUME LifecycleInv, NEW r \in Requests,
                      Probe(r), health' = "ready"
               PROVE  stopper = "waiting" /\ sock = "live"
    OBVIOUS
  <2>1. ready /\ request[r] # "idle"
    BY DEF Probe
  <2> QED BY <2>1 DEF LifecycleInv
<1> QED BY <1>1, LifecycleInvariance, PTL DEF Spec, ProbeIsHonest

\* A process that a signal ends has answered every request it took.
THEOREM NothingIsEverCut == Spec => NothingIsCut
<1> DEFINE A == signal = "caught" /\ Run /\ pc' = "down" /\ NoFault =>
                   \A r \in Requests : request[r] = "idle"
<1>1. LifecycleInv /\ [Next]_vars => [A]_vars
  <2> SUFFICES ASSUME LifecycleInv, Run, pc' = "down", NoFault
               PROVE  \A r \in Requests : request[r] = "idle"
    OBVIOUS
  <2>1. CASE pc # "serving"
    BY <2>1 DEF LifecycleInv
  <2>2. CASE pc = "serving"
    <3>1. ServeReturns
      BY <2>2 DEF Run, RemoveSocket, MakeDirs, Step, Listen, SetReady, Spawn, Serve
    <3>2. ~Fault
      BY DEF NoFault, Fault, LifecycleInv, TypeOK
    <3> QED BY <3>1, <3>2 DEF ServeReturns, LifecycleInv
  <2> QED BY <2>1, <2>2
<1> QED BY <1>1, LifecycleInvariance, PTL DEF Spec, NothingIsCut
=============================================================================
