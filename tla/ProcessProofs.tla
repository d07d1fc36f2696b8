--------------------------- MODULE ProcessProofs ---------------------------
(***************************************************************************)
(* What is proved of requests in Serving holds in a process that starts,   *)
(* fails and ends, and the exit code tells a failure.                      *)
(***************************************************************************)
EXTENDS Process, ServingProofs

----------------------------------------------------------------------------
(* Serving. *)

LEMMA StepsAreServing == ASSUME [ProcessNext]_ProcessVars PROVE [Next]_vars
<1>1. CASE Work
  BY <1>1 DEF Work, Next
<1>2. CASE Signal \/ Prepare \/ SetUp \/ SetupFails \/ ManagerReturns \/ ManagerFails \/ Wait
  BY <1>2 DEF Signal, Prepare, SetUp, SetupFails, ManagerReturns, ManagerFails, Wait
<1>3. CASE \E s \in Servers : Listen(s) \/ ServerFails(s) \/ Shutdown(s) \/ ServerReturns(s)
  BY <1>3 DEF Listen, ServerFails, Shutdown, ServerReturns
<1>4. CASE UNCHANGED ProcessVars
  BY <1>4 DEF ProcessVars
<1> QED
  BY <1>1, <1>2, <1>3, <1>4 DEF ProcessNext

\* Process has Serving's own steps, and others that leave its variables alone.
LEMMA ProcessImplementsServing == ProcessSpec => Spec
<1>1. ProcessInit => Init
  BY DEF ProcessInit
<1>2. [ProcessNext]_ProcessVars => [Next]_vars
  BY StepsAreServing
<1> QED
  BY <1>1, <1>2, PTL DEF ProcessSpec, Spec

\* In a process that may end at any point, too, every request that is answered
\* is answered as one of the configurations says that were installed meanwhile.
THEOREM ProcessAnswers == ProcessSpec => []AnsweredByOneConfiguration
  BY ProcessImplementsServing, OneConfiguration, PTL

----------------------------------------------------------------------------
(* The exit code. *)

\* What ends on its own failed, and what ended otherwise was told to.
ExitInv ==
  /\ ProcessTypeOK
  /\ \A x \in Parts : part[x] = "error" => failed
  /\ \A x \in Parts : part[x] = "nil" => cancelled
  /\ shut # {} => cancelled
  /\ cancelled => signals > 0 \/ failed
  /\ signals = 2 => main = "exited" /\ code = 1
  /\ ExitTellsFailure

LEMMA ExitInvInit == ProcessInit => ExitInv
<1> SUFFICES ASSUME ProcessInit PROVE ExitInv
  OBVIOUS
<1>1. part \in [Parts -> {"none"}]
  BY DEF ProcessInit
<1>2. \A x \in Parts : part[x] # "error" /\ part[x] # "nil" /\ part[x] # "running"
  BY <1>1
<1>3. part \in [Parts -> {"none", "starting", "running", "nil", "error"}]
  BY <1>1
<1>4. ProcessTypeOK
  <2>1. cancelled \in BOOLEAN /\ failed \in BOOLEAN
    BY Zenon DEF ProcessInit
  <2>2. main = "start" /\ code = 0 /\ signals = 0 /\ bound = {} /\ shut = {}
    BY DEF ProcessInit
  <2>3. Servers \subseteq Parts
    BY DEF Parts
  <2> QED
    BY <1>2, <1>3, <2>1, <2>2, <2>3 DEF ProcessTypeOK
<1>5. main # "exited" /\ signals # 2 /\ shut = {} /\ ~cancelled
  BY DEF ProcessInit
<1> QED
  BY <1>2, <1>4, <1>5 DEF ExitInv, ExitTellsFailure

LEMMA ExitInvStep == ExitInv /\ [ProcessNext]_ProcessVars => ExitInv'
<1> SUFFICES ASSUME ExitInv, [ProcessNext]_ProcessVars PROVE ExitInv'
  OBVIOUS
<1> USE DEF ExitInv, ProcessTypeOK, ExitTellsFailure, Alive, Exit, End, EndInError,
            Parts, Servers
<1>1. CASE Signal
  BY <1>1 DEF Signal
<1>p. CASE Prepare
  <2>1. part' \in [Parts -> {"none", "starting", "running", "nil", "error"}]
    BY <1>p DEF Prepare
  <2>2. \A x \in Parts : part'[x] = "starting" \/ part'[x] = part[x]
    BY <1>p DEF Prepare
  <2>3. main' = "setup" /\ UNCHANGED <<code, signals, cancelled, failed, bound, shut>>
    BY <1>p DEF Prepare
  <2> QED
    BY <1>p, <2>1, <2>2, <2>3 DEF Prepare
<1>2. CASE SetUp
  BY <1>2 DEF SetUp
<1>3. CASE SetupFails
  BY <1>3 DEF SetupFails
<1>4. CASE ManagerReturns
  BY <1>4 DEF ManagerReturns
<1>5. CASE ManagerFails
  BY <1>5 DEF ManagerFails
<1>6. CASE Wait
  BY <1>6 DEF Wait
<1>7. CASE Work
  BY <1>7 DEF Work, process
<1>8. ASSUME NEW s \in Servers, Listen(s) PROVE ExitInv'
  <2>1. CASE s \in shut
    BY <1>8, <2>1 DEF Listen
  <2>2. CASE s \notin shut
    <3>1. /\ Alive /\ part' = [part EXCEPT ![s] = "running"] /\ bound' = bound \union {s}
          /\ UNCHANGED <<main, code, signals, cancelled, failed, shut>>
      BY <1>8, <2>2 DEF Listen
    <3>2. ProcessTypeOK'
      BY <3>1
    <3> QED
      BY <3>1, <3>2
  <2> QED
    BY <2>1, <2>2
<1>9. ASSUME NEW s \in Servers, ServerFails(s) PROVE ExitInv'
  BY <1>9 DEF ServerFails
<1>10. ASSUME NEW s \in Servers, Shutdown(s) PROVE ExitInv'
  BY <1>10 DEF Shutdown
<1>11. ASSUME NEW s \in Servers, ServerReturns(s) PROVE ExitInv'
  BY <1>11 DEF ServerReturns
<1>12. CASE UNCHANGED ProcessVars
  BY <1>12 DEF ProcessVars, process
<1> QED
  BY <1>1, <1>p, <1>2, <1>3, <1>4, <1>5, <1>6, <1>7, <1>8, <1>9, <1>10, <1>11, <1>12
  DEF ProcessNext

THEOREM ExitInvHolds == ProcessSpec => []ExitInv
  BY ExitInvInit, ExitInvStep, PTL DEF ProcessSpec

\* The variables of the process keep their types.
THEOREM ProcessTypeCorrect == ProcessSpec => []ProcessTypeOK
<1>1. ExitInv => ProcessTypeOK
  BY DEF ExitInv
<1> QED
  BY <1>1, ExitInvHolds, PTL

\* Exit code 0 means one signal, and nothing that failed.
THEOREM ExitCodeTells == ProcessSpec => []ExitTellsFailure
<1>1. ExitInv => ExitTellsFailure
  BY DEF ExitInv
<1> QED
  BY <1>1, ExitInvHolds, PTL

=============================================================================
