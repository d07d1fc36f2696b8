------------------------------ MODULE Process ------------------------------
(***************************************************************************)
(* run and main: the life of the process around the proxy.                 *)
(*                                                                         *)
(* run makes the manager, starts the two servers in an errgroup, sets the  *)
(* controllers up and starts the manager in the same group, and waits for  *)
(* all three.  The first of them that fails, or a signal, cancels the      *)
(* context they share.  A goroutine per server then shuts it down;         *)
(* ListenAndServe returns at once, and nobody waits for the requests that  *)
(* are being served: the end of the process cuts them.  The next process   *)
(* starts as this one did, with no routes, whatever this one had.          *)
(***************************************************************************)
EXTENDS Serving

Servers == {"http", "https"}
Parts   == Servers \union {"manager"}

CONSTANT ServerOf  \* ServerOf[h]: the server whose goroutine h is

ASSUME ServerOfAssumption == ServerOf \in [Handlers -> Servers]

VARIABLES
  main,       \* where main is: "start", "setup", "waiting" in g.Wait, or "exited"
  code,       \* the exit code
  signals,    \* signals received
  cancelled,  \* the errgroup's context is done
  failed,     \* a function of the errgroup returned an error
  part,       \* part[x]: a function of the errgroup, or its return value
  bound,      \* the servers that listened
  shut        \* the servers Shutdown was called on

process == <<main, code, signals, cancelled, failed, part, bound, shut>>

ProcessVars == <<vars, process>>

Alive == main # "exited"

----------------------------------------------------------------------------

\* A process that has just been started.
ProcessInit ==
  /\ Init
  /\ main = "start"
  /\ code = 0
  /\ signals = 0
  /\ cancelled = FALSE
  /\ failed = FALSE
  /\ part = [x \in Parts |-> "none"]
  /\ bound = {}
  /\ shut = {}

\* main returns or calls os.Exit.
Exit(c) == main' = "exited" /\ code' = c

\* A function of the errgroup returns nil.
End(x) == part' = [part EXCEPT ![x] = "nil"] /\ UNCHANGED <<cancelled, failed>>

\* It returns an error: the first one is kept, and cancels the context.
EndInError(x) ==
  /\ part' = [part EXCEPT ![x] = "error"]
  /\ cancelled' = TRUE
  /\ failed' = TRUE

\* MUTANT of Signal: no signal does more than cancel the context.
SignalOnlyCancels ==
  /\ Alive
  /\ signals' = signals + 1
  /\ cancelled' = TRUE
  /\ UNCHANGED <<vars, main, code, failed, part, bound, shut>>

\* SetupSignalHandler: the first signal cancels the context, the second exits.
Signal ==
  /\ Alive
  /\ signals < 2
  /\ signals' = signals + 1
  /\ cancelled' = TRUE
  /\ IF signals = 0 THEN UNCHANGED <<main, code>> ELSE Exit(1)
  /\ UNCHANGED <<vars, failed, part, bound, shut>>

\* There is a kubeconfig, the manager is made, and the servers are started.
Prepare ==
  /\ main = "start"
  /\ main' = "setup"
  /\ part' = [x \in Parts |-> IF x \in Servers THEN "starting" ELSE part[x]]
  /\ UNCHANGED <<vars, code, signals, cancelled, failed, bound, shut>>

\* The controllers are set up, and the manager is started.
SetUp ==
  /\ main = "setup"
  /\ main' = "waiting"
  /\ part' = [part EXCEPT !["manager"] = "running"]
  /\ UNCHANGED <<vars, code, signals, cancelled, failed, bound, shut>>

\* GetConfig, NewManager or a SetupWithManager fails: run returns without
\* g.Wait, whether there are servers or not.
SetupFails ==
  /\ main \in {"start", "setup"}
  /\ Exit(1)
  /\ UNCHANGED <<vars, signals, cancelled, failed, part, bound, shut>>

\* ListenAndServe finds that Shutdown was called, or listens.
Listen(s) ==
  /\ Alive
  /\ part[s] = "starting"
  /\ IF s \in shut THEN End(s) /\ UNCHANGED bound
     ELSE /\ part' = [part EXCEPT ![s] = "running"]
          /\ bound' = bound \union {s}
          /\ UNCHANGED <<cancelled, failed>>
  /\ UNCHANGED <<vars, main, code, signals, shut>>

\* MUTANT of ServerFails: the error is logged and nil is returned.
ServerFailsQuietly(s) ==
  /\ Alive
  /\ part[s] \in {"starting", "running"}
  /\ s \notin shut
  /\ part' = [part EXCEPT ![s] = "error"]
  /\ UNCHANGED <<vars, main, code, signals, cancelled, failed, bound, shut>>

\* There is no certificate, or the address or its listener fails.
ServerFails(s) ==
  /\ Alive
  /\ part[s] \in {"starting", "running"}
  /\ s \notin shut
  /\ EndInError(s)
  /\ UNCHANGED <<vars, main, code, signals, bound, shut>>

\* The goroutine that waits for the context calls Shutdown.
Shutdown(s) ==
  /\ Alive
  /\ cancelled
  /\ part[s] # "none"
  /\ s \notin shut
  /\ shut' = shut \union {s}
  /\ UNCHANGED <<vars, main, code, signals, cancelled, failed, part, bound>>

\* MUTANT of ServerReturns: the function waits until Shutdown returns.
ServerReturnsDrained(s) ==
  /\ Alive
  /\ part[s] = "running"
  /\ s \in shut
  /\ \A h \in Handlers : ServerOf[h] = s => pc[h] = "idle"
  /\ End(s)
  /\ UNCHANGED <<vars, main, code, signals, bound, shut>>

\* ListenAndServe returns ErrServerClosed.
ServerReturns(s) ==
  /\ Alive
  /\ part[s] = "running"
  /\ s \in shut
  /\ End(s)
  /\ UNCHANGED <<vars, main, code, signals, bound, shut>>

\* mgr.Start returns once the context is done and the workers have stopped.
ManagerReturns ==
  /\ Alive
  /\ cancelled
  /\ part["manager"] = "running"
  /\ End("manager")
  /\ UNCHANGED <<vars, main, code, signals, bound, shut>>

\* It cannot start, or the workers do not stop in time.
ManagerFails ==
  /\ Alive
  /\ part["manager"] = "running"
  /\ EndInError("manager")
  /\ UNCHANGED <<vars, main, code, signals, bound, shut>>

\* g.Wait returns the error, if any, and main ends.
Wait ==
  /\ main = "waiting"
  /\ \A x \in Parts : part[x] \in {"nil", "error"}
  /\ Exit(IF failed THEN 1 ELSE 0)
  /\ UNCHANGED <<vars, signals, cancelled, failed, part, bound, shut>>

\* What the reconcilers and the handlers do, in a process that is there.  A
\* worker that did not stop in time goes on, and so does a connection that was
\* there before Shutdown.
Work ==
  /\ Alive
  /\ \/ part["manager"] \in {"running", "error"} /\ \E c \in Configs : Install(c)
     \/ \E h \in Handlers :
          \/ ServerOf[h] \in bound /\ Accept(h)
          \/ ReadRoutes(h) \/ Look(h) \/ Reply(h) \/ Done(h)
  /\ UNCHANGED process

ProcessNext ==
  \/ Signal \/ Prepare \/ SetUp \/ SetupFails \/ ManagerReturns \/ ManagerFails \/ Wait
  \/ Work
  \/ \E s \in Servers : Listen(s) \/ ServerFails(s) \/ Shutdown(s) \/ ServerReturns(s)

\* Goroutines that can run do.  A request may take for ever: forward sets no
\* timeout.  Signals and failures owe nothing.
ProcessFairness ==
  /\ WF_ProcessVars(Prepare) /\ WF_ProcessVars(SetUp)
  /\ WF_ProcessVars(ManagerReturns) /\ WF_ProcessVars(Wait)
  /\ \A s \in Servers :
       /\ WF_ProcessVars(Listen(s)) /\ WF_ProcessVars(Shutdown(s))
       /\ WF_ProcessVars(ServerReturns(s))

ProcessSpec == ProcessInit /\ [][ProcessNext]_ProcessVars /\ ProcessFairness

----------------------------------------------------------------------------

\* The types of the variables of the process.
ProcessTypeOK ==
  /\ main \in {"start", "setup", "waiting", "exited"}
  /\ code \in {0, 1}
  /\ signals \in 0..2
  /\ cancelled \in BOOLEAN /\ failed \in BOOLEAN
  /\ part \in [Parts -> {"none", "starting", "running", "nil", "error"}]
  /\ bound \subseteq Servers /\ shut \subseteq Servers
  /\ \A s \in Servers : part[s] = "running" => s \in bound

\* The process ends with code 0 only if it was asked to, once, and nothing
\* failed before or after: whoever runs it can tell a failure by its exit code.
ExitTellsFailure ==
  main = "exited" /\ code = 0 =>
    /\ signals = 1
    /\ \A x \in Parts : part[x] = "nil"

\* A server or the manager that fails takes the others with it, and so does a
\* signal: the process ends, however long a request in flight may take, and
\* does not stay half alive.
EndsAsAWhole ==
  (signals > 0 \/ \E x \in Parts : part[x] = "error") ~> main = "exited"

=============================================================================
