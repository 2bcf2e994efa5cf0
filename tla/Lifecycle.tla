------------------------------ MODULE Lifecycle ------------------------------
(***************************************************************************)
(* The process around the handlers: main, metrics.Serve and server.Start,  *)
(* with their shutdown goroutines and the sync.WaitGroup main waits on,     *)
(* composed with the POST /v1/swap/validation requests the HTTP server is  *)
(* serving (module ValidationHandler), whose in-flight calls are what      *)
(* http.Server.Shutdown waits for.                                         *)
(*                                                                         *)
(* The forwarding goroutines of the live feed are not part of this model:  *)
(* they run under context.Background() and are not counted by the          *)
(* WaitGroup, so neither cancel() nor wg.Wait() involves them (see the     *)
(* README).                                                                *)
(***************************************************************************)
EXTENDS Naturals

CONSTANTS Requests, Ids, Empty, Malformed, MaxStore, AcceptedDST, OtherDST,
          SigLens, MinSigLen

(* The handler's constants satisfy what ValidationHandler assumes of them. *)
ASSUME HandlerConstantsAssumption ==
  /\ MaxStore \in Nat
  /\ SigLens \subseteq Nat /\ MinSigLen \in Nat
  /\ Empty \notin Ids /\ Malformed \notin Ids \cup {Empty}
  /\ AcceptedDST # OtherDST

VARIABLES store, pc, req, reply, resp, cause

VH == INSTANCE ValidationHandler

VARIABLES
  main,      \* control point of main
  ctxDone,   \* the context main cancels on SIGINT/SIGTERM
  wg,        \* the sync.WaitGroup counter
  ms,        \* control point of the metrics.Serve goroutine
  msd,       \* control point of its shutdown goroutine
  hs,        \* control point of the server.Start goroutine
  hsd,       \* control point of its shutdown goroutine
  open       \* the HTTP server's listener accepts new connections

lvars == <<main, ctxDone, wg, ms, msd, hs, hsd, open>>
hvars == <<store, pc, req, reply, resp, cause>>
vars == <<lvars, hvars>>

TypeOK ==
  /\ VH!TypeOK
  /\ main \in {"config", "metrics", "server", "start", "wait", "join",
               "exited", "failed"}
  /\ ctxDone \in BOOLEAN
  /\ wg \in Nat
  /\ ms \in {"off", "start", "bind", "serve", "end", "exited"}
  /\ msd \in {"off", "wait", "exited"}
  /\ hs \in {"off", "start", "bind", "serve", "end", "exited"}
  /\ hsd \in {"off", "wait", "drain", "exited"}
  /\ open \in BOOLEAN

Init ==
  /\ VH!Init
  /\ main = "config"
  /\ ctxDone = FALSE
  /\ wg = 0
  /\ ms = "off" /\ msd = "off"
  /\ hs = "off" /\ hsd = "off"
  /\ open = FALSE

Running == main \notin {"exited", "failed"}

---------------------------------------------------------------------------
(* main.                                                                   *)

(* config.LoadFromEnv: os.Exit(1) on an error. *)
LoadConfig ==
  /\ main = "config"
  /\ main' \in {"metrics", "failed"}
  /\ UNCHANGED <<ctxDone, wg, ms, msd, hs, hsd, open, hvars>>

(* wg.Add(1); go metrics.Serve(ctx, &wg). *)
StartMetrics ==
  /\ main = "metrics"
  /\ main' = "server"
  /\ wg' = wg + 1
  /\ ms' = "start"
  /\ UNCHANGED <<ctxDone, msd, hs, hsd, open, hvars>>

(* server.NewServer: NewValidationHandler opens the streams; its error    *)
(* ends the process through log.Fatalf.                                    *)
NewServer ==
  /\ main = "server"
  /\ main' \in {"start", "failed"}
  /\ UNCHANGED <<ctxDone, wg, ms, msd, hs, hsd, open, hvars>>

(* Variant: go srv.Start(ctx, &wg) without the wg.Add(1) before it. *)
StartServerNoAdd ==
  /\ main = "start"
  /\ main' = "wait"
  /\ hs' = "start"
  /\ UNCHANGED <<ctxDone, wg, ms, msd, hsd, open, hvars>>

(* wg.Add(1); go srv.Start(ctx, &wg). *)
StartServer ==
  /\ main = "start"
  /\ main' = "wait"
  /\ wg' = wg + 1
  /\ hs' = "start"
  /\ UNCHANGED <<ctxDone, ms, msd, hsd, open, hvars>>

(* <-sigChan, then cancel(). *)
Signal ==
  /\ main = "wait"
  /\ main' = "join"
  /\ ctxDone' = TRUE
  /\ UNCHANGED <<wg, ms, msd, hs, hsd, open, hvars>>

(* wg.Wait() returns and main returns: the process exits. *)
Join ==
  /\ main = "join"
  /\ wg = 0
  /\ main' = "exited"
  /\ UNCHANGED <<ctxDone, wg, ms, msd, hs, hsd, open, hvars>>

---------------------------------------------------------------------------
(* metrics.Serve and its shutdown goroutine.                               *)

(* wg.Add(1); go func() { <-ctx.Done(); srv.Shutdown(ctx) }(). *)
MetricsSpawn ==
  /\ Running
  /\ ms = "start"
  /\ ms' = "bind"
  /\ wg' = wg + 1
  /\ msd' = "wait"
  /\ UNCHANGED <<main, ctxDone, hs, hsd, open, hvars>>

(* srv.ListenAndServe() binds :9999 and serves, or returns at once: the   *)
(* port cannot be bound, or Shutdown already ran (ErrServerClosed).        *)
MetricsBind ==
  /\ Running
  /\ ms = "bind"
  /\ \/ msd = "wait" /\ ms' = "serve"
     \/ ms' = "end"
  /\ UNCHANGED <<main, ctxDone, wg, msd, hs, hsd, open, hvars>>

(* Shutdown closed the listener: ListenAndServe returns ErrServerClosed. *)
MetricsServeReturns ==
  /\ Running
  /\ ms = "serve"
  /\ msd = "exited"
  /\ ms' = "end"
  /\ UNCHANGED <<main, ctxDone, wg, msd, hs, hsd, open, hvars>>

(* The deferred wg.Done() of Serve. *)
MetricsDone ==
  /\ Running
  /\ ms = "end"
  /\ ms' = "exited"
  /\ wg' = wg - 1
  /\ UNCHANGED <<main, ctxDone, msd, hs, hsd, open, hvars>>

(* srv.Shutdown(ctx) with ctx already cancelled: it closes the listener   *)
(* and returns at once (context.Canceled if a scrape is still active);     *)
(* then the deferred wg.Done().                                            *)
MetricsShutdown ==
  /\ Running
  /\ msd = "wait"
  /\ ctxDone
  /\ msd' = "exited"
  /\ wg' = wg - 1
  /\ UNCHANGED <<main, ctxDone, ms, hs, hsd, open, hvars>>

---------------------------------------------------------------------------
(* server.Start and its shutdown goroutine.                                *)

(* Variant: the shutdown goroutine is started without its wg.Add(1). *)
ServerSpawnNoAdd ==
  /\ Running
  /\ hs = "start"
  /\ hs' = "bind"
  /\ hsd' = "wait"
  /\ UNCHANGED <<main, ctxDone, wg, ms, msd, open, hvars>>

(* wg.Add(1); go func() { <-ctx.Done(); s.server.Shutdown(..) }(). *)
ServerSpawn ==
  /\ Running
  /\ hs = "start"
  /\ hs' = "bind"
  /\ wg' = wg + 1
  /\ hsd' = "wait"
  /\ UNCHANGED <<main, ctxDone, ms, msd, open, hvars>>

(* s.server.ListenAndServe() binds localhost:PORT and accepts             *)
(* connections, or returns at once: the port cannot be bound, or Shutdown  *)
(* already ran (ErrServerClosed).                                          *)
ServerBind ==
  /\ Running
  /\ hs = "bind"
  /\ \/ hsd = "wait" /\ hs' = "serve" /\ open' = TRUE
     \/ hs' = "end" /\ UNCHANGED open
  /\ UNCHANGED <<main, ctxDone, wg, ms, msd, hsd, hvars>>

(* Shutdown closed the listener: ListenAndServe returns ErrServerClosed    *)
(* while Shutdown may still be waiting for active connections.             *)
ServerServeReturns ==
  /\ Running
  /\ hs = "serve"
  /\ hsd # "wait"
  /\ hs' = "end"
  /\ UNCHANGED <<main, ctxDone, wg, ms, msd, hsd, open, hvars>>

(* The deferred wg.Done() of Start. *)
ServerDone ==
  /\ Running
  /\ hs = "end"
  /\ hs' = "exited"
  /\ wg' = wg - 1
  /\ UNCHANGED <<main, ctxDone, ms, msd, hsd, open, hvars>>

(* <-ctx.Done(); Shutdown(context.Background()) closes the listener and   *)
(* stops keep-alives.                                                      *)
ServerShutdownBegin ==
  /\ Running
  /\ hsd = "wait"
  /\ ctxDone
  /\ hsd' = "drain"
  /\ open' = FALSE
  /\ UNCHANGED <<main, ctxDone, wg, ms, msd, hs, hvars>>

(* Variant: the shutdown goroutine without its deferred wg.Done(). *)
ServerShutdownEndNoDone ==
  /\ Running
  /\ hsd = "drain"
  /\ \A r \in Requests : pc[r] \in {"idle", "done"}
  /\ hsd' = "exited"
  /\ UNCHANGED <<main, ctxDone, wg, ms, msd, hs, open, hvars>>

(* Shutdown returns once every connection is idle: no request is inside   *)
(* its handler. Its context never expires, so it waits as long as that     *)
(* takes. Then the deferred wg.Done().                                     *)
ServerShutdownEnd ==
  /\ Running
  /\ hsd = "drain"
  /\ \A r \in Requests : pc[r] \in {"idle", "done"}
  /\ hsd' = "exited"
  /\ wg' = wg - 1
  /\ UNCHANGED <<main, ctxDone, ms, msd, hs, open, hvars>>

---------------------------------------------------------------------------
(* The requests the server serves. A request starts only on a connection   *)
(* the open listener accepted; one already in its handler runs on after   *)
(* Shutdown began; nothing runs after the process exited.                  *)

Arrive(r) ==
  /\ open
  /\ Running
  /\ VH!RejectMalformed(r) \/ VH!RejectMissing(r) \/ VH!Accept(r)
  /\ UNCHANGED lvars

Lookup(r) ==
  /\ Running
  /\ VH!LookupFound(r) \/ VH!LookupNotFound(r) \/ VH!LookupError(r)
  /\ UNCHANGED lvars

Signing(r) ==
  /\ Running
  /\ VH!SignFails(r) \/ VH!SignReply(r)
  /\ UNCHANGED lvars

(* The connection is kept alive for a next request while the server is    *)
(* open; Shutdown closes it once idle.                                     *)
KeepAlive(r) ==
  /\ open
  /\ Running
  /\ VH!NextRequest(r)
  /\ UNCHANGED lvars

MonitorRecords ==
  /\ Running
  /\ VH!Record
  /\ UNCHANGED lvars

(* The process has ended (exited or failed): nothing happens any more. *)
Ended ==
  /\ ~Running
  /\ UNCHANGED vars

Next ==
  \/ LoadConfig \/ StartMetrics \/ NewServer \/ StartServer \/ Signal \/ Join
  \/ MetricsSpawn \/ MetricsBind \/ MetricsServeReturns \/ MetricsDone
  \/ MetricsShutdown
  \/ ServerSpawn \/ ServerBind \/ ServerServeReturns \/ ServerDone
  \/ ServerShutdownBegin \/ ServerShutdownEnd
  \/ MonitorRecords
  \/ \E r \in Requests : Arrive(r) \/ Lookup(r) \/ Signing(r) \/ KeepAlive(r)
  \/ Ended

Spec == Init /\ [][Next]_vars

(* The Go runtime runs every goroutine that can run; the operator's signal *)
(* is not obliged to come. The dsigner call is bounded by its http.Client  *)
(* timeout.                                                                *)
ProcessFairness ==
  /\ WF_vars(LoadConfig) /\ WF_vars(StartMetrics) /\ WF_vars(NewServer)
  /\ WF_vars(StartServer) /\ WF_vars(Join)
  /\ WF_vars(MetricsSpawn) /\ WF_vars(MetricsBind)
  /\ WF_vars(MetricsServeReturns) /\ WF_vars(MetricsDone)
  /\ WF_vars(MetricsShutdown)
  /\ WF_vars(ServerSpawn) /\ WF_vars(ServerBind) /\ WF_vars(ServerServeReturns)
  /\ WF_vars(ServerDone)
  /\ WF_vars(ServerShutdownBegin) /\ WF_vars(ServerShutdownEnd)
  /\ \A r \in Requests : WF_vars(Signing(r))

ProcessSpec == Spec /\ ProcessFairness

---------------------------------------------------------------------------
(* Properties.                                                             *)

(* sync.WaitGroup accounting: when main's wg.Wait() returns and the        *)
(* process exits, every goroutine main counted (both servers and both      *)
(* shutdown goroutines) has finished, so no Shutdown is cut short.         *)
ExitAfterAllDone ==
  main = "exited" =>
    /\ ms = "exited" /\ msd = "exited" /\ hs = "exited" /\ hsd = "exited"

(* sync.WaitGroup's rule: an Add with a positive delta made while the     *)
(* counter is zero must happen before Wait. The goroutines add for the     *)
(* shutdown goroutines they spawn; once main is in wg.Wait() such an Add   *)
(* must find the counter above zero, which holds because their own count  *)
(* is only released by a deferred Done.                                    *)
AddBeforeWait == [][(wg' > wg /\ main = "join") => wg > 0]_vars

(* Spec 5: a shutdown signal is not blocked by a slow remote peer: once   *)
(* main has cancelled the context the process eventually exits.           *)
ShutdownCompletes == ctxDone ~> (main = "exited")

(* The only thing that can keep the process from exiting after a signal is *)
(* a request stuck in GetHistoricalEvent, whose gRPC call has no deadline: *)
(* in every behaviour where no request stays in the lookup forever, main's *)
(* cancel() leads through Shutdown and wg.Wait() to the exit, whatever the *)
(* requests, bind failures and keep-alives in flight when the signal came. *)
ShutdownCompletesUnlessLookupHangs ==
  (\A r \in Requests : []<>(pc[r] # "lookup")) => ShutdownCompletes

=============================================================================
