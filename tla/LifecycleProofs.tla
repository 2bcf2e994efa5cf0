--------------------------- MODULE LifecycleProofs ---------------------------
(***************************************************************************)
(* Proofs about the process lifecycle (main, metrics.Serve, server.Start,   *)
(* their shutdown goroutines and the sync.WaitGroup) together with the     *)
(* validation requests the server runs, for every number of requests, ids, *)
(* store bound and signature lengths.                                      *)
(***************************************************************************)
EXTENDS Lifecycle, TLAPS

VHP == INSTANCE ValidationHandlerProofs

(* ValidationHandler's assumptions hold of the constants Lifecycle passes. *)
LEMMA HandlerAssumptions ==
  /\ VHP!MaxStoreAssumption
  /\ VHP!SigLensAssumption
  /\ VHP!DistinctAssumption
BY HandlerConstantsAssumption

(* A goroutine main counted in the WaitGroup and that has not yet run     *)
(* its deferred wg.Done().                                                 *)
Live(s) == IF s \in {"start", "bind", "serve", "end"} THEN 1 ELSE 0

(* The goroutines counted and not yet done: each wg.Add(1) of main and of  *)
(* the two servers is matched by exactly one of these.                     *)
Counted == Live(ms) + (IF msd = "wait" THEN 1 ELSE 0)
         + Live(hs) + (IF hsd \in {"wait", "drain"} THEN 1 ELSE 0)

(* The lifecycle's own types (TypeOK without the handler's part). *)
LTypeOK ==
  /\ main \in {"config", "metrics", "server", "start", "wait", "join",
               "exited", "failed"}
  /\ ctxDone \in BOOLEAN
  /\ ms \in {"off", "start", "bind", "serve", "end", "exited"}
  /\ msd \in {"off", "wait", "exited"}
  /\ hs \in {"off", "start", "bind", "serve", "end", "exited"}
  /\ hsd \in {"off", "wait", "drain", "exited"}
  /\ open \in BOOLEAN

(* ExitAfterAllDone is not inductive: Join checks only wg = 0, so the      *)
(* counter must be tied to the goroutines, and each shutdown goroutine to  *)
(* its server (spawned together in MetricsSpawn and ServerSpawn), and the  *)
(* servers to how far main has got (it starts them before it waits), and  *)
(* the counter is zero after main exits, which only Join does.             *)
LInv ==
  /\ wg = Counted
  /\ ms \in {"off", "start"} <=> msd = "off"
  /\ hs \in {"off", "start"} <=> hsd = "off"
  /\ main \in {"config", "metrics"} => ms = "off"
  /\ main \in {"server", "start", "wait", "join", "exited"} => ms # "off"
  /\ main \in {"config", "metrics", "server", "start"} => hs = "off"
  /\ main \in {"wait", "join", "exited"} => hs # "off"
  /\ main = "exited" => wg = 0

(* The inductive invariant: the handler's, and the lifecycle's. *)
IInv == LTypeOK /\ VHP!IInv /\ LInv

---------------------------------------------------------------------------
(* The handler state seen through the two instances is the same: the      *)
(* handler's data definitions are expanded wherever they occur.            *)
USE DEF VH!Decoded, VHP!Decoded, VH!Bodies, VHP!Bodies, VH!Occurrences,
        VHP!Occurrences, VH!Marshal, VHP!Marshal, VH!Replies, VHP!Replies,
        VH!Hex, VHP!Hex, VH!NoResp, VHP!NoResp, VH!InvalidFormat,
        VHP!InvalidFormat, VH!MissingFields, VHP!MissingFields,
        VH!CheckFailed, VHP!CheckFailed, VH!SignFailed, VHP!SignFailed,
        VH!Causes, VHP!Causes, VH!NoReq, VHP!NoReq, VH!NoReply, VHP!NoReply,
        VH!Finish, VHP!Finish, VH!Matches, VHP!Matches

LEMMA HandlerTypes == TypeOK <=> VHP!TypeOK /\ LTypeOK /\ wg \in Nat
BY DEF TypeOK, VH!TypeOK, VHP!TypeOK, LTypeOK

(* Every step of the process is a step or a stutter of the handler: the    *)
(* lifecycle's own steps leave the requests alone, and a request step is  *)
(* one of HandleValidationRequest's.                                       *)
LEMMA HandlerStep == [Next]_vars => [VHP!Next]_(VHP!vars)
<1> SUFFICES ASSUME [Next]_vars PROVE [VHP!Next]_(VHP!vars)
  OBVIOUS
<1>1. CASE \E r \in Requests : Arrive(r) \/ Lookup(r) \/ Signing(r) \/ KeepAlive(r)
  <2>1. PICK r \in Requests : Arrive(r) \/ Lookup(r) \/ Signing(r) \/ KeepAlive(r)
    BY <1>1
  <2>2. CASE Arrive(r)
    <3>1. VHP!RejectMalformed(r) \/ VHP!RejectMissing(r) \/ VHP!Accept(r)
      BY <2>2 DEF Arrive, VH!RejectMalformed, VH!RejectMissing, VH!Accept,
         VHP!RejectMalformed, VHP!RejectMissing, VHP!Accept
    <3>2. QED
      BY <3>1 DEF VHP!Next
  <2>3. CASE Lookup(r)
    <3>1. VHP!LookupFound(r) \/ VHP!LookupNotFound(r) \/ VHP!LookupError(r)
      BY <2>3 DEF Lookup, VH!LookupFound, VH!LookupNotFound, VH!LookupError,
         VHP!LookupFound, VHP!LookupNotFound, VHP!LookupError
    <3>2. QED
      BY <3>1 DEF VHP!Next
  <2>4. CASE Signing(r)
    <3>1. VHP!SignFails(r) \/ VHP!SignReply(r)
      BY <2>4 DEF Signing, VH!SignFails, VH!SignReply, VHP!SignFails,
         VHP!SignReply
    <3>2. QED
      BY <3>1 DEF VHP!Next
  <2>5. CASE KeepAlive(r)
    <3>1. VHP!NextRequest(r)
      BY <2>5 DEF KeepAlive, VH!NextRequest, VHP!NextRequest
    <3>2. QED
      BY <3>1 DEF VHP!Next
  <2>6. QED
    BY <2>1, <2>2, <2>3, <2>4, <2>5
<1>2. CASE MonitorRecords
  BY <1>2 DEF MonitorRecords, VH!Record, VHP!Record, VHP!Next
<1>3. CASE ~(\E r \in Requests : Arrive(r) \/ Lookup(r) \/ Signing(r) \/ KeepAlive(r))
           /\ ~MonitorRecords
  <2>1. UNCHANGED hvars
    BY <1>3 DEF Next, vars, LoadConfig, StartMetrics, NewServer, StartServer,
       Signal, Join, MetricsSpawn, MetricsBind, MetricsServeReturns,
       MetricsDone, MetricsShutdown, ServerSpawn, ServerBind,
       ServerServeReturns, ServerDone, ServerShutdownBegin, ServerShutdownEnd,
       Ended
  <2>2. QED
    BY <2>1 DEF VHP!vars, hvars
<1>4. QED
  BY <1>1, <1>2, <1>3


---------------------------------------------------------------------------
(* The WaitGroup accounting.                                               *)

(* Each step of main or of a server goroutine keeps the counter equal to   *)
(* the goroutines counted and not yet done; a request step leaves the      *)
(* lifecycle alone.                                                        *)
LEMMA LifecycleStep ==
  ASSUME LTypeOK, LInv, [Next]_vars
  PROVE  LTypeOK' /\ LInv'
<1>1. CASE LoadConfig
  BY <1>1 DEF LoadConfig, Running, LTypeOK, LInv, Counted, Live
<1>2. CASE StartMetrics
  BY <1>2 DEF StartMetrics, Running, LTypeOK, LInv, Counted, Live
<1>3. CASE NewServer
  BY <1>3 DEF NewServer, Running, LTypeOK, LInv, Counted, Live
<1>4. CASE StartServer
  BY <1>4 DEF StartServer, Running, LTypeOK, LInv, Counted, Live
<1>5. CASE Signal
  BY <1>5 DEF Signal, Running, LTypeOK, LInv, Counted, Live
<1>6. CASE Join
  BY <1>6 DEF Join, Running, LTypeOK, LInv, Counted, Live
<1>7. CASE MetricsSpawn
  BY <1>7 DEF MetricsSpawn, Running, LTypeOK, LInv, Counted, Live
<1>8. CASE MetricsBind
  BY <1>8 DEF MetricsBind, Running, LTypeOK, LInv, Counted, Live
<1>9. CASE MetricsServeReturns
  BY <1>9 DEF MetricsServeReturns, Running, LTypeOK, LInv, Counted, Live
<1>10. CASE MetricsDone
  BY <1>10 DEF MetricsDone, Running, LTypeOK, LInv, Counted, Live
<1>11. CASE MetricsShutdown
  BY <1>11 DEF MetricsShutdown, Running, LTypeOK, LInv, Counted, Live
<1>12. CASE ServerSpawn
  BY <1>12 DEF ServerSpawn, Running, LTypeOK, LInv, Counted, Live
<1>13. CASE ServerBind
  BY <1>13 DEF ServerBind, Running, LTypeOK, LInv, Counted, Live
<1>14. CASE ServerServeReturns
  BY <1>14 DEF ServerServeReturns, Running, LTypeOK, LInv, Counted, Live
<1>15. CASE ServerDone
  BY <1>15 DEF ServerDone, Running, LTypeOK, LInv, Counted, Live
<1>16. CASE ServerShutdownBegin
  BY <1>16 DEF ServerShutdownBegin, Running, LTypeOK, LInv, Counted, Live
<1>17. CASE ServerShutdownEnd
  BY <1>17 DEF ServerShutdownEnd, Running, LTypeOK, LInv, Counted, Live
<1>18. CASE \E r \in Requests : Arrive(r) \/ Lookup(r) \/ Signing(r) \/ KeepAlive(r)
  BY <1>18 DEF Arrive, Lookup, Signing, KeepAlive, lvars, LTypeOK, LInv,
     Counted, Live
<1>19. CASE MonitorRecords \/ Ended \/ UNCHANGED vars
  BY <1>19 DEF MonitorRecords, Ended, vars, lvars, LTypeOK, LInv, Counted,
     Live
<1>20. QED
  BY <1>1, <1>2, <1>3, <1>4, <1>5, <1>6, <1>7, <1>8, <1>9, <1>10, <1>11, <1>12, <1>13, <1>14, <1>15, <1>16, <1>17, <1>18, <1>19 DEF Next

LEMMA InitIInv == Init => IInv
<1> SUFFICES ASSUME Init PROVE IInv
  OBVIOUS
<1>1. VHP!IInv
  <2>1. VHP!Init
    BY DEF Init, VH!Init, VHP!Init
  <2>2. QED
    BY <2>1, VHP!InitIInv, HandlerAssumptions
<1>2. LTypeOK
  BY DEF Init, LTypeOK
<1>3. Counted = 0
  BY DEF Init, Counted, Live
<1>4. LInv
  BY <1>3 DEF Init, LInv
<1>5. QED
  BY <1>1, <1>2, <1>4 DEF IInv

LEMMA NextIInv == IInv /\ [Next]_vars => IInv'
<1> SUFFICES ASSUME IInv, [Next]_vars PROVE IInv'
  OBVIOUS
<1>1. VHP!IInv'
  <2>1. [VHP!Next]_(VHP!vars)
    BY HandlerStep
  <2>2. VHP!IInv
    BY DEF IInv
  <2>3. QED
    BY <2>1, <2>2, VHP!NextIInv, HandlerAssumptions
<1>2. LTypeOK' /\ LInv'
  BY LifecycleStep DEF IInv
<1>3. QED
  BY <1>1, <1>2 DEF IInv


---------------------------------------------------------------------------
(* Theorems.                                                               *)

(* Type correctness of the process: main and every goroutine are at one   *)
(* of their control points, the WaitGroup counter never goes negative, and *)
(* the requests have the handler's types.                                  *)
THEOREM TypeCorrect == Spec => []TypeOK
<1>1. IInv => TypeOK
  <2> SUFFICES ASSUME IInv PROVE TypeOK
    OBVIOUS
  <2>1. wg \in Nat
    BY DEF IInv, LInv, Counted, Live
  <2>2. VHP!TypeOK /\ LTypeOK
    BY DEF IInv, VHP!IInv
  <2>3. QED
    BY <2>1, <2>2, HandlerTypes
<1>2. QED
  BY <1>1, InitIInv, NextIInv, PTL DEF Spec

(* When main's wg.Wait() returns and the process exits, both servers and   *)
(* both shutdown goroutines have returned: Join's wg = 0 leaves no counted *)
(* goroutine running, and main started all four before it waited.          *)
THEOREM ExitAfterAllDoneHolds == Spec => []ExitAfterAllDone
<1>1. IInv => ExitAfterAllDone
  BY DEF IInv, LTypeOK, LInv, Counted, Live, ExitAfterAllDone
<1>2. QED
  BY <1>1, InitIInv, NextIInv, PTL DEF Spec

(* sync.WaitGroup's rule is kept: while main is in wg.Wait(), an Add made  *)
(* by metrics.Serve or server.Start for its shutdown goroutine finds the  *)
(* counter above zero, since the server itself is still counted.           *)
LEMMA AddStep ==
  ASSUME IInv, [Next]_vars
  PROVE  (wg' > wg /\ main = "join") => wg > 0
<1> SUFFICES ASSUME wg' > wg, main = "join" PROVE wg > 0
  OBVIOUS
<1>1. CASE MetricsSpawn
  BY <1>1 DEF MetricsSpawn, IInv, LInv, Counted, Live
<1>2. CASE ServerSpawn
  BY <1>2 DEF ServerSpawn, IInv, LInv, Counted, Live
<1>3. CASE LoadConfig
  BY <1>3 DEF LoadConfig, IInv, LInv, Counted, Live
<1>4. CASE StartMetrics
  BY <1>4 DEF StartMetrics, IInv, LInv, Counted, Live
<1>5. CASE NewServer
  BY <1>5 DEF NewServer, IInv, LInv, Counted, Live
<1>6. CASE StartServer
  BY <1>6 DEF StartServer, IInv, LInv, Counted, Live
<1>7. CASE Signal
  BY <1>7 DEF Signal, IInv, LInv, Counted, Live
<1>8. CASE Join
  BY <1>8 DEF Join, IInv, LInv, Counted, Live
<1>9. CASE MetricsBind
  BY <1>9 DEF MetricsBind, IInv, LInv, Counted, Live
<1>10. CASE MetricsServeReturns
  BY <1>10 DEF MetricsServeReturns, IInv, LInv, Counted, Live
<1>11. CASE MetricsDone
  BY <1>11 DEF MetricsDone, IInv, LInv, Counted, Live
<1>12. CASE MetricsShutdown
  BY <1>12 DEF MetricsShutdown, IInv, LInv, Counted, Live
<1>13. CASE ServerBind
  BY <1>13 DEF ServerBind, IInv, LInv, Counted, Live
<1>14. CASE ServerServeReturns
  BY <1>14 DEF ServerServeReturns, IInv, LInv, Counted, Live
<1>15. CASE ServerDone
  BY <1>15 DEF ServerDone, IInv, LInv, Counted, Live
<1>16. CASE ServerShutdownBegin
  BY <1>16 DEF ServerShutdownBegin, IInv, LInv, Counted, Live
<1>17. CASE ServerShutdownEnd
  BY <1>17 DEF ServerShutdownEnd, IInv, LInv, Counted, Live
<1>18. CASE \E r \in Requests : Arrive(r) \/ Lookup(r) \/ Signing(r) \/ KeepAlive(r)
  BY <1>18 DEF Arrive, Lookup, Signing, KeepAlive, lvars, IInv, LInv,
     Counted, Live
<1>19. CASE MonitorRecords \/ Ended \/ UNCHANGED vars
  BY <1>19 DEF MonitorRecords, Ended, vars, lvars, IInv, LInv, Counted, Live
<1>20. QED
  BY <1>1, <1>2, <1>3, <1>4, <1>5, <1>6, <1>7, <1>8, <1>9, <1>10, <1>11, <1>12, <1>13, <1>14, <1>15, <1>16, <1>17, <1>18, <1>19
     DEF Next

THEOREM AddBeforeWaitHolds == Spec => AddBeforeWait
<1>1. IInv /\ [Next]_vars => [(wg' > wg /\ main = "join") => wg > 0]_vars
  BY AddStep
<1>2. QED
  BY <1>1, InitIInv, NextIInv, PTL DEF Spec, AddBeforeWait

=============================================================================
