--------------------------- MODULE EventPipeline ---------------------------
(***************************************************************************)
(* The live BridgeReceipt event pipeline of the onlyswaps verifier.        *)
(*                                                                         *)
(*  - startup (NewValidationHandler): for each configured chain, register  *)
(*    the BridgeReceipt event with the chain monitor and open a gRPC       *)
(*    stream for it (ChainMonitorClient.ListenForBridgeReceipt); the first *)
(*    failure aborts the process (log.Fatalf in main);                     *)
(*  - one forwarding goroutine per chain: stream.Recv(), then a blocking   *)
(*    send into a buffered channel of capacity 100; on a Recv error the    *)
(*    goroutine returns and its deferred close(eventChan) runs;            *)
(*  - GET /v1/swap/latest (GetLatestReceipts): for every chain, in map     *)
(*    order, one non-blocking receive from that chain's channel; answer    *)
(*    204 if nothing was received, else the list of received values.       *)
(*                                                                         *)
(* Event k of chain c is the k-th occurrence the monitor pushes on c's     *)
(* stream; the data of an occurrence is abstracted to that index.          *)
(***************************************************************************)
EXTENDS Naturals, Sequences

CONSTANTS
  NChains,    \* number of entries of cfg.ChainIds
  Capacity,   \* capacity of each eventChan (100 in the code)
  MaxEvents,  \* bound on the occurrences the monitor pushes per stream
  Clients     \* concurrent callers of GET /v1/swap/latest

ASSUME NChainsAssumption == NChains \in Nat \ {0}
ASSUME CapacityAssumption == Capacity \in Nat \ {0}
ASSUME MaxEventsAssumption == MaxEvents \in Nat

Chains == 1 .. NChains
Events == 1 .. MaxEvents

(* The zero value, a nil *omnievent.EventOccurrence, that a receive from *)
(* a closed channel yields.                                                *)
NilEvent == 0

(* An entry of the response list: the chain visited and what was received. *)
Items == Chains \X (Events \cup {NilEvent})

VARIABLES
  phase,   \* "starting" in NewValidationHandler, "serving", or "failed" (exited)
  opened,  \* number of chains whose stream NewValidationHandler has opened
  fwd,     \* control point of each chain's forwarding goroutine
  recvd,   \* number of occurrences the goroutine has taken from stream.Recv
  held,    \* the occurrence the goroutine is trying to send (0 if none)
  buf,     \* contents of each eventChan
  out,     \* history: the occurrences of each chain handed to a caller
  cpc,     \* control point of each GetLatestReceipts call
  todo,    \* chains that call has not visited yet
  acc      \* the events slice that call has built

vars == <<phase, opened, fwd, recvd, held, buf, out, cpc, todo, acc>>

TypeOK ==
  /\ phase \in {"starting", "serving", "failed"}
  /\ opened \in 0 .. NChains
  /\ fwd \in [Chains -> {"off", "recv", "send", "done"}]
  /\ recvd \in [Chains -> 0 .. MaxEvents]
  /\ held \in [Chains -> 0 .. MaxEvents]
  /\ buf \in [Chains -> Seq(Events)]
  /\ \A c \in Chains : Len(buf[c]) <= Capacity
  /\ out \in [Chains -> Seq(Events)]
  /\ cpc \in [Clients -> {"idle", "scan"}]
  /\ todo \in [Clients -> SUBSET Chains]
  /\ acc \in [Clients -> Seq(Items)]

Init ==
  /\ phase = "starting"
  /\ opened = 0
  /\ fwd = [c \in Chains |-> "off"]
  /\ recvd = [c \in Chains |-> 0]
  /\ held = [c \in Chains |-> 0]
  /\ buf = [c \in Chains |-> <<>>]
  /\ out = [c \in Chains |-> <<>>]
  /\ cpc = [k \in Clients |-> "idle"]
  /\ todo = [k \in Clients |-> {}]
  /\ acc = [k \in Clients |-> <<>>]

---------------------------------------------------------------------------
(* Startup: one iteration of the loop over cfg.ChainIds.                  *)

(* RegisterEvent and StreamEvents both succeed: the goroutine is started   *)
(* and blocks in stream.Recv. After the last chain the HTTP server starts. *)
OpenStream ==
  /\ phase = "starting"
  /\ opened < NChains
  /\ opened' = opened + 1
  /\ fwd' = [fwd EXCEPT ![opened + 1] = "recv"]
  /\ phase' = IF opened + 1 = NChains THEN "serving" ELSE "starting"
  /\ UNCHANGED <<recvd, held, buf, out, cpc, todo, acc>>

(* RegisterEvent or StreamEvents returns an error: NewValidationHandler    *)
(* returns it and main calls log.Fatalf, which exits the process.          *)
OpenStreamFails ==
  /\ phase = "starting"
  /\ opened < NChains
  /\ phase' = "failed"
  /\ UNCHANGED <<opened, fwd, recvd, held, buf, out, cpc, todo, acc>>

---------------------------------------------------------------------------
(* The forwarding goroutine of chain c. Its ctx is context.Background(),   *)
(* so the <-ctx.Done() branch of its select can never be taken.            *)

(* stream.Recv() returns the next occurrence. *)
Recv(c) ==
  /\ phase # "failed"
  /\ fwd[c] = "recv"
  /\ recvd[c] < MaxEvents
  /\ recvd' = [recvd EXCEPT ![c] = @ + 1]
  /\ held' = [held EXCEPT ![c] = recvd[c] + 1]
  /\ fwd' = [fwd EXCEPT ![c] = "send"]
  /\ UNCHANGED <<phase, opened, buf, out, cpc, todo, acc>>

(* stream.Recv() returns an error (stream ended or broke): the goroutine   *)
(* returns and the deferred close(eventChan) runs.                         *)
RecvError(c) ==
  /\ phase # "failed"
  /\ fwd[c] = "recv"
  /\ fwd' = [fwd EXCEPT ![c] = "done"]
  /\ UNCHANGED <<phase, opened, recvd, held, buf, out, cpc, todo, acc>>

(* Variant: a send that ignores the channel's capacity. *)
SendUnbounded(c) ==
  /\ phase # "failed"
  /\ fwd[c] = "send"
  /\ buf' = [buf EXCEPT ![c] = Append(@, held[c])]
  /\ held' = [held EXCEPT ![c] = 0]
  /\ fwd' = [fwd EXCEPT ![c] = "recv"]
  /\ UNCHANGED <<phase, opened, recvd, out, cpc, todo, acc>>

(* The select's send case: blocks while the channel is full. *)
Send(c) ==
  /\ phase # "failed"
  /\ fwd[c] = "send"
  /\ Len(buf[c]) < Capacity
  /\ buf' = [buf EXCEPT ![c] = Append(@, held[c])]
  /\ held' = [held EXCEPT ![c] = 0]
  /\ fwd' = [fwd EXCEPT ![c] = "recv"]
  /\ UNCHANGED <<phase, opened, recvd, out, cpc, todo, acc>>

---------------------------------------------------------------------------
(* GetLatestReceipts, one step per iteration of `range h.streams`.         *)

StartScan(k) ==
  /\ phase = "serving"
  /\ cpc[k] = "idle"
  /\ cpc' = [cpc EXCEPT ![k] = "scan"]
  /\ todo' = [todo EXCEPT ![k] = Chains]
  /\ acc' = [acc EXCEPT ![k] = <<>>]
  /\ UNCHANGED <<phase, opened, fwd, recvd, held, buf, out>>

(* Variant: the head of the channel is read but not removed from it. *)
ScanChainPeek(k, c) ==
  /\ phase = "serving"
  /\ cpc[k] = "scan"
  /\ c \in todo[k]
  /\ todo' = [todo EXCEPT ![k] = @ \ {c}]
  /\ \/ /\ buf[c] # <<>>
        /\ acc' = [acc EXCEPT ![k] = Append(@, <<c, Head(buf[c])>>)]
        /\ out' = [out EXCEPT ![c] = Append(@, Head(buf[c]))]
        /\ UNCHANGED buf
     \/ /\ buf[c] = <<>>
        /\ fwd[c] = "done"
        /\ acc' = [acc EXCEPT ![k] = Append(@, <<c, NilEvent>>)]
        /\ UNCHANGED <<buf, out>>
     \/ /\ buf[c] = <<>>
        /\ fwd[c] # "done"
        /\ UNCHANGED <<buf, out, acc>>
  /\ UNCHANGED <<phase, opened, fwd, recvd, held, cpc>>

(* Variant: a closed channel is reported closed before it is drained. *)
ScanChainClosedFirst(k, c) ==
  /\ phase = "serving"
  /\ cpc[k] = "scan"
  /\ c \in todo[k]
  /\ todo' = [todo EXCEPT ![k] = @ \ {c}]
  /\ \/ /\ buf[c] # <<>>
        /\ fwd[c] # "done"
        /\ acc' = [acc EXCEPT ![k] = Append(@, <<c, Head(buf[c])>>)]
        /\ out' = [out EXCEPT ![c] = Append(@, Head(buf[c]))]
        /\ buf' = [buf EXCEPT ![c] = Tail(@)]
     \/ /\ fwd[c] = "done"
        /\ acc' = [acc EXCEPT ![k] = Append(@, <<c, NilEvent>>)]
        /\ UNCHANGED <<buf, out>>
     \/ /\ buf[c] = <<>>
        /\ fwd[c] # "done"
        /\ UNCHANGED <<buf, out, acc>>
  /\ UNCHANGED <<phase, opened, fwd, recvd, held, cpc>>

(* select { case event := <-stream: ...; default: }. A receive succeeds    *)
(* when the buffer holds an occurrence, and also, yielding nil, when the   *)
(* channel is closed and drained; otherwise the default case is taken.     *)
ScanChain(k, c) ==
  /\ phase = "serving"
  /\ cpc[k] = "scan"
  /\ c \in todo[k]
  /\ todo' = [todo EXCEPT ![k] = @ \ {c}]
  /\ \/ /\ buf[c] # <<>>
        /\ acc' = [acc EXCEPT ![k] = Append(@, <<c, Head(buf[c])>>)]
        /\ out' = [out EXCEPT ![c] = Append(@, Head(buf[c]))]
        /\ buf' = [buf EXCEPT ![c] = Tail(@)]
     \/ /\ buf[c] = <<>>
        /\ fwd[c] = "done"
        /\ acc' = [acc EXCEPT ![k] = Append(@, <<c, NilEvent>>)]
        /\ UNCHANGED <<buf, out>>
     \/ /\ buf[c] = <<>>
        /\ fwd[c] # "done"
        /\ UNCHANGED <<buf, out, acc>>
  /\ UNCHANGED <<phase, opened, fwd, recvd, held, cpc>>

(* All chains visited: 204 if count == 0, else the JSON list of events.    *)
(* acc keeps the body of the answer until the caller's next request.       *)
FinishScan(k) ==
  /\ phase = "serving"
  /\ cpc[k] = "scan"
  /\ todo[k] = {}
  /\ cpc' = [cpc EXCEPT ![k] = "idle"]
  /\ UNCHANGED <<phase, opened, fwd, recvd, held, buf, out, todo, acc>>

(* log.Fatalf has exited the process: nothing happens any more. *)
Exited ==
  /\ phase = "failed"
  /\ UNCHANGED vars

Next ==
  \/ OpenStream
  \/ OpenStreamFails
  \/ \E c \in Chains : Recv(c) \/ RecvError(c) \/ Send(c)
  \/ \E k \in Clients : StartScan(k) \/ FinishScan(k)
  \/ \E k \in Clients, c \in Chains : ScanChain(k, c)
  \/ Exited

(* The process runs its startup code and the Go scheduler runs every       *)
(* runnable goroutine; the monitor is not obliged to push anything, and    *)
(* callers are not obliged to poll.                                        *)
ProcessFairness ==
  /\ WF_vars(OpenStream \/ OpenStreamFails)
  /\ \A c \in Chains : WF_vars(Send(c))

(* Callers that keep polling GET /v1/swap/latest, each call running to     *)
(* its end.                                                                *)
PollingFairness ==
  \A k \in Clients :
    /\ WF_vars(StartScan(k))
    /\ WF_vars(\E c \in Chains : ScanChain(k, c))
    /\ WF_vars(FinishScan(k))

Spec == Init /\ [][Next]_vars

ProducerSpec == Spec /\ ProcessFairness

FairSpec == Spec /\ ProcessFairness /\ PollingFairness

---------------------------------------------------------------------------
(* Properties.                                                             *)

(* The occurrence a forwarding goroutine holds, as a sequence. *)
Pending(c) == IF fwd[c] = "send" THEN <<held[c]>> ELSE <<>>

(* What the live feed promises per chain (spec 4.2, 4.3, 5): across all    *)
(* concurrent GetLatestReceipts calls, the occurrences handed out, then    *)
(* those still in the channel, then the one the goroutine holds, are       *)
(* exactly the occurrences stream.Recv returned, in order: none lost,      *)
(* duplicated or reordered between Recv and the HTTP answer.               *)
StreamOrderPreserved ==
  \A c \in Chains :
    out[c] \o buf[c] \o Pending(c) = [i \in 1 .. recvd[c] |-> i]

(* Every occurrence the goroutine received is eventually in some answer of *)
(* GET /v1/swap/latest, also after its stream has closed, provided callers *)
(* keep polling (or the process exited at startup).                        *)
EventuallyServed ==
  \A c \in Chains, i \in Events :
    (recvd[c] >= i) ~> (Len(out[c]) >= i \/ phase = "failed")

(* Spec 4.3/6: an answer lists only occurrences received from the monitor; *)
(* GetLatestReceipts never reports an event that does not exist.           *)
NoNilEvent ==
  \A k \in Clients : \A i \in 1 .. Len(acc[k]) : acc[k][i][2] # NilEvent

(* Spec 4.2: a full buffer never blocks the forwarding goroutine           *)
(* indefinitely: once it holds an occurrence it gets back to stream.Recv.  *)
ForwarderNeverStuck ==
  \A c \in Chains : (fwd[c] = "send") ~> (fwd[c] # "send")

=============================================================================
