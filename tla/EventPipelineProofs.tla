------------------------ MODULE EventPipelineProofs ------------------------
(***************************************************************************)
(* Proofs about EventPipeline for every number of chains, every channel    *)
(* capacity, every bound on the stream and every set of callers.           *)
(***************************************************************************)
EXTENDS EventPipeline, SequenceTheorems, TLAPS

USE NChainsAssumption, CapacityAssumption, MaxEventsAssumption

(* Where the occurrences of a chain are, counted from the first one its    *)
(* forwarding goroutine received (r of them so far): the first Len(o) were *)
(* handed out, the next Len(b) are in the channel in order, and the        *)
(* goroutine holds the last one, h, while it is trying to send (f).        *)
OrderOf(o, b, f, h, r) ==
  /\ \A i \in 1 .. Len(o) : o[i] = i
  /\ \A i \in 1 .. Len(b) : b[i] = Len(o) + i
  /\ f = "send" => h = r /\ Len(o) + Len(b) + 1 = r
  /\ f # "send" => Len(o) + Len(b) = r

Order(c) == OrderOf(out[c], buf[c], fwd[c], held[c], recvd[c])

(* Startup opens the chains in order: exactly the first `opened` chains   *)
(* have a forwarding goroutine.                                            *)
Started == \A c \in Chains : (fwd[c] = "off") <=> (c > opened)

(* The inductive invariant. TypeOK alone is not inductive: Send appends    *)
(* held[c], and only Order tells that it is a received occurrence, not 0.  *)
IInv == TypeOK /\ Started /\ \A c \in Chains : Order(c)

---------------------------------------------------------------------------
(* How each step of a chain moves its occurrences.                         *)

(* Recv: the goroutine takes occurrence r + 1 from the stream. *)
LEMMA RecvOrder ==
  ASSUME NEW o \in Seq(Nat), NEW b \in Seq(Nat), NEW h, NEW r \in Nat,
         OrderOf(o, b, "recv", h, r)
  PROVE  OrderOf(o, b, "send", r + 1, r + 1)
BY DEF OrderOf

(* The goroutine's control point changes between two non-sending points. *)
LEMMA IdleOrder ==
  ASSUME NEW o \in Seq(Nat), NEW b \in Seq(Nat), NEW h, NEW r \in Nat,
         NEW f, NEW g, f # "send", g # "send", OrderOf(o, b, f, h, r)
  PROVE  \A h2 : OrderOf(o, b, g, h2, r)
BY DEF OrderOf

(* Send: the held occurrence is appended, the next one after the channel. *)
LEMMA SendOrder ==
  ASSUME NEW o \in Seq(Nat), NEW b \in Seq(Nat), NEW h \in Nat, NEW r \in Nat,
         OrderOf(o, b, "send", h, r)
  PROVE  \A h2 : OrderOf(o, Append(b, h), "recv", h2, r)
<1>1. h = r /\ Len(o) + Len(b) + 1 = r
  BY DEF OrderOf
<1>2. \A i \in 1 .. Len(Append(b, h)) : Append(b, h)[i] = Len(o) + i
  <2>1. SUFFICES ASSUME NEW i \in 1 .. Len(b) + 1
                 PROVE  Append(b, h)[i] = Len(o) + i
    OBVIOUS
  <2>2. CASE i <= Len(b)
    BY <2>2 DEF OrderOf
  <2>3. CASE i = Len(b) + 1
    BY <1>1, <2>3
  <2>4. QED
    BY <2>2, <2>3
<1>3. Len(o) + Len(Append(b, h)) = r
  BY <1>1
<1>4. "recv" # "send"
  OBVIOUS
<1>5. QED
  BY <1>2, <1>3, <1>4 DEF OrderOf

(* ScanChain on a non-empty channel: its head moves to the history. *)
LEMMA ReceiveOrder ==
  ASSUME NEW o \in Seq(Nat), NEW b \in Seq(Nat), NEW f, NEW h, NEW r \in Nat,
         b # <<>>, OrderOf(o, b, f, h, r)
  PROVE  OrderOf(Append(o, Head(b)), Tail(b), f, h, r)
<1>1. Len(b) >= 1 /\ Head(b) = Len(o) + 1
  BY DEF OrderOf
<1>2. \A i \in 1 .. Len(Append(o, Head(b))) : Append(o, Head(b))[i] = i
  <2>1. SUFFICES ASSUME NEW i \in 1 .. Len(o) + 1
                 PROVE  Append(o, Head(b))[i] = i
    OBVIOUS
  <2>2. CASE i <= Len(o)
    BY <2>2 DEF OrderOf
  <2>3. CASE i = Len(o) + 1
    BY <1>1, <2>3
  <2>4. QED
    BY <2>2, <2>3
<1>3. \A i \in 1 .. Len(Tail(b)) :
        Tail(b)[i] = Len(Append(o, Head(b))) + i
  BY <1>1 DEF OrderOf
<1>4. Len(Append(o, Head(b))) + Len(Tail(b)) = Len(o) + Len(b)
  BY <1>1
<1>5. CASE f = "send"
  BY <1>2, <1>3, <1>4, <1>5 DEF OrderOf
<1>6. CASE f # "send"
  BY <1>2, <1>3, <1>4, <1>6 DEF OrderOf
<1>7. QED
  BY <1>5, <1>6

LEMMA InitIInv == Init => IInv
BY DEF Init, IInv, TypeOK, Started, Order, OrderOf, Chains

(* A step that leaves a chain's five components alone preserves its order. *)
LEMMA OrderFrame ==
  ASSUME NEW c, Order(c),
         out'[c] = out[c], buf'[c] = buf[c], fwd'[c] = fwd[c],
         held'[c] = held[c], recvd'[c] = recvd[c]
  PROVE  Order(c)'
BY DEF Order

LEMMA ChainTyped ==
  ASSUME TypeOK, NEW c \in Chains
  PROVE  /\ out[c] \in Seq(Nat) /\ buf[c] \in Seq(Nat)
         /\ held[c] \in Nat /\ recvd[c] \in Nat
BY DEF TypeOK, Events

LEMMA NextIInv == IInv /\ [Next]_vars => IInv'
<1> SUFFICES ASSUME TypeOK, Started, \A c \in Chains : Order(c), [Next]_vars
             PROVE IInv'
  BY DEF IInv
<1>. USE DEF IInv
<1>1. CASE OpenStream
  <2>0. opened \in 0 .. NChains - 1 /\ opened' = opened + 1
        /\ fwd' = [fwd EXCEPT ![opened + 1] = "recv"]
    BY <1>1 DEF OpenStream, TypeOK
  <2>1. TypeOK' /\ Started'
    <3>1. TypeOK'
      <4>1. fwd' \in [Chains -> {"off", "recv", "send", "done"}]
        BY <2>0 DEF TypeOK, Chains
      <4>2. opened' \in 0 .. NChains /\ phase' \in {"starting", "serving", "failed"}
        BY <1>1, <2>0 DEF OpenStream
      <4>3. QED
        BY <1>1, <4>1, <4>2 DEF OpenStream, TypeOK
    <3>2. ASSUME NEW c \in Chains PROVE (fwd'[c] = "off") <=> (c > opened')
      <4>1. CASE c = opened + 1
        BY <2>0, <4>1 DEF TypeOK, Chains
      <4>2. CASE c # opened + 1
        <5>1. fwd'[c] = fwd[c]
          BY <2>0, <4>2 DEF TypeOK
        <5>2. (fwd[c] = "off") <=> (c > opened)
          BY DEF Started
        <5>3. QED
          BY <2>0, <4>2, <5>1, <5>2 DEF Chains
      <4>3. QED
        BY <4>1, <4>2
    <3>3. QED
      BY <3>1, <3>2 DEF Started
  <2>2. ASSUME NEW c \in Chains PROVE Order(c)'
    <3>1. CASE c = opened + 1
      <4>1. fwd[c] = "off"
        BY <3>1 DEF Started, TypeOK
      <4>2. OrderOf(out[c], buf[c], "off", held[c], recvd[c])
        BY <4>1 DEF Order
      <4>3. OrderOf(out[c], buf[c], "recv", held[c], recvd[c])
        BY <4>2, IdleOrder, ChainTyped
      <4>4. QED
        BY <1>1, <3>1, <4>3 DEF OpenStream, Order, TypeOK
    <3>2. CASE c # opened + 1
      BY <1>1, <3>2, OrderFrame DEF OpenStream, TypeOK
    <3>3. QED
      BY <3>1, <3>2
  <2>3. QED
    BY <2>1, <2>2
<1>2. CASE OpenStreamFails
  BY <1>2, OrderFrame DEF OpenStreamFails, TypeOK, Started
<1>3. ASSUME NEW c \in Chains, Recv(c) PROVE IInv'
  <2>1. TypeOK'
    BY <1>3 DEF Recv, TypeOK, Events
  <2>2. Started'
    BY <1>3 DEF Recv, TypeOK, Started
  <2>3. Order(c)'
    <3>1. OrderOf(out[c], buf[c], "recv", held[c], recvd[c])
      BY <1>3 DEF Recv, Order
    <3>2. OrderOf(out[c], buf[c], "send", recvd[c] + 1, recvd[c] + 1)
      BY <3>1, RecvOrder, ChainTyped
    <3>3. QED
      BY <1>3, <3>2 DEF Recv, Order, TypeOK
  <2>4. ASSUME NEW d \in Chains, d # c PROVE Order(d)'
    BY <1>3, <2>4, OrderFrame DEF Recv, TypeOK
  <2>5. QED
    BY <2>1, <2>2, <2>3, <2>4
<1>4. ASSUME NEW c \in Chains, RecvError(c) PROVE IInv'
  <2>1. TypeOK' /\ Started'
    BY <1>4 DEF RecvError, TypeOK, Started
  <2>2. Order(c)'
    <3>1. OrderOf(out[c], buf[c], "recv", held[c], recvd[c])
      BY <1>4 DEF RecvError, Order
    <3>2. OrderOf(out[c], buf[c], "done", held[c], recvd[c])
      BY <3>1, IdleOrder, ChainTyped
    <3>3. QED
      BY <1>4, <3>2 DEF RecvError, Order, TypeOK
  <2>3. ASSUME NEW d \in Chains, d # c PROVE Order(d)'
    BY <1>4, <2>3, OrderFrame DEF RecvError, TypeOK
  <2>4. QED
    BY <2>1, <2>2, <2>3
<1>5. ASSUME NEW c \in Chains, Send(c) PROVE IInv'
  <2>1. OrderOf(out[c], buf[c], "send", held[c], recvd[c])
    BY <1>5 DEF Send, Order
  <2>2. held[c] \in Events
    BY <2>1, ChainTyped DEF OrderOf, TypeOK, Events
  <2>3. TypeOK' /\ Started'
    BY <1>5, <2>2 DEF Send, TypeOK, Started
  <2>4. Order(c)'
    <3>1. OrderOf(out[c], Append(buf[c], held[c]), "recv", 0, recvd[c])
      BY <2>1, SendOrder, ChainTyped
    <3>2. QED
      BY <1>5, <3>1 DEF Send, Order, TypeOK
  <2>5. ASSUME NEW d \in Chains, d # c PROVE Order(d)'
    BY <1>5, <2>5, OrderFrame DEF Send, TypeOK
  <2>6. QED
    BY <2>3, <2>4, <2>5
<1>6. ASSUME NEW k \in Clients, StartScan(k) PROVE IInv'
  BY <1>6, OrderFrame DEF StartScan, TypeOK, Started
<1>7. ASSUME NEW k \in Clients, FinishScan(k) PROVE IInv'
  BY <1>7, OrderFrame DEF FinishScan, TypeOK, Started
<1>8. ASSUME NEW k \in Clients, NEW c \in Chains, ScanChain(k, c)
      PROVE IInv'
  <2>1. CASE buf[c] # <<>>
    <3>0. /\ acc' = [acc EXCEPT ![k] = Append(@, <<c, Head(buf[c])>>)]
          /\ out' = [out EXCEPT ![c] = Append(@, Head(buf[c]))]
          /\ buf' = [buf EXCEPT ![c] = Tail(@)]
          /\ UNCHANGED <<phase, opened, fwd, recvd, held, cpc>>
          /\ todo' = [todo EXCEPT ![k] = @ \ {c}]
      BY <1>8, <2>1 DEF ScanChain
    <3>1. Head(buf[c]) \in Events
      BY <2>1 DEF TypeOK
    <3>2. TypeOK' /\ Started'
      <4>1. Append(acc[k], <<c, Head(buf[c])>>) \in Seq(Items)
        BY <3>1 DEF TypeOK, Items
      <4>2. Append(out[c], Head(buf[c])) \in Seq(Events)
        BY <3>1 DEF TypeOK
      <4>3. Tail(buf[c]) \in Seq(Events) /\ Len(Tail(buf[c])) <= Capacity
        BY <2>1 DEF TypeOK
      <4>4. QED
        BY <3>0, <4>1, <4>2, <4>3 DEF TypeOK, Started
    <3>3. Order(c)'
      <4>1. OrderOf(Append(out[c], Head(buf[c])), Tail(buf[c]),
                    fwd[c], held[c], recvd[c])
        BY <2>1, ReceiveOrder, ChainTyped DEF Order
      <4>2. QED
        BY <3>0, <4>1 DEF Order, TypeOK
    <3>4. ASSUME NEW d \in Chains, d # c PROVE Order(d)'
      BY <3>0, <3>4, OrderFrame DEF TypeOK
    <3>5. QED
      BY <3>2, <3>3, <3>4
  <2>2. CASE buf[c] = <<>>
    <3>0. /\ \/ acc' = [acc EXCEPT ![k] = Append(@, <<c, NilEvent>>)]
             \/ acc' = acc
          /\ UNCHANGED <<phase, opened, fwd, recvd, held, cpc, buf, out>>
          /\ todo' = [todo EXCEPT ![k] = @ \ {c}]
      BY <1>8, <2>2 DEF ScanChain
    <3>1. TypeOK' /\ Started'
      <4>1. Append(acc[k], <<c, NilEvent>>) \in Seq(Items)
        BY DEF TypeOK, Items, NilEvent
      <4>2. QED
        BY <3>0, <4>1 DEF TypeOK, Started
    <3>2. QED
      BY <3>0, <3>1, OrderFrame
  <2>3. QED
    BY <2>1, <2>2
<1>9. CASE Exited
  BY <1>9, OrderFrame DEF Exited, vars, TypeOK, Started
<1>10. CASE UNCHANGED vars
  BY <1>10, OrderFrame DEF vars, TypeOK, Started
<1>11. QED
  BY <1>1, <1>2, <1>3, <1>4, <1>5, <1>6, <1>7, <1>8, <1>9, <1>10 DEF Next

---------------------------------------------------------------------------
(* From the order of each chain to the concatenation StreamOrderPreserved  *)
(* states.                                                                 *)
LEMMA ConcatOrder ==
  ASSUME NEW o \in Seq(Nat), NEW b \in Seq(Nat), NEW f, NEW h \in Nat,
         NEW r \in Nat, OrderOf(o, b, f, h, r)
  PROVE  o \o b \o (IF f = "send" THEN <<h>> ELSE <<>>) = [i \in 1 .. r |-> i]
<1> DEFINE p == o \o b
          t == IF f = "send" THEN <<h>> ELSE <<>>
          id == [i \in 1 .. r |-> i]
<1>1. /\ t \in Seq(Nat)
      /\ Len(o) + Len(b) + Len(t) = r
      /\ \A i \in 1 .. Len(t) : t[i] = r
  <2>1. CASE f = "send"
    BY <2>1 DEF OrderOf
  <2>2. CASE f # "send"
    BY <2>2 DEF OrderOf
  <2>3. QED
    BY <2>1, <2>2
<1>2. /\ p \in Seq(Nat)
      /\ Len(p) = Len(o) + Len(b)
      /\ \A i \in 1 .. Len(o) + Len(b) :
           p[i] = IF i <= Len(o) THEN o[i] ELSE b[i - Len(o)]
  BY ConcatProperties
<1>3. \A i \in 1 .. Len(p) : p[i] = i
  BY <1>2 DEF OrderOf
<1>4. /\ p \o t \in Seq(Nat)
      /\ Len(p \o t) = Len(p) + Len(t)
      /\ \A i \in 1 .. Len(p) + Len(t) :
           (p \o t)[i] = IF i <= Len(p) THEN p[i] ELSE t[i - Len(p)]
  BY <1>1, <1>2, ConcatProperties
<1>5. Len(p \o t) = r /\ \A i \in 1 .. r : (p \o t)[i] = i
  BY <1>1, <1>2, <1>3, <1>4
<1>6. id \in Seq(Nat) /\ Len(id) = r
  OBVIOUS
<1>7. QED
  BY <1>4, <1>5, <1>6, SeqEqual

LEMMA IInvOrder == IInv => StreamOrderPreserved
<1> SUFFICES ASSUME IInv, NEW c \in Chains
             PROVE  out[c] \o buf[c] \o Pending(c) = [i \in 1 .. recvd[c] |-> i]
  BY DEF StreamOrderPreserved
<1>1. OrderOf(out[c], buf[c], fwd[c], held[c], recvd[c])
  BY DEF IInv, Order
<1>2. QED
  BY <1>1, ChainTyped, ConcatOrder DEF IInv, Pending

(* Type correctness of the pipeline: every reachable state of startup, the *)
(* forwarding goroutines and the GetLatestReceipts calls has the types     *)
(* TypeOK gives, the channel holding at most Capacity occurrences.         *)
THEOREM TypeCorrect == Spec => []TypeOK
<1>1. Init => IInv
  BY InitIInv
<1>2. IInv /\ [Next]_vars => IInv'
  BY NextIInv
<1>3. IInv => TypeOK
  BY DEF IInv
<1>4. QED
  BY <1>1, <1>2, <1>3, PTL DEF Spec

(* For every number of chains, channel capacity and set of callers, the    *)
(* forwarding goroutines and concurrent GetLatestReceipts calls hand each  *)
(* chain's occurrences out exactly once and in stream order.               *)
THEOREM OrderPreserved == Spec => []StreamOrderPreserved
<1>1. Init => IInv
  BY InitIInv
<1>2. IInv /\ [Next]_vars => IInv'
  BY NextIInv
<1>3. IInv => StreamOrderPreserved
  BY IInvOrder
<1>4. QED
  BY <1>1, <1>2, <1>3, PTL DEF Spec

=============================================================================
