---------------------- MODULE ValidationHandlerProofs ----------------------
(***************************************************************************)
(* Proofs about ValidationHandler for every set of concurrent requests,    *)
(* every set of ids, every bound on the monitor's store and every set of   *)
(* signature lengths.                                                      *)
(***************************************************************************)
EXTENDS ValidationHandler, SequenceTheorems, TLAPS

USE MaxStoreAssumption, SigLensAssumption, DistinctAssumption

(* Both keys of a request are non-empty: it passed the missing-field      *)
(* check of HandleValidationRequest.                                       *)
Accepted(rq) == rq.id \in Ids /\ rq.tx \in Ids

(* What holds of one request. NoFabricatedSignature alone is not          *)
(* inductive: SignReply answers 200 on the strength of the lookup made     *)
(* earlier, so a request waiting for dsigner must have its occurrence      *)
(* recorded; TypeOK needs that such a request's keys are non-empty, so    *)
(* that Marshal(req[r]) is a message dsigner signs; and a request still in *)
(* its handler has no answer yet, since Accept and LookupFound change      *)
(* req[r], on which the conditions of a 200 answer depend.                *)
ReqInv(q) ==
  /\ pc[q] # "done" => resp[q] = NoResp
  /\ pc[q] \in {"lookup", "sign"} => Accepted(req[q])
  /\ pc[q] = "sign" => Observed(req[q])
  /\ resp[q].code = 200 =>
       /\ reply[q].msg = Marshal(req[q])
       /\ reply[q].dst = AcceptedDST
       /\ reply[q].len >= MinSigLen
       /\ resp[q].body = Hex(reply[q])
       /\ Observed(req[q])

(* The inductive invariant. *)
IInv == TypeOK /\ \A q \in Requests : ReqInv(q)

---------------------------------------------------------------------------
(* Lemmas about the lookup.                                                *)

(* The query depends on the request's keys only, not on SwapStatus. *)
LEMMA MatchesKeys ==
  ASSUME NEW rq, NEW rq2, rq2.id = rq.id, rq2.tx = rq.tx
  PROVE  Matches(rq2) = Matches(rq)
BY DEF Matches

(* The monitor only appends: an occurrence once matched stays matched. *)
LEMMA ObservedStable ==
  ASSUME NEW rq, store \in Seq(Occurrences), NEW o \in Occurrences,
         store' = Append(store, o), Observed(rq)
  PROVE  Observed(rq)'
<1>1. PICK i \in 1 .. Len(store) :
        store[i].uuid = rq.id /\ store[i].corr = rq.tx
  BY DEF Observed, Matches
<1>2. i \in 1 .. Len(store') /\ store'[i] = store[i]
  OBVIOUS
<1>3. QED
  BY <1>1, <1>2 DEF Observed, Matches

(* A step that leaves request q's state and the store alone keeps ReqInv(q). *)
LEMMA ReqFrame ==
  ASSUME NEW q, ReqInv(q), UNCHANGED store,
         pc'[q] = pc[q], req'[q] = req[q], reply'[q] = reply[q],
         resp'[q] = resp[q]
  PROVE  ReqInv(q)'
BY DEF ReqInv, Observed, Matches

---------------------------------------------------------------------------
LEMMA InitIInv == Init => IInv
BY DEF Init, IInv, ReqInv, TypeOK, NoReq, NoReply, NoResp, Decoded, Causes

LEMMA IInvNoFabrication == IInv => NoFabricatedSignature
BY DEF IInv, ReqInv, NoFabricatedSignature


(* The answers a finished request may carry, other than a signature. *)
LEMMA ErrorAnswers ==
  {InvalidFormat, MissingFields, CheckFailed, SignFailed} \subseteq
    {NoResp, InvalidFormat, MissingFields, CheckFailed, SignFailed}
    \cup [code : {200}, body : {Hex(s) : s \in Replies}]
OBVIOUS

(* Request r ends with an error answer: types and ReqInv(r) are kept. *)
LEMMA FinishError ==
  ASSUME IInv, NEW r \in Requests,
         NEW a \in {InvalidFormat, MissingFields, CheckFailed, SignFailed},
         NEW why \in Causes, Finish(r, a, why), UNCHANGED store,
         req' \in [Requests -> Decoded], reply' \in [Requests -> Replies \cup {NoReply}],
         \A q \in Requests \ {r} : req'[q] = req[q] /\ reply'[q] = reply[q]
  PROVE  IInv'
<1>1. TypeOK'
  BY ErrorAnswers DEF IInv, TypeOK, Finish
<1>2. ReqInv(r)'
  <2>1. pc'[r] = "done" /\ resp'[r] = a
    BY DEF Finish, IInv, TypeOK
  <2>2. a.code \in {400, 500}
    <3>1. CASE a = InvalidFormat
      BY <3>1 DEF InvalidFormat
    <3>2. CASE a = MissingFields
      BY <3>2 DEF MissingFields
    <3>3. CASE a = CheckFailed
      BY <3>3 DEF CheckFailed
    <3>4. CASE a = SignFailed
      BY <3>4 DEF SignFailed
    <3>5. QED
      BY <3>1, <3>2, <3>3, <3>4
  <2>3. QED
    BY <2>1, <2>2 DEF ReqInv
<1>3. ASSUME NEW q \in Requests, q # r PROVE ReqInv(q)'
  BY <1>3, ReqFrame DEF Finish, IInv, TypeOK
<1>4. QED
  BY <1>1, <1>2, <1>3 DEF IInv

LEMMA NextIInv == IInv /\ [Next]_vars => IInv'
<1> SUFFICES ASSUME IInv, [Next]_vars PROVE IInv'
  OBVIOUS
<1>1. CASE Record
  <2>1. PICK o \in Occurrences : store' = Append(store, o)
    BY <1>1 DEF Record
  <2>2. TypeOK'
    BY <1>1, <2>1 DEF Record, IInv, TypeOK
  <2>3. ASSUME NEW q \in Requests PROVE ReqInv(q)'
    <3>1. ReqInv(q)
      BY DEF IInv
    <3>2. \A rq : Observed(rq) => Observed(rq)'
      BY <2>1, ObservedStable DEF IInv, TypeOK
    <3>3. QED
      BY <1>1, <3>1, <3>2 DEF Record, ReqInv
  <2>4. QED
    BY <2>2, <2>3 DEF IInv
<1>2. ASSUME NEW r \in Requests, RejectMalformed(r) PROVE IInv'
  BY <1>2, FinishError DEF RejectMalformed, IInv, TypeOK, Causes
<1>3. ASSUME NEW r \in Requests, RejectMissing(r) PROVE IInv'
  <2>1. PICK b \in Bodies \ {Malformed} :
          (b.id = Empty \/ b.tx = Empty) /\ req' = [req EXCEPT ![r] = b]
    BY <1>3 DEF RejectMissing
  <2>2. b \in Decoded
    BY DEF Bodies
  <2>3. QED
    BY <1>3, <2>1, <2>2, FinishError DEF RejectMissing, IInv, TypeOK, Causes
<1>4. ASSUME NEW r \in Requests, Accept(r) PROVE IInv'
  <2>1. PICK b \in [id : Ids, tx : Ids, status : BOOLEAN] :
          req' = [req EXCEPT ![r] = b]
    BY <1>4 DEF Accept
  <2>2. TypeOK'
    BY <1>4, <2>1 DEF Accept, IInv, TypeOK, Decoded
  <2>3. ReqInv(r)'
    <3>1. /\ pc'[r] = "lookup" /\ req'[r] = b /\ resp'[r] = resp[r]
          /\ pc[r] = "idle"
      BY <1>4, <2>1 DEF Accept, IInv, TypeOK
    <3>2. resp[r] = NoResp
      BY <3>1 DEF IInv, ReqInv
    <3>3. QED
      BY <3>1, <3>2 DEF ReqInv, Accepted, NoResp
  <2>4. ASSUME NEW q \in Requests, q # r PROVE ReqInv(q)'
    BY <1>4, <2>1, <2>4, ReqFrame DEF Accept, IInv, TypeOK
  <2>5. QED
    BY <2>2, <2>3, <2>4 DEF IInv
<1>5. ASSUME NEW r \in Requests, LookupFound(r) PROVE IInv'
  <2>1. /\ req'[r] = [req[r] EXCEPT !.status = TRUE]
        /\ req[r] \in Decoded /\ Accepted(req[r]) /\ Observed(req[r])
    BY <1>5 DEF LookupFound, IInv, ReqInv, TypeOK, Observed
  <2>2. Observed(req'[r])
    <3>1. Matches(req'[r]) = Matches(req[r])
      BY <2>1, MatchesKeys DEF Decoded
    <3>2. QED
      BY <2>1, <3>1 DEF Observed
  <2>3. TypeOK'
    BY <1>5, <2>1 DEF LookupFound, IInv, TypeOK, Decoded
  <2>4. ReqInv(r)'
    <3>1. /\ pc'[r] = "sign" /\ resp'[r] = resp[r] /\ pc[r] = "lookup"
      BY <1>5 DEF LookupFound, IInv, TypeOK
    <3>2. resp[r] = NoResp
      BY <3>1 DEF IInv, ReqInv
    <3>3. Accepted(req'[r])
      BY <2>1 DEF Accepted, Decoded
    <3>4. store' = store
      BY <1>5 DEF LookupFound
    <3>5. QED
      BY <2>2, <3>1, <3>2, <3>3, <3>4 DEF ReqInv, NoResp, Observed, Matches
  <2>5. ASSUME NEW q \in Requests, q # r PROVE ReqInv(q)'
    BY <1>5, <2>5, ReqFrame DEF LookupFound, IInv, TypeOK
  <2>6. QED
    BY <2>3, <2>4, <2>5 DEF IInv
<1>6. ASSUME NEW r \in Requests, LookupNotFound(r) PROVE IInv'
  BY <1>6, FinishError DEF LookupNotFound, IInv, TypeOK, Causes
<1>7. ASSUME NEW r \in Requests, LookupError(r) PROVE IInv'
  BY <1>7, FinishError DEF LookupError, IInv, TypeOK, Causes
<1>8. ASSUME NEW r \in Requests, SignFails(r) PROVE IInv'
  BY <1>8, FinishError DEF SignFails, IInv, TypeOK, Causes
<1>9. ASSUME NEW r \in Requests, SignReply(r) PROVE IInv'
  <2>1. PICK n \in SigLens, d \in {AcceptedDST, OtherDST} :
          LET sig == [msg |-> Marshal(req[r]), len |-> n, dst |-> d]
          IN  /\ reply' = [reply EXCEPT ![r] = sig]
              /\ \/ /\ d # AcceptedDST
                    /\ Finish(r, SignFailed, "DomainTagMismatch")
                 \/ /\ d = AcceptedDST
                    /\ n < MinSigLen
                    /\ Finish(r, SignFailed, "SigningError")
                 \/ /\ d = AcceptedDST
                    /\ n >= MinSigLen
                    /\ Finish(r, [code |-> 200, body |-> Hex(sig)], "none")
    BY <1>9 DEF SignReply
  <2> DEFINE sig == [msg |-> Marshal(req[r]), len |-> n, dst |-> d]
  <2>2. /\ pc[r] = "sign" /\ Accepted(req[r]) /\ Observed(req[r])
        /\ req[r] \in Decoded
    BY <1>9 DEF SignReply, IInv, ReqInv, TypeOK
  <2>3. sig \in Replies
    BY <2>2 DEF Replies, Accepted, Decoded
  <2>4. UNCHANGED <<store, req>>
    BY <1>9 DEF SignReply
  <2>5. CASE d # AcceptedDST \/ n < MinSigLen
    <3>1. Finish(r, SignFailed, "DomainTagMismatch")
          \/ Finish(r, SignFailed, "SigningError")
      BY <2>1, <2>5
    <3>2. QED
      BY <2>1, <2>3, <2>4, <3>1, FinishError DEF IInv, TypeOK, Causes
  <2>6. CASE d = AcceptedDST /\ n >= MinSigLen
    <3>1. Finish(r, [code |-> 200, body |-> Hex(sig)], "none")
      BY <2>1, <2>6
    <3>2. TypeOK'
      BY <2>1, <2>3, <2>4, <3>1 DEF Finish, IInv, TypeOK, Causes
    <3>3. ReqInv(r)'
      <4>1. /\ pc'[r] = "done" /\ reply'[r] = sig
            /\ resp'[r] = [code |-> 200, body |-> Hex(sig)]
        BY <2>1, <3>1 DEF Finish, IInv, TypeOK
      <4>2. Observed(req[r])'
        BY <2>2, <2>4 DEF Observed, Matches
      <4>3. QED
        BY <2>4, <2>6, <4>1, <4>2 DEF ReqInv
    <3>4. ASSUME NEW q \in Requests, q # r PROVE ReqInv(q)'
      BY <2>1, <2>4, <3>1, <3>4, ReqFrame DEF Finish, IInv, TypeOK
    <3>5. QED
      BY <3>2, <3>3, <3>4 DEF IInv
  <2>7. QED
    BY <2>5, <2>6
<1>10. ASSUME NEW r \in Requests, NextRequest(r) PROVE IInv'
  <2>1. TypeOK'
    BY <1>10 DEF NextRequest, IInv, TypeOK, NoReq, NoReply, NoResp, Decoded,
       Causes
  <2>2. ReqInv(r)'
    BY <1>10 DEF NextRequest, ReqInv, NoResp, IInv, TypeOK
  <2>3. ASSUME NEW q \in Requests, q # r PROVE ReqInv(q)'
    BY <1>10, <2>3, ReqFrame DEF NextRequest, IInv, TypeOK
  <2>4. QED
    BY <2>1, <2>2, <2>3 DEF IInv
<1>11. CASE UNCHANGED vars
  BY <1>11 DEF vars, IInv, TypeOK, ReqInv, Observed, Matches
<1>12. QED
  BY <1>1, <1>2, <1>3, <1>4, <1>5, <1>6, <1>7, <1>8, <1>9, <1>10, <1>11
     DEF Next

---------------------------------------------------------------------------
(* The refinement of SwapValidation. The mapped state, as the WITH clause *)
(* of SV in ValidationHandler writes it.                                   *)

observedBar == {<<store[i].uuid, store[i].corr>> : i \in 1 .. Len(store)}

phaseBar == [r \in Requests |->
               IF pc[r] = "idle" THEN "idle"
               ELSE IF pc[r] = "done" THEN "answered" ELSE "checking"]

keyBar == [r \in Requests |->
             IF pc[r] \in {"lookup", "sign"} \/ resp[r].code = 200
             THEN SwapKey(req[r]) ELSE SwapKey(NoReq)]

verdictBar == [r \in Requests |->
                 IF resp[r].code = 200 THEN <<reply[r].msg[4], reply[r].msg[2]>>
                 ELSE IF resp[r] = NoResp THEN "none" ELSE "failed"]

(* A step of request r changes the mapped state of request r only. *)
LEMMA MapFrame ==
  ASSUME NEW r \in Requests,
         \A q \in Requests \ {r} : /\ pc'[q] = pc[q] /\ req'[q] = req[q]
                                   /\ reply'[q] = reply[q] /\ resp'[q] = resp[q]
  PROVE  /\ phaseBar' = [phaseBar EXCEPT ![r] = phaseBar'[r]]
         /\ keyBar' = [keyBar EXCEPT ![r] = keyBar'[r]]
         /\ verdictBar' = [verdictBar EXCEPT ![r] = verdictBar'[r]]
<1>1. phaseBar' = [phaseBar EXCEPT ![r] = phaseBar'[r]]
  BY DEF phaseBar
<1>2. keyBar' = [keyBar EXCEPT ![r] = keyBar'[r]]
  <2>1. ASSUME NEW q \in Requests \ {r} PROVE keyBar'[q] = keyBar[q]
    <3>1. pc'[q] = pc[q] /\ req'[q] = req[q] /\ resp'[q] = resp[q]
      BY <2>1
    <3>2. QED
      BY <3>1 DEF keyBar
  <2>2. /\ keyBar = [q \in Requests |-> keyBar[q]]
        /\ keyBar' = [q \in Requests |-> keyBar'[q]]
    BY DEF keyBar
  <2>3. QED
    BY <2>1, <2>2
<1>3. verdictBar' = [verdictBar EXCEPT ![r] = verdictBar'[r]]
  <2>1. ASSUME NEW q \in Requests \ {r} PROVE verdictBar'[q] = verdictBar[q]
    <3>1. reply'[q] = reply[q] /\ resp'[q] = resp[q]
      BY <2>1
    <3>2. QED
      BY <3>1 DEF verdictBar
  <2>2. /\ verdictBar = [q \in Requests |-> verdictBar[q]]
        /\ verdictBar' = [q \in Requests |-> verdictBar'[q]]
    BY DEF verdictBar
  <2>3. QED
    BY <2>1, <2>2
<1>4. QED
  BY <1>1, <1>2, <1>3

(* The monitor's Append adds the key of the new occurrence. *)
LEMMA ObservedAppend ==
  ASSUME store \in Seq(Occurrences), NEW o \in Occurrences,
         store' = Append(store, o)
  PROVE  observedBar' = observedBar \cup {<<o.uuid, o.corr>>}
<1>1. ASSUME NEW i \in 1 .. Len(store') PROVE
        <<store'[i].uuid, store'[i].corr>> \in observedBar \cup {<<o.uuid, o.corr>>}
  <2>1. CASE i = Len(store) + 1
    BY <1>1, <2>1
  <2>2. CASE i \in 1 .. Len(store)
    <3>1. store'[i] = store[i]
      BY <2>2, AppendProperties
    <3>2. QED
      BY <2>2, <3>1 DEF observedBar
  <2>3. Len(store') = Len(store) + 1 /\ Len(store) \in Nat
    BY AppendProperties
  <2>4. i = Len(store) + 1 \/ i \in 1 .. Len(store)
    BY <2>3
  <2>5. QED
    BY <2>1, <2>2, <2>4
<1>2. ASSUME NEW k \in observedBar \cup {<<o.uuid, o.corr>>} PROVE k \in observedBar'
  <2>1. CASE k = <<o.uuid, o.corr>>
    <3>1. Len(store) + 1 \in 1 .. Len(store') /\ store'[Len(store) + 1] = o
      OBVIOUS
    <3>2. QED
      BY <2>1, <3>1 DEF observedBar
  <2>2. CASE k \in observedBar
    <3>1. PICK i \in 1 .. Len(store) : k = <<store[i].uuid, store[i].corr>>
      BY <2>2 DEF observedBar
    <3>2. i \in 1 .. Len(store') /\ store'[i] = store[i]
      OBVIOUS
    <3>3. QED
      BY <3>1, <3>2 DEF observedBar
  <2>3. QED
    BY <1>2, <2>1, <2>2
<1>3. QED
  BY <1>1, <1>2 DEF observedBar

LEMMA InitRefines == Init => SV!Init
BY DEF Init, SV!Init, observedBar, NoResp, SwapKey, NoReq


(* SwapValidation's actions, read on the mapped state. *)
LEMMA MappedActions ==
  ASSUME NEW r \in Requests
  PROVE  /\ SV!Fail(r) <=>
              /\ phaseBar[r] \in {"idle", "checking"}
              /\ phaseBar' = [phaseBar EXCEPT ![r] = "answered"]
              /\ keyBar' = [keyBar EXCEPT ![r] = SwapKey(NoReq)]
              /\ verdictBar' = [verdictBar EXCEPT ![r] = "failed"]
              /\ observedBar' = observedBar
         /\ SV!Start(r) <=>
              /\ phaseBar[r] = "idle"
              /\ phaseBar' = [phaseBar EXCEPT ![r] = "checking"]
              /\ \E k \in Ids \X Ids : keyBar' = [keyBar EXCEPT ![r] = k]
              /\ observedBar' = observedBar /\ verdictBar' = verdictBar
         /\ SV!Sign(r) <=>
              /\ phaseBar[r] = "checking"
              /\ keyBar[r] \in observedBar
              /\ phaseBar' = [phaseBar EXCEPT ![r] = "answered"]
              /\ verdictBar' = [verdictBar EXCEPT ![r] = keyBar[r]]
              /\ observedBar' = observedBar /\ keyBar' = keyBar
         /\ SV!Reset(r) <=>
              /\ phaseBar[r] = "answered"
              /\ phaseBar' = [phaseBar EXCEPT ![r] = "idle"]
              /\ keyBar' = [keyBar EXCEPT ![r] = SwapKey(NoReq)]
              /\ verdictBar' = [verdictBar EXCEPT ![r] = "none"]
              /\ observedBar' = observedBar
<1>1. SV!Fail(r) <=> /\ phaseBar[r] \in {"idle", "checking"}
                     /\ phaseBar' = [phaseBar EXCEPT ![r] = "answered"]
                     /\ keyBar' = [keyBar EXCEPT ![r] = SwapKey(NoReq)]
                     /\ verdictBar' = [verdictBar EXCEPT ![r] = "failed"]
                     /\ observedBar' = observedBar
  BY DEF SV!Fail, phaseBar, keyBar, verdictBar, observedBar
<1>2. SV!Start(r) <=> /\ phaseBar[r] = "idle"
                      /\ phaseBar' = [phaseBar EXCEPT ![r] = "checking"]
                      /\ \E k \in Ids \X Ids : keyBar' = [keyBar EXCEPT ![r] = k]
                      /\ observedBar' = observedBar /\ verdictBar' = verdictBar
  BY DEF SV!Start, phaseBar, keyBar, verdictBar, observedBar
<1>3. SV!Sign(r) <=> /\ phaseBar[r] = "checking"
                     /\ keyBar[r] \in observedBar
                     /\ phaseBar' = [phaseBar EXCEPT ![r] = "answered"]
                     /\ verdictBar' = [verdictBar EXCEPT ![r] = keyBar[r]]
                     /\ observedBar' = observedBar /\ keyBar' = keyBar
  BY DEF SV!Sign, phaseBar, keyBar, verdictBar, observedBar
<1>4. SV!Reset(r) <=> /\ phaseBar[r] = "answered"
                      /\ phaseBar' = [phaseBar EXCEPT ![r] = "idle"]
                      /\ keyBar' = [keyBar EXCEPT ![r] = SwapKey(NoReq)]
                      /\ verdictBar' = [verdictBar EXCEPT ![r] = "none"]
                      /\ observedBar' = observedBar
  BY DEF SV!Reset, phaseBar, keyBar, verdictBar, observedBar
<1>5. QED
  BY <1>1, <1>2, <1>3, <1>4

(* The abstract step relation and its variables, on the mapped state. *)
LEMMA MappedNext ==
  /\ SV!avars = <<observedBar, phaseBar, keyBar, verdictBar>>
  /\ SV!Next <=> \/ SV!Observe
                 \/ \E r \in Requests : SV!Start(r) \/ SV!Fail(r)
                                        \/ SV!Sign(r) \/ SV!Reset(r)
BY DEF SV!avars, SV!Next, observedBar, phaseBar, keyBar, verdictBar

(* Request r ends with an error answer: SwapValidation's Fail(r). *)
LEMMA FailRefines ==
  ASSUME IInv, NEW r \in Requests,
         NEW a \in {InvalidFormat, MissingFields, CheckFailed, SignFailed},
         NEW why, Finish(r, a, why), UNCHANGED store,
         pc[r] \in {"idle", "lookup", "sign"},
         \A q \in Requests \ {r} : req'[q] = req[q] /\ reply'[q] = reply[q]
  PROVE  SV!Fail(r)
<1>1. \A q \in Requests \ {r} : pc'[q] = pc[q] /\ resp'[q] = resp[q]
  BY DEF Finish, IInv, TypeOK
<1>2. /\ phaseBar' = [phaseBar EXCEPT ![r] = phaseBar'[r]]
      /\ keyBar' = [keyBar EXCEPT ![r] = keyBar'[r]]
      /\ verdictBar' = [verdictBar EXCEPT ![r] = verdictBar'[r]]
  BY <1>1, MapFrame
<1>3. pc'[r] = "done" /\ resp'[r] = a
  BY DEF Finish, IInv, TypeOK
<1>4. a.code \in {400, 500} /\ a # NoResp
  <2>1. CASE a = InvalidFormat
    BY <2>1 DEF InvalidFormat, NoResp
  <2>2. CASE a = MissingFields
    BY <2>2 DEF MissingFields, NoResp
  <2>3. CASE a = CheckFailed
    BY <2>3 DEF CheckFailed, NoResp
  <2>4. CASE a = SignFailed
    BY <2>4 DEF SignFailed, NoResp
  <2>5. QED
    BY <2>1, <2>2, <2>3, <2>4
<1>5. /\ phaseBar'[r] = "answered"
      /\ keyBar'[r] = SwapKey(NoReq)
      /\ verdictBar'[r] = "failed"
  BY <1>3, <1>4 DEF phaseBar, keyBar, verdictBar
<1>6. phaseBar[r] \in {"idle", "checking"}
  BY DEF phaseBar
<1>7. observedBar' = observedBar
  BY DEF observedBar
<1>8. QED
  BY <1>2, <1>5, <1>6, <1>7, MappedActions

(* Every step of the handler is a step of SwapValidation or leaves its     *)
(* state alone: the monitor recording an occurrence is Observe, Accept is  *)
(* Start, every error answer is Fail, a 200 answer is Sign, NextRequest is *)
(* Reset, and LookupFound stutters (it moves the request between two       *)
(* points of the same check and sets SwapStatus, which no key includes).   *)
LEMMA NextRefines == IInv /\ [Next]_vars => [SV!Next]_SV!avars
<1> SUFFICES ASSUME IInv, [Next]_vars PROVE [SV!Next]_SV!avars
  OBVIOUS
<1> USE MappedNext
<1>1. CASE Record
  <2>1. PICK o \in Occurrences : store' = Append(store, o)
    BY <1>1 DEF Record
  <2>2. observedBar' = observedBar \cup {<<o.uuid, o.corr>>}
    BY <2>1, ObservedAppend DEF IInv, TypeOK
  <2>3. <<o.uuid, o.corr>> \in Ids \X Ids
    BY DEF Occurrences
  <2>4. UNCHANGED <<phaseBar, keyBar, verdictBar>>
    BY <1>1 DEF Record, phaseBar, keyBar, verdictBar
  <2>5. SV!Observe
    BY <2>2, <2>3, <2>4 DEF SV!Observe, observedBar, phaseBar, keyBar, verdictBar
  <2>6. QED
    BY <2>5
<1>2. ASSUME NEW r \in Requests, RejectMalformed(r) PROVE SV!Fail(r)
  BY <1>2, FailRefines DEF RejectMalformed
<1>3. ASSUME NEW r \in Requests, RejectMissing(r) PROVE SV!Fail(r)
  <2>1. \A q \in Requests \ {r} : req'[q] = req[q] /\ reply'[q] = reply[q]
    BY <1>3 DEF RejectMissing, IInv, TypeOK
  <2>2. QED
    BY <1>3, <2>1, FailRefines DEF RejectMissing
<1>4. ASSUME NEW r \in Requests, Accept(r) PROVE SV!Start(r)
  <2>1. PICK b \in [id : Ids, tx : Ids, status : BOOLEAN] :
          req' = [req EXCEPT ![r] = b]
    BY <1>4 DEF Accept
  <2>2. \A q \in Requests \ {r} : /\ pc'[q] = pc[q] /\ req'[q] = req[q]
                                  /\ reply'[q] = reply[q] /\ resp'[q] = resp[q]
    BY <1>4, <2>1 DEF Accept, IInv, TypeOK
  <2>3. /\ phaseBar' = [phaseBar EXCEPT ![r] = phaseBar'[r]]
        /\ keyBar' = [keyBar EXCEPT ![r] = keyBar'[r]]
    BY <2>2, MapFrame
  <2>4. pc[r] = "idle" /\ pc'[r] = "lookup" /\ req'[r] = b
    BY <1>4, <2>1 DEF Accept, IInv, TypeOK
  <2>5. /\ phaseBar[r] = "idle" /\ phaseBar'[r] = "checking"
        /\ keyBar'[r] = SwapKey(b)
    BY <2>4 DEF phaseBar, keyBar
  <2>6. SwapKey(b) \in Ids \X Ids
    BY DEF SwapKey
  <2>7. observedBar' = observedBar /\ verdictBar' = verdictBar
    BY <1>4 DEF Accept, observedBar, verdictBar
  <2>8. QED
    BY <2>3, <2>5, <2>6, <2>7, MappedActions
<1>5. ASSUME NEW r \in Requests, LookupFound(r) PROVE UNCHANGED SV!avars
  <2>1. /\ pc[r] = "lookup" /\ pc'[r] = "sign"
        /\ req'[r] = [req[r] EXCEPT !.status = TRUE]
    BY <1>5 DEF LookupFound, IInv, TypeOK
  <2>2. \A q \in Requests \ {r} : /\ pc'[q] = pc[q] /\ req'[q] = req[q]
                                  /\ reply'[q] = reply[q] /\ resp'[q] = resp[q]
    BY <1>5 DEF LookupFound, IInv, TypeOK
  <2>3. /\ phaseBar' = [phaseBar EXCEPT ![r] = phaseBar'[r]]
        /\ keyBar' = [keyBar EXCEPT ![r] = keyBar'[r]]
    BY <2>2, MapFrame
  <2>4. SwapKey(req'[r]) = SwapKey(req[r])
    BY <2>1 DEF SwapKey, IInv, TypeOK, Decoded
  <2>5. phaseBar'[r] = phaseBar[r] /\ keyBar'[r] = keyBar[r]
    BY <2>1, <2>4 DEF phaseBar, keyBar
  <2>6. phaseBar' = phaseBar /\ keyBar' = keyBar
    BY <2>3, <2>5 DEF phaseBar, keyBar
  <2>7. observedBar' = observedBar /\ verdictBar' = verdictBar
    BY <1>5 DEF LookupFound, observedBar, verdictBar
  <2>8. QED
    BY <2>6, <2>7 DEF SV!avars, observedBar, phaseBar, keyBar, verdictBar
<1>6. ASSUME NEW r \in Requests, LookupNotFound(r) PROVE SV!Fail(r)
  BY <1>6, FailRefines DEF LookupNotFound
<1>7. ASSUME NEW r \in Requests, LookupError(r) PROVE SV!Fail(r)
  BY <1>7, FailRefines DEF LookupError
<1>8. ASSUME NEW r \in Requests, SignFails(r) PROVE SV!Fail(r)
  BY <1>8, FailRefines DEF SignFails
<1>9. ASSUME NEW r \in Requests, SignReply(r) PROVE SV!Fail(r) \/ SV!Sign(r)
  <2>1. PICK n \in SigLens, d \in {AcceptedDST, OtherDST} :
          LET sig == [msg |-> Marshal(req[r]), len |-> n, dst |-> d]
          IN  /\ reply' = [reply EXCEPT ![r] = sig]
              /\ \/ /\ d # AcceptedDST
                    /\ Finish(r, SignFailed, "DomainTagMismatch")
                 \/ /\ d = AcceptedDST
                    /\ n < MinSigLen
                    /\ Finish(r, SignFailed, "SigningError")
                 \/ /\ d = AcceptedDST
                    /\ n >= MinSigLen
                    /\ Finish(r, [code |-> 200, body |-> Hex(sig)], "none")
    BY <1>9 DEF SignReply
  <2> DEFINE sig == [msg |-> Marshal(req[r]), len |-> n, dst |-> d]
  <2>2. /\ pc[r] = "sign" /\ Observed(req[r])
    BY <1>9 DEF SignReply, IInv, ReqInv, TypeOK
  <2>3. UNCHANGED <<store, req>>
    BY <1>9 DEF SignReply
  <2>4. \A q \in Requests \ {r} : reply'[q] = reply[q]
    BY <2>1 DEF IInv, TypeOK
  <2>5. CASE d # AcceptedDST \/ n < MinSigLen
    <3>1. Finish(r, SignFailed, "DomainTagMismatch")
          \/ Finish(r, SignFailed, "SigningError")
      BY <2>1, <2>5
    <3>2. QED
      BY <2>2, <2>3, <2>4, <3>1, FailRefines
  <2>6. CASE d = AcceptedDST /\ n >= MinSigLen
    <3>1. Finish(r, [code |-> 200, body |-> Hex(sig)], "none")
      BY <2>1, <2>6
    <3>2. \A q \in Requests \ {r} : /\ pc'[q] = pc[q] /\ req'[q] = req[q]
                                    /\ reply'[q] = reply[q] /\ resp'[q] = resp[q]
      BY <2>3, <2>4, <3>1 DEF Finish, IInv, TypeOK
    <3>3. /\ phaseBar' = [phaseBar EXCEPT ![r] = phaseBar'[r]]
          /\ keyBar' = [keyBar EXCEPT ![r] = keyBar'[r]]
          /\ verdictBar' = [verdictBar EXCEPT ![r] = verdictBar'[r]]
      BY <3>2, MapFrame
    <3>4. /\ pc'[r] = "done" /\ reply'[r] = sig
          /\ resp'[r] = [code |-> 200, body |-> Hex(sig)]
      BY <2>1, <3>1 DEF Finish, IInv, TypeOK
    <3>5. /\ phaseBar[r] = "checking" /\ phaseBar'[r] = "answered"
          /\ keyBar[r] = SwapKey(req[r]) /\ keyBar'[r] = SwapKey(req[r])
      BY <2>2, <2>3, <3>4 DEF phaseBar, keyBar
    <3>6. verdictBar'[r] = SwapKey(req[r])
      BY <3>4 DEF verdictBar, Marshal, SwapKey
    <3>7. SwapKey(req[r]) \in observedBar
      <4>1. PICK i \in 1 .. Len(store) :
              store[i].uuid = req[r].id /\ store[i].corr = req[r].tx
        BY <2>2 DEF Observed, Matches
      <4>2. QED
        BY <4>1 DEF observedBar, SwapKey
    <3>8. keyBar' = keyBar
      BY <3>3, <3>5 DEF keyBar
    <3>9. observedBar' = observedBar
      BY <2>3 DEF observedBar
    <3>10. SV!Sign(r)
      BY <3>3, <3>5, <3>6, <3>7, <3>8, <3>9, MappedActions
    <3>11. QED
      BY <3>10
  <2>7. QED
    BY <2>5, <2>6
<1>10. ASSUME NEW r \in Requests, NextRequest(r) PROVE SV!Reset(r)
  <2>1. \A q \in Requests \ {r} : /\ pc'[q] = pc[q] /\ req'[q] = req[q]
                                  /\ reply'[q] = reply[q] /\ resp'[q] = resp[q]
    BY <1>10 DEF NextRequest, IInv, TypeOK
  <2>2. /\ phaseBar' = [phaseBar EXCEPT ![r] = phaseBar'[r]]
        /\ keyBar' = [keyBar EXCEPT ![r] = keyBar'[r]]
        /\ verdictBar' = [verdictBar EXCEPT ![r] = verdictBar'[r]]
    BY <2>1, MapFrame
  <2>3. /\ pc[r] = "done" /\ pc'[r] = "idle" /\ resp'[r] = NoResp
    BY <1>10 DEF NextRequest, IInv, TypeOK
  <2>4. /\ phaseBar[r] = "answered" /\ phaseBar'[r] = "idle"
        /\ keyBar'[r] = SwapKey(NoReq) /\ verdictBar'[r] = "none"
    BY <2>3 DEF phaseBar, keyBar, verdictBar, NoResp
  <2>5. observedBar' = observedBar
    BY <1>10 DEF NextRequest, observedBar
  <2>6. QED
    BY <2>2, <2>4, <2>5, MappedActions
<1>11. CASE UNCHANGED vars
  <2>1. UNCHANGED <<observedBar, phaseBar, keyBar, verdictBar>>
    BY <1>11 DEF vars, observedBar, phaseBar, keyBar, verdictBar
  <2>2. QED
    BY <2>1 DEF SV!avars, observedBar, phaseBar, keyBar, verdictBar
<1>12. QED
  BY <1>1, <1>2, <1>3, <1>4, <1>5, <1>6, <1>7, <1>8, <1>9, <1>10, <1>11
     DEF Next

(* For every number of concurrent requests, ids, store bound and set of   *)
(* signature lengths, HandleValidationRequest answers 200 only with the    *)
(* hex encoding of a signature dsigner made for this request's message,    *)
(* under dsignDST, at least MinSigLen bytes long, after the monitor had    *)
(* recorded a matching occurrence.                                         *)
THEOREM NoFabrication == Spec => []NoFabricatedSignature
<1>1. Init => IInv
  BY InitIInv
<1>2. IInv /\ [Next]_vars => IInv'
  BY NextIInv
<1>3. IInv => NoFabricatedSignature
  BY IInvNoFabrication
<1>4. QED
  BY <1>1, <1>2, <1>3, PTL DEF Spec

(* Type correctness of the validation handler: every reachable state has  *)
(* the types TypeOK gives, the store holding at most MaxStore occurrences. *)
THEOREM TypeCorrect == Spec => []TypeOK
<1>1. Init => IInv
  BY InitIInv
<1>2. IInv /\ [Next]_vars => IInv'
  BY NextIInv
<1>3. IInv => TypeOK
  BY DEF IInv
<1>4. QED
  BY <1>1, <1>2, <1>3, PTL DEF Spec

(* The handler implements SwapValidation for every number of concurrent   *)
(* requests, ids, store bound and set of signature lengths: under the      *)
(* mapping of ValidationHandler's SV instance, each request of             *)
(* HandleValidationRequest is taken up, answered once (with a failure or a *)
(* signature over its own swap id and transaction hash, and the latter     *)
(* only for a key the monitor had recorded) and then reset, while the      *)
(* monitor's record only grows.                                            *)
THEOREM RefinesSwapValidation == Spec => ImplementsSwapValidation
<1>1. Init => IInv /\ SV!Init
  BY InitIInv, InitRefines
<1>2. IInv /\ [Next]_vars => IInv' /\ [SV!Next]_SV!avars
  BY NextIInv, NextRefines
<1>3. QED
  BY <1>1, <1>2, PTL DEF Spec, ImplementsSwapValidation, SV!Spec

=============================================================================
