------------------------- MODULE ValidationHandler -------------------------
(***************************************************************************)
(* POST /v1/swap/validation: ValidationHandler.HandleValidationRequest,    *)
(* with the calls it makes: ValidateSwap, which asks the chain monitor for *)
(* a historical occurrence (ChainMonitorClient.GetHistoricalEvent), and    *)
(* DsignerClient.Sign, which asks dsigner for a threshold signature.       *)
(*                                                                         *)
(* Requests are served concurrently; each one is a process. The chain      *)
(* monitor's store of recorded occurrences is shared and grows while       *)
(* requests are in flight. The rejection of non-POST methods (lines 67-72) *)
(* is not modelled: the route "POST /v1/swap/validation" makes the mux     *)
(* answer 405 itself, so that branch never runs.                           *)
(***************************************************************************)
EXTENDS Naturals, Sequences

CONSTANTS
  Requests,     \* concurrent HTTP requests
  Ids,          \* non-empty byte strings a caller may send or the monitor record
  Empty,        \* the empty byte string (a missing JSON field decodes to it)
  Malformed,    \* a body json.Decode rejects
  MaxStore,     \* bound on the occurrences the monitor records
  AcceptedDST,  \* the package variable dsignDST
  OtherDST,     \* any other DST string dsigner might declare
  SigLens,      \* lengths of the signature bytes dsigner might return
  MinSigLen     \* the length check of HandleValidationRequest (32)

ASSUME MaxStoreAssumption == MaxStore \in Nat
ASSUME SigLensAssumption == SigLens \subseteq Nat /\ MinSigLen \in Nat
ASSUME DistinctAssumption ==
  /\ Empty \notin Ids /\ Malformed \notin Ids \cup {Empty}
  /\ AcceptedDST # OtherDST

(* A decoded ValidationRequest: SwapID, SwapTxHash and SwapStatus. *)
Decoded == [id : Ids \cup {Empty}, tx : Ids \cup {Empty}, status : BOOLEAN]

(* What json.Decode can produce for a body: a request with each field      *)
(* present or missing, or an error.                                        *)
Bodies == Decoded \cup {Malformed}

(* A recorded BridgeReceipt occurrence: its event UUID and the bytes of    *)
(* data field 1, which the historical query filters on.                    *)
Occurrences == [uuid : Ids, corr : Ids]

(* ValidationRequest.MarshalJSON: {"m": "$swap_tx_hash:<hex tx>; swap_id:  *)
(* <hex id>$"}. Hex digits contain no ';' or '$', so the string determines *)
(* (tx, id); it is kept as that tuple. SwapStatus is not part of it.       *)
MarshalJSON(rq) == <<"m", "swap_tx_hash", rq.tx, "swap_id", rq.id>>

(* json.Marshal(request) in DsignerClient.Sign. request is a value, not    *)
(* addressable, and MarshalJSON has a pointer receiver, so encoding/json   *)
(* does not call it: the body is the struct's default encoding, its three  *)
(* tagged fields in declaration order.                                     *)
Marshal(rq) ==
  <<"swap_tx_hash", rq.tx, "swap_id", rq.id, "swap_status", rq.status>>

(* A signer reply decoded into DsignerResponse. *)
Replies == [msg : {Marshal(rq) : rq \in [id : Ids, tx : Ids, status : BOOLEAN]},
            len : SigLens, dst : {AcceptedDST, OtherDST}]

(* hex.EncodeToString: two characters per byte, of the same bytes. *)
Hex(sig) == [of |-> sig.msg, chars |-> 2 * sig.len]

(* The HTTP answers the handler writes: status code and error text (or the *)
(* encoded signature).                                                     *)
NoResp == [code |-> 0, body |-> "none"]
InvalidFormat == [code |-> 400, body |-> "Invalid request format"]
MissingFields == [code |-> 400, body |-> "Missing one or more required fields"]
CheckFailed == [code |-> 500, body |-> "Failed to check swap status"]
SignFailed == [code |-> 500, body |-> "Failed to get dsigner sig"]

(* The failure categories of spec section 7, and "none" for a success.    *)
Causes == {"none", "InvalidRequest", "MissingFields", "NotFound",
           "LookupError", "SigningError", "DomainTagMismatch"}

VARIABLES
  store,    \* the monitor's recorded occurrences, in its response order
  pc,       \* control point of each request
  req,      \* the decoded ValidationRequest
  reply,    \* dsigner's decoded reply, or NoReply
  resp,     \* the answer written to the caller
  cause     \* why the request ended as it did (a history variable)

vars == <<store, pc, req, reply, resp, cause>>

NoReq == [id |-> Empty, tx |-> Empty, status |-> FALSE]
NoReply == [msg |-> <<>>, len |-> 0, dst |-> OtherDST]

TypeOK ==
  /\ store \in Seq(Occurrences) /\ Len(store) <= MaxStore
  /\ pc \in [Requests -> {"idle", "lookup", "sign", "done"}]
  /\ req \in [Requests -> Decoded]
  /\ reply \in [Requests -> Replies \cup {NoReply}]
  /\ resp \in [Requests -> {NoResp, InvalidFormat, MissingFields, CheckFailed,
                            SignFailed} \cup [code : {200}, body : {Hex(s) : s \in Replies}]]
  /\ cause \in [Requests -> Causes]

Init ==
  /\ store = <<>>
  /\ pc = [r \in Requests |-> "idle"]
  /\ req = [r \in Requests |-> NoReq]
  /\ reply = [r \in Requests |-> NoReply]
  /\ resp = [r \in Requests |-> NoResp]
  /\ cause = [r \in Requests |-> "none"]

(* Request r ends with answer a, for the reason why. *)
Finish(r, a, why) ==
  /\ pc' = [pc EXCEPT ![r] = "done"]
  /\ resp' = [resp EXCEPT ![r] = a]
  /\ cause' = [cause EXCEPT ![r] = why]

---------------------------------------------------------------------------
(* The chain monitor records a BridgeReceipt it has observed.              *)
Record ==
  /\ Len(store) < MaxStore
  /\ \E o \in Occurrences : store' = Append(store, o)
  /\ UNCHANGED <<pc, req, reply, resp, cause>>

---------------------------------------------------------------------------
(* HandleValidationRequest up to the call of ValidateSwap.                 *)

(* json.Decode fails: 400 "Invalid request format". *)
RejectMalformed(r) ==
  /\ pc[r] = "idle"
  /\ Finish(r, InvalidFormat, "InvalidRequest")
  /\ UNCHANGED <<store, req, reply>>

(* len(req.SwapID) == 0 || len(req.SwapTxHash) == 0: 400. *)
RejectMissing(r) ==
  /\ pc[r] = "idle"
  /\ \E b \in Bodies \ {Malformed} :
       /\ b.id = Empty \/ b.tx = Empty
       /\ req' = [req EXCEPT ![r] = b]
  /\ Finish(r, MissingFields, "MissingFields")
  /\ UNCHANGED <<store, reply>>

(* A well-formed request: ValidateSwap(ctx, req.SwapID, req.SwapTxHash)   *)
(* sends GetHistoricalEvents to the monitor.                               *)
Accept(r) ==
  /\ pc[r] = "idle"
  /\ \E b \in [id : Ids, tx : Ids, status : BOOLEAN] :
       req' = [req EXCEPT ![r] = b]
  /\ pc' = [pc EXCEPT ![r] = "lookup"]
  /\ UNCHANGED <<store, reply, resp, cause>>

---------------------------------------------------------------------------
(* GetHistoricalEvent(ctx, EventUuid = SwapID, requestId = SwapTxHash):    *)
(* the query selects the occurrences of event UUID SwapID whose data field *)
(* 1 equals SwapTxHash.                                                    *)

Matches(rq) == {i \in 1 .. Len(store) :
                  store[i].uuid = rq.id /\ store[i].corr = rq.tx}

(* Variant: GetHistoricalEvent returns no error on an empty result, so     *)
(* ValidateSwap returns true without an occurrence.                        *)
LookupFoundUnchecked(r) ==
  /\ pc[r] = "lookup"
  /\ pc' = [pc EXCEPT ![r] = "sign"]
  /\ req' = [req EXCEPT ![r].status = TRUE]
  /\ UNCHANGED <<store, reply, resp, cause>>

(* At least one match: Occurrences[0] is returned, ValidateSwap only logs  *)
(* a chain id other than 1337 and returns true, req.SwapStatus is set to   *)
(* true and Sign is called.                                                *)
LookupFound(r) ==
  /\ pc[r] = "lookup"
  /\ Matches(req[r]) # {}
  /\ pc' = [pc EXCEPT ![r] = "sign"]
  /\ req' = [req EXCEPT ![r].status = TRUE]
  /\ UNCHANGED <<store, reply, resp, cause>>

(* No match: "no historical events found", answered 500. *)
LookupNotFound(r) ==
  /\ pc[r] = "lookup"
  /\ Matches(req[r]) = {}
  /\ Finish(r, CheckFailed, "NotFound")
  /\ UNCHANGED <<store, req, reply>>

(* The gRPC call fails (transport, cancelled request context): 500. *)
LookupError(r) ==
  /\ pc[r] = "lookup"
  /\ Finish(r, CheckFailed, "LookupError")
  /\ UNCHANGED <<store, req, reply>>

---------------------------------------------------------------------------
(* DsignerClient.Sign and the checks HandleValidationRequest applies to    *)
(* its result.                                                             *)

(* client.Do fails or times out, the status is not 200, or the body does   *)
(* not decode: Sign returns an error and the answer is 500.                *)
SignFails(r) ==
  /\ pc[r] = "sign"
  /\ Finish(r, SignFailed, "SigningError")
  /\ UNCHANGED <<store, req, reply>>

(* Variant: the signature is answered without its length checked. *)
SignReplyNoLenCheck(r) ==
  /\ pc[r] = "sign"
  /\ \E n \in SigLens, d \in {AcceptedDST, OtherDST} :
       LET sig == [msg |-> Marshal(req[r]), len |-> n, dst |-> d]
       IN  /\ reply' = [reply EXCEPT ![r] = sig]
           /\ \/ /\ d # AcceptedDST
                 /\ Finish(r, SignFailed, "DomainTagMismatch")
              \/ /\ d = AcceptedDST
                 /\ Finish(r, [code |-> 200, body |-> Hex(sig)], "none")
  /\ UNCHANGED <<store, req>>

(* Variant: the raw signature bytes are written instead of their hex form. *)
SignReplyRaw(r) ==
  /\ pc[r] = "sign"
  /\ \E n \in SigLens, d \in {AcceptedDST, OtherDST} :
       LET sig == [msg |-> Marshal(req[r]), len |-> n, dst |-> d]
       IN  /\ reply' = [reply EXCEPT ![r] = sig]
           /\ \/ /\ d # AcceptedDST
                 /\ Finish(r, SignFailed, "DomainTagMismatch")
              \/ /\ d = AcceptedDST
                 /\ n < MinSigLen
                 /\ Finish(r, SignFailed, "SigningError")
              \/ /\ d = AcceptedDST
                 /\ n >= MinSigLen
                 /\ Finish(r, [code |-> 200, body |-> sig], "none")
  /\ UNCHANGED <<store, req>>

(* dsigner answers 200 with a signature of some length under some DST.     *)
(* A DST other than dsignDST makes Sign return ErrInvalidDST; a signature  *)
(* shorter than 32 bytes is refused by the handler; otherwise the answer   *)
(* is 200 with the hex-encoded signature.                                  *)
SignReply(r) ==
  /\ pc[r] = "sign"
  /\ \E n \in SigLens, d \in {AcceptedDST, OtherDST} :
       LET sig == [msg |-> Marshal(req[r]), len |-> n, dst |-> d]
       IN  /\ reply' = [reply EXCEPT ![r] = sig]
           /\ \/ /\ d # AcceptedDST
                 /\ Finish(r, SignFailed, "DomainTagMismatch")
              \/ /\ d = AcceptedDST
                 /\ n < MinSigLen
                 /\ Finish(r, SignFailed, "SigningError")
              \/ /\ d = AcceptedDST
                 /\ n >= MinSigLen
                 /\ Finish(r, [code |-> 200, body |-> Hex(sig)], "none")
  /\ UNCHANGED <<store, req>>

(* The answer is written; the connection's next request is served afresh. *)
NextRequest(r) ==
  /\ pc[r] = "done"
  /\ pc' = [pc EXCEPT ![r] = "idle"]
  /\ req' = [req EXCEPT ![r] = NoReq]
  /\ reply' = [reply EXCEPT ![r] = NoReply]
  /\ resp' = [resp EXCEPT ![r] = NoResp]
  /\ cause' = [cause EXCEPT ![r] = "none"]
  /\ UNCHANGED store

Next ==
  \/ Record
  \/ \E r \in Requests :
       \/ RejectMalformed(r) \/ RejectMissing(r) \/ Accept(r)
       \/ LookupFound(r) \/ LookupNotFound(r) \/ LookupError(r)
       \/ SignFails(r) \/ SignReply(r)
       \/ NextRequest(r)

Spec == Init /\ [][Next]_vars

---------------------------------------------------------------------------
(* Properties.                                                             *)

(* The monitor has recorded an occurrence the handler's query selects. *)
Observed(rq) == Matches(rq) # {}

(* Spec 4.5 and 7, never fabricate a signature: a 200 answer carries the   *)
(* hex encoding of a signature dsigner returned for exactly this request's *)
(* message, under the accepted DST and at least MinSigLen bytes long, and  *)
(* only after the monitor had recorded a matching occurrence.              *)
NoFabricatedSignature ==
  \A r \in Requests :
    resp[r].code = 200 =>
      /\ reply[r].msg = Marshal(req[r])
      /\ reply[r].dst = AcceptedDST
      /\ reply[r].len >= MinSigLen
      /\ resp[r].body = Hex(reply[r])
      /\ Observed(req[r])

(* Spec 4.5 step 1: the occurrence that validates a swap is the            *)
(* BridgeReceipt whose event type is keyed by SwapTxHash and whose         *)
(* correlation field is SwapID.                                            *)
SpecKeyedLookup ==
  \A r \in Requests :
    resp[r].code = 200 =>
      \E i \in 1 .. Len(store) :
        store[i].uuid = req[r].tx /\ store[i].corr = req[r].id

(* Spec 7: requests that failed for different categories get different     *)
(* answers, so that "swap not yet observed" is told from "signer down".    *)
DistinctFailureSignals ==
  \A r1, r2 \in Requests :
    (pc[r1] = "done" /\ pc[r2] = "done" /\ cause[r1] # cause[r2])
      => resp[r1] # resp[r2]

(* Spec 3 and 6: dsigner is asked to sign the canonical SignaturePayload,  *)
(* {"m": "$swap_tx_hash:<hex>; swap_id:<hex>$"}, the wire contract that   *)
(* ValidationRequest.MarshalJSON implements.                               *)
CanonicalPayload ==
  \A r \in Requests : reply[r] # NoReply => reply[r].msg = MarshalJSON(req[r])

---------------------------------------------------------------------------
(* The handler implements SwapValidation. The monitor has observed the     *)
(* keys of its recorded occurrences; a request is checking while its      *)
(* handler waits on the monitor or on dsigner, and is checked for its      *)
(* (SwapID, SwapTxHash); a 200 answer is a signature over the swap id and  *)
(* transaction hash that dsigner's signed payload carries.                 *)
SwapKey(rq) == <<rq.id, rq.tx>>

SV == INSTANCE SwapValidation WITH
  Keys <- Ids \X Ids,
  NoKey <- SwapKey(NoReq),
  observed <- {<<store[i].uuid, store[i].corr>> : i \in 1 .. Len(store)},
  phase <- [r \in Requests |->
              IF pc[r] = "idle" THEN "idle"
              ELSE IF pc[r] = "done" THEN "answered" ELSE "checking"],
  key <- [r \in Requests |->
            IF pc[r] \in {"lookup", "sign"} \/ resp[r].code = 200
            THEN SwapKey(req[r]) ELSE SwapKey(NoReq)],
  verdict <- [r \in Requests |->
                IF resp[r].code = 200 THEN <<reply[r].msg[4], reply[r].msg[2]>>
                ELSE IF resp[r] = NoResp THEN "none" ELSE "failed"]

(* Spec 4.5 and 7 as a whole: every step of HandleValidationRequest, of    *)
(* the monitor and of dsigner is a step of SwapValidation or leaves its    *)
(* state alone, so each request is answered once per cycle, with a         *)
(* classified failure or with a signature over its own key that the        *)
(* monitor had observed.                                                   *)
ImplementsSwapValidation == SV!Spec

=============================================================================
