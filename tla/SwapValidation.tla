--------------------------- MODULE SwapValidation ---------------------------
(***************************************************************************)
(* What the ValidationOrchestrator promises a caller (spec 4.5, 7): a      *)
(* request is checked against the occurrences the monitor has observed and *)
(* answered once, either with a classified failure or with a signature     *)
(* over its own swap key, and with a signature only when that key has been *)
(* observed. The decoding, the lookup, the signer and its checks are not   *)
(* visible at this level.                                                  *)
(***************************************************************************)
CONSTANTS
  Requests,   \* concurrent validation requests
  Keys,       \* swap keys (swap id, swap transaction hash)
  NoKey       \* no key: the request is not being checked

VARIABLES
  observed,   \* the keys of the occurrences the monitor has observed
  phase,      \* per request: "idle", "checking" or "answered"
  key,        \* per request, the key it is being checked for
  verdict     \* per request: "none", "failed", or the key a signature covers

avars == <<observed, phase, key, verdict>>

Init ==
  /\ observed = {}
  /\ phase = [r \in Requests |-> "idle"]
  /\ key = [r \in Requests |-> NoKey]
  /\ verdict = [r \in Requests |-> "none"]

(* The monitor observes an occurrence; it never forgets one. *)
Observe ==
  /\ \E k \in Keys : observed' = observed \cup {k}
  /\ UNCHANGED <<phase, key, verdict>>

(* A well-formed request for key k is taken up. *)
Start(r) ==
  /\ phase[r] = "idle"
  /\ phase' = [phase EXCEPT ![r] = "checking"]
  /\ \E k \in Keys : key' = [key EXCEPT ![r] = k]
  /\ UNCHANGED <<observed, verdict>>

(* The request is answered with a classified failure, before or during     *)
(* its check.                                                              *)
Fail(r) ==
  /\ phase[r] \in {"idle", "checking"}
  /\ phase' = [phase EXCEPT ![r] = "answered"]
  /\ key' = [key EXCEPT ![r] = NoKey]
  /\ verdict' = [verdict EXCEPT ![r] = "failed"]
  /\ UNCHANGED observed

(* The request is answered with a signature over its key, which the        *)
(* monitor has observed.                                                   *)
Sign(r) ==
  /\ phase[r] = "checking"
  /\ key[r] \in observed
  /\ phase' = [phase EXCEPT ![r] = "answered"]
  /\ verdict' = [verdict EXCEPT ![r] = key[r]]
  /\ UNCHANGED <<observed, key>>

(* The caller has the answer; the request slot serves a new request. *)
Reset(r) ==
  /\ phase[r] = "answered"
  /\ phase' = [phase EXCEPT ![r] = "idle"]
  /\ key' = [key EXCEPT ![r] = NoKey]
  /\ verdict' = [verdict EXCEPT ![r] = "none"]
  /\ UNCHANGED observed

Next ==
  \/ Observe
  \/ \E r \in Requests : Start(r) \/ Fail(r) \/ Sign(r) \/ Reset(r)

Spec == Init /\ [][Next]_avars

=============================================================================
