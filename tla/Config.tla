------------------------------- MODULE Config -------------------------------
(***************************************************************************)
(* config.LoadFromEnv and validateURL: the process environment turned into *)
(* the Config every component is built from.                               *)
(*                                                                         *)
(* A URL string is abstracted to what url.Parse makes of it: Unparsable,   *)
(* or its scheme, host and path, the path kept as a sequence of characters *)
(* so that strings.TrimSuffix(.., "/") can be modelled by what it does.    *)
(* time.Duration is a signed integer of DurationBits bits, counting        *)
(* 1/NanosPerSecond seconds; the instance shrinks both so that             *)
(* strconv.Atoi values around the overflow edge stay small.                *)
(***************************************************************************)
EXTENDS Integers, Sequences

CONSTANTS
  Unset,          \* os.Getenv of a variable that is not set ("")
  NotNumber,      \* a value strconv.Atoi rejects
  Unparsable,     \* a URL string url.Parse rejects
  Hosts,          \* host[:port] parts a URL may carry ("" included)
  Paths,          \* paths a URL may carry, as character sequences
  PortValues,     \* values of PORT
  SecondValues,   \* integer values of the *_TIMEOUT_SECONDS variables
  DurationBits,   \* width of time.Duration (64)
  NanosPerSecond  \* time.Second (10^9)

(* The instances give DurationBits and NanosPerSecond positive values,    *)
(* SecondValues a set of integers, Hosts the empty host among others, and  *)
(* Paths sequences over {"/", "v", "1"}.                                   *)

Schemes == {"http", "https", "ftp"}

(* What url.Parse returns for a URL string. *)
ParsedURLs == [scheme : Schemes, host : Hosts, path : Paths]

(* The values os.Getenv can return for each variable LoadFromEnv reads. *)
Envs == [port : PortValues \cup {Unset},
         monitor : ParsedURLs \cup {Unparsable, Unset},
         dsigner : ParsedURLs \cup {Unparsable, Unset},
         monitorTimeout : SecondValues \cup {NotNumber, Unset},
         dsignerTimeout : SecondValues \cup {NotNumber, Unset}]

(* The defaults written in LoadFromEnv, as url.Parse reads them. *)
DefaultPort == "8060"
DefaultMonitor == [scheme |-> "http", host |-> "localhost:8080", path |-> <<>>]
DefaultDsigner == [scheme |-> "http", host |-> "localhost:8082", path |-> <<>>]

getEnvWithDefault(v, default) == IF v = Unset THEN default ELSE v

(* strings.TrimSuffix(s, "/"): one trailing slash removed. A URL string    *)
(* with a host ends in its path, so only the path can lose a slash.        *)
TrimSlash(p) == IF p # <<>> /\ p[Len(p)] = "/" THEN SubSeq(p, 1, Len(p) - 1) ELSE p

(* validateURL: the error, or parsedURL.String() without a trailing '/'. *)
URLError(u) ==
  IF u = Unparsable THEN TRUE
  ELSE u.scheme \notin {"http", "https"} \/ u.host = ""

Normalize(u) == [u EXCEPT !.path = TrimSlash(@)]

(* time.Duration(parsed) * time.Second in two's complement of the width. *)
WrapDuration(x) ==
  LET m == x % (2 ^ DurationBits)
  IN  IF m >= 2 ^ (DurationBits - 1) THEN m - 2 ^ DurationBits ELSE m

(* The timeout block: the default unless the variable parses as an int. *)
Timeout(v, defaultSeconds) ==
  IF v \in SecondValues THEN WrapDuration(v * NanosPerSecond)
  ELSE defaultSeconds * NanosPerSecond

NoConfig == [port |-> Unset, monitor |-> Unset, dsigner |-> Unset,
             monitorTimeout |-> 0, dsignerTimeout |-> 0]

VARIABLES
  pc,    \* "start", then "done" once LoadFromEnv returned
  env,   \* the environment it read
  cfg,   \* the *Config it returned (NoConfig for nil)
  err    \* the variable whose validation failed, or "none"

vars == <<pc, env, cfg, err>>

TypeOK ==
  /\ pc \in {"start", "done"}
  /\ env \in Envs \cup {NoConfig}
  /\ err \in {"none", "CHAIN_MONITOR_URL", "DSIGNER_HOST"}

Init ==
  /\ pc = "start"
  /\ env = NoConfig
  /\ cfg = NoConfig
  /\ err = "none"

(* LoadFromEnv: defaults, the two validations in order (the first failure *)
(* returns nil and its error), then the two timeouts and the Config.       *)
LoadFromEnv ==
  /\ pc = "start"
  /\ pc' = "done"
  /\ \E e \in Envs :
       LET monitor == getEnvWithDefault(e.monitor, DefaultMonitor)
           dsigner == getEnvWithDefault(e.dsigner, DefaultDsigner)
       IN  /\ env' = e
           /\ \/ /\ URLError(monitor)
                 /\ err' = "CHAIN_MONITOR_URL"
                 /\ cfg' = NoConfig
              \/ /\ ~URLError(monitor)
                 /\ URLError(dsigner)
                 /\ err' = "DSIGNER_HOST"
                 /\ cfg' = NoConfig
              \/ /\ ~URLError(monitor)
                 /\ ~URLError(dsigner)
                 /\ err' = "none"
                 /\ cfg' = [port |-> getEnvWithDefault(e.port, DefaultPort),
                            monitor |-> Normalize(monitor),
                            dsigner |-> Normalize(dsigner),
                            monitorTimeout |-> Timeout(e.monitorTimeout, 10),
                            dsignerTimeout |-> Timeout(e.dsignerTimeout, 15)]

Next == LoadFromEnv

Spec == Init /\ [][Next]_vars

---------------------------------------------------------------------------
(* Properties.                                                             *)

(* Spec 5: outbound calls are bounded by a configured timeout: the dsigner *)
(* timeout LoadFromEnv hands to http.Client is positive (a zero or         *)
(* negative http.Client.Timeout means no timeout at all).                  *)
TimeoutsBounded ==
  (pc = "done" /\ err = "none") => cfg.dsignerTimeout > 0

=============================================================================
