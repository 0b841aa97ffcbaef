----------------------------- MODULE DeviceLogin -----------------------------
(***************************************************************************)
(* The login by device code: StartDeviceAuthorization, once more with a    *)
(* new registration if the old one is refused, the page where the user     *)
(* types the code, and PollDeviceCodeToken, which asks until the service   *)
(* has an answer.  Nothing but that answer ends it: there is no timeout,   *)
(* and each slow_down lengthens the interval for good.                     *)
(*                                                                         *)
(* The unit of time is the five seconds of RETRY_INTERVAL and of           *)
(* SLOW_DOWN_SEC.                                                          *)
(***************************************************************************)
EXTENDS Naturals

CONSTANTS
  Lifetime,    \* ExpiresIn: how long a device code is good for
  Intervals    \* what the service may give as Interval; 0 for none

ASSUME DeviceAssumption == Lifetime \in Nat \ {0} /\ Intervals \subseteq Nat

VARIABLES
  dev,       \* how far reauthenticateDeviceCode is
  interval,  \* retryInterval
  slept,     \* how long this sleep has lasted
  demanded,  \* the service: the least time between two polls
  since,     \* the service: the time since the last poll, up to what it demands
  age        \* the service: how old the device code is

deviceVars == <<dev, interval, slept, demanded, since, age>>

RetryInterval == 1
SlowDown == 1

DeviceEnded == {"token", "error"}

DeviceInit ==
  /\ dev = "idle"
  /\ interval = RetryInterval
  /\ slept = 0
  /\ demanded = RetryInterval
  /\ since = RetryInterval
  /\ age = 0

-----------------------------------------------------------------------------
StartDevice ==
  /\ dev = "idle"
  /\ dev' = "authorize"
  /\ UNCHANGED <<interval, slept, demanded, since, age>>

(* createToken takes the service's interval if there is one; without one   *)
(* the service expects five seconds as well.                               *)
Authorized ==
  /\ dev \in {"authorize", "again"}
  /\ \E given \in Intervals :
       /\ interval' = IF given > 0 THEN given ELSE RetryInterval
       /\ demanded' = IF given > 0 THEN given ELSE RetryInterval
  /\ since' = demanded'
  /\ dev' = "open"
  /\ age' = 0
  /\ UNCHANGED slept

(* registerClient(force), which may fail too; only then a second attempt.  *)
AuthorizationFails ==
  /\ dev \in {"authorize", "again"}
  /\ dev' \in IF dev = "authorize" THEN {"again", "error"} ELSE {"error"}
  /\ UNCHANGED <<interval, slept, demanded, since, age>>

(* opens: does HandleUrl.Open succeed?  Without a VerificationUri it is    *)
(* not asked.                                                              *)
OpenPage(opens) ==
  /\ dev = "open"
  /\ \/ opens /\ dev' = "poll"
     \/ dev' = "error"
  /\ UNCHANGED <<interval, slept, demanded, since, age>>

-----------------------------------------------------------------------------
(* PollDeviceCodeToken and the service                                     *)

Poll ==
  /\ dev = "poll"
  /\ since' = 0
  /\ dev' = "polling"
  /\ UNCHANGED <<interval, slept, demanded, age>>

(* The user has confirmed the code.                                        *)
GetToken ==
  /\ dev = "polling"
  /\ age < Lifetime
  /\ dev' = "token"
  /\ UNCHANGED <<interval, slept, demanded, since, age>>

(* Denied, expired, or no answer.                                          *)
PollFails ==
  /\ dev = "polling"
  /\ dev' = "error"
  /\ UNCHANGED <<interval, slept, demanded, since, age>>

Pending ==
  /\ dev = "polling"
  /\ age < Lifetime
  /\ dev' = "sleep"
  /\ slept' = 0
  /\ UNCHANGED <<interval, demanded, since, age>>

SlowedDownOnce ==
  /\ dev = "polling"
  /\ age < Lifetime
  /\ demanded' = demanded + SlowDown
  /\ dev' = "sleep"
  /\ slept' = 0
  /\ UNCHANGED <<interval, since, age>>

(* From now on every two polls are to be that much further apart.          *)
SlowedDown ==
  /\ dev = "polling"
  /\ age < Lifetime
  /\ demanded' = demanded + SlowDown
  /\ interval' = interval + SlowDown
  /\ dev' = "sleep"
  /\ slept' = 0
  /\ UNCHANGED <<since, age>>

Wake ==
  /\ dev = "sleep"
  /\ slept >= interval
  /\ dev' = "poll"
  /\ UNCHANGED <<interval, slept, demanded, since, age>>

(* A timer may be late, but not early.                                     *)
Tick ==
  /\ dev \in {"open", "poll", "polling", "sleep"}
  /\ age' = IF age < Lifetime THEN age + 1 ELSE age
  /\ since' = IF since < demanded THEN since + 1 ELSE since
  /\ slept' = IF dev = "sleep" /\ slept < interval THEN slept + 1 ELSE slept
  /\ UNCHANGED <<dev, interval, demanded>>

Answered == GetToken \/ PollFails \/ Pending \/ SlowedDown

DeviceStep == Authorized \/ AuthorizationFails \/ Poll \/ Answered \/ Wake

DeviceNext == StartDevice \/ DeviceStep \/ Tick \/ \E opens \in BOOLEAN : OpenPage(opens)

DeviceSpec == DeviceInit /\ [][DeviceNext]_deviceVars

-----------------------------------------------------------------------------
DeviceTypeOK ==
  /\ dev \in {"idle", "authorize", "again", "open", "poll", "polling", "sleep"} \cup DeviceEnded
  /\ interval \in Nat \ {0}
  /\ demanded \in Nat \ {0}
  /\ slept \in Nat
  /\ since \in Nat
  /\ age \in 0..Lifetime

(***************************************************************************)
(* No poll comes sooner after the one before than the service demands,     *)
(* its interval and all the slow_downs so far together: or it would answer *)
(* slow_down for ever.                                                     *)
(***************************************************************************)
PollsApart == dev = "poll" => since >= demanded
=============================================================================
