------------------------------- MODULE Backoff -------------------------------
(***************************************************************************)
(* The retry schedule of a session, from the environment to the waits:     *)
(* config_load's parsing of the WS_RETRY_* variables (config.c), which the *)
(* BoostWebSocketClient constructor copies into its retry_*_ fields, and   *)
(* BoostWebSocketClient::schedule_reconnect (boost_websocket_client.cpp)  *)
(* across consecutive failures: the give-up test on retry_count_, its      *)
(* increment, and the delay of each retry wait, computed in double by the  *)
(* loop initial * multiplier^(retry_count_ - 1), capped at the maximum and *)
(* truncated to whole milliseconds. VenueConnection keeps the control of   *)
(* schedule_reconnect and abstracts the delays; this module keeps them.    *)
(*                                                                         *)
(* A value of the environment is the sequence of its characters, or Unset *)
(* for a variable that is not set. A double is the rational [num, den]:    *)
(* the multipliers parsed here and their products are exact in binary.     *)
(***************************************************************************)
EXTENDS Naturals, Integers, Sequences

CONSTANTS
  Envs,    \* records [enabled, attempts, initial, maxd, mult] of WS_RETRY_* values
  Unset    \* the value of a variable that is not set

VARIABLES
  retry_env,   \* the WS_RETRY_* variables of the process environment
  params,      \* the session's retry_*_ fields, fixed at construction
  retry_count, \* retry_count_
  bstate,      \* connection_state_: "Connected" until the first failure
  delays       \* the delay of every retry wait armed so far, in order

bvars == <<retry_env, params, retry_count, bstate, delays>>

Numerals == <<"0", "1", "2", "3", "4", "5", "6", "7", "8", "9">>
Digit == [c \in {Numerals[k] : k \in 1 .. 10} |-> CHOOSE n \in 0 .. 9 : Numerals[n + 1] = c]

\* A rational in lowest terms, the way a double holds one value per number.
RECURSIVE Gcd(_, _)
Gcd(a, b) == IF b = 0 THEN a ELSE Gcd(b, a % b)
Rational(n, d) ==
  LET g == Gcd(IF n < 0 THEN -n ELSE n, d) IN [num |-> n \div g, den |-> d \div g]

\* The value and length of the run of decimal digits at the start of t.
RECURSIVE DigitRun(_, _, _)
DigitRun(t, v, n) ==
  IF n < Len(t) /\ t[n + 1] \in DOMAIN Digit
  THEN DigitRun(t, v * 10 + Digit[t[n + 1]], n + 1)
  ELSE [val |-> v, len |-> n]

\* The sign of an optional leading '+' or '-', and the text after it.
Sign(t) == IF t /= <<>> /\ t[1] = "-" THEN -1 ELSE 1
Unsigned(t) == IF t /= <<>> /\ t[1] \in {"+", "-"} THEN Tail(t) ELSE t

\* atoi: an optional sign and the leading digits; 0 when there are none.
Atoi(t) == Sign(t) * DigitRun(Unsigned(t), 0, 0).val

\* strtod without exponents: an optional sign, the integer digits, and
\* after a '.' the fraction digits; 0 when no digit leads.
Strtod(t) ==
  LET u == Unsigned(t)
      i == DigitRun(u, 0, 0)
      r == SubSeq(u, i.len + 2, Len(u))
      f == IF i.len < Len(u) /\ u[i.len + 1] = "." THEN DigitRun(r, 0, 0)
           ELSE [val |-> 0, len |-> 0]
  IN Rational(Sign(t) * (i.val * 10 ^ f.len + f.val), 10 ^ f.len)

\* strcasecmp(s, "true") == 0 || strcmp(s, "1") == 0.
IsTrue(t) ==
  \/ /\ Len(t) = 4
     /\ \A k \in 1 .. 4 : t[k] \in {<<"t", "r", "u", "e">>[k], <<"T", "R", "U", "E">>[k]}
  \/ t = <<"1">>

\* get_optional_env: the variable's value, or the default when unset.
GetOptionalEnv(v, default) == IF v = Unset THEN default ELSE v

\* The WS_RETRY_* block of config_load, with its defaults.
ConfigLoadRetry(e) ==
  [enabled  |-> IsTrue(GetOptionalEnv(e.enabled, <<"t", "r", "u", "e">>)),
   attempts |-> Atoi(GetOptionalEnv(e.attempts, <<"1", "0">>)),
   initial  |-> Atoi(GetOptionalEnv(e.initial, <<"1", "0", "0", "0">>)),
   maxd     |-> Atoi(GetOptionalEnv(e.maxd, <<"3", "0", "0", "0", "0">>)),
   mult     |-> Strtod(GetOptionalEnv(e.mult, <<"2", ".", "0">>))]

\* The delay loop of schedule_reconnect for a retry_count_ of rc: the
\* initial delay multiplied once for each i in 1 .. rc - 1, as a rational.
RECURSIVE Grow(_, _, _, _)
Grow(d, i, rc, m) ==
  IF i < rc THEN Grow([num |-> d.num * m.num, den |-> d.den * m.den], i + 1, rc, m)
  ELSE d

\* The capped delay, then the (long) cast for expires_after.
RetryDelay(rc, p) ==
  LET d == Grow([num |-> p.initial, den |-> 1], 1, rc, p.mult)
  IN IF d.num > p.maxd * d.den THEN p.maxd ELSE d.num \div d.den

\* The constructor copies app_config's retry fields; no failure yet.
Init ==
  /\ retry_env \in Envs
  /\ params = ConfigLoadRetry(retry_env)
  /\ retry_count = 0
  /\ bstate = "Connected"
  /\ delays = <<>>

\* Variant of ScheduleReconnect that computes the delay before the
\* increment of retry_count_.
ScheduleReconnectEarly ==
  /\ params.enabled
  /\ bstate /= "Disconnected"
  /\ IF retry_count >= params.attempts
     THEN /\ bstate' = "Disconnected"
          /\ UNCHANGED <<retry_count, delays>>
     ELSE /\ bstate' = "WaitingRetry"
          /\ retry_count' = retry_count + 1
          /\ delays' = Append(delays, RetryDelay(retry_count, params))
  /\ UNCHANGED <<retry_env, params>>

\* One more failure. The first reaches schedule_reconnect only with
\* retry_enabled_ (connect, the read and the send lambdas test it), the
\* later ones through the chain it starts. It gives up once retry_count_
\* has reached the maximum; otherwise it counts the attempt and arms the
\* wait with the delay for the new count. No attempt succeeds in between,
\* so nothing resets retry_count_.
ScheduleReconnect ==
  /\ params.enabled
  /\ bstate /= "Disconnected"
  /\ IF retry_count >= params.attempts
     THEN /\ bstate' = "Disconnected"
          /\ UNCHANGED <<retry_count, delays>>
     ELSE /\ bstate' = "WaitingRetry"
          /\ retry_count' = retry_count + 1
          /\ delays' = Append(delays, RetryDelay(retry_count + 1, params))
  /\ UNCHANGED <<retry_env, params>>

-----------------------------------------------------------------------------
(* The spec's schedule (sections 4.5, 6 and test vector 3 of section 8)    *)

\* b^e, with b^0 = 1 also for b = 0.
RECURSIVE Power(_, _)
Power(b, e) == IF e = 0 THEN 1 ELSE b * Power(b, e - 1)

\* delay_ms = min(initial * multiplier^(attempt - 1), max_delay_ms), in
\* whole milliseconds.
SpecDelay(k, p) ==
  LET num == p.initial * Power(p.mult.num, k - 1)
      den == Power(p.mult.den, k - 1)
  IN IF num > p.maxd * den THEN p.maxd ELSE num \div den

\* An environment that sets none of the retry variables (spec 6: the
\* reference parameters are the defaults), and the delays spec 8 lists.
UnsetEnv == [enabled |-> Unset, attempts |-> Unset, initial |-> Unset,
             maxd |-> Unset, mult |-> Unset]
ReferenceDelays ==
  <<1000, 2000, 4000, 8000, 16000, 30000, 30000, 30000, 30000, 30000>>

=============================================================================
