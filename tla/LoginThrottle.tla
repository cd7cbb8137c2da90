---------------------------- MODULE LoginThrottle ----------------------------
(***************************************************************************)
(* The login throttle of HttpServer (src/src/http_server.rs): one counter  *)
(* of attempts and the instant of the first one, shared by every client of *)
(* the web interface and by the handlers for login and password change.    *)
(***************************************************************************)
EXTENDS Integers, Sequences, FiniteSets

CONSTANTS
    Limit,      \* attempts allowed before the lock (5)
    HalfLock,   \* an attempt this early restarts the lock (30 s)
    LockTime    \* duration of the lock (60 s)

ASSUME ThrottleAssumption ==
    /\ Limit \in Nat \ {0}
    /\ HalfLock \in Nat
    /\ LockTime \in Nat \ {0}
    /\ HalfLock <= LockTime

VARIABLES
    count,      \* login_attempts.0, saturating at Limit + 1
    elapsed,    \* now - login_attempts.1, saturating at LockTime
    window      \* history: ages of the unsuccessful attempts let through
                \* during the last LockTime, in the order they came

throttle == <<count, elapsed, window>>

ThrottleTypeOK ==
    /\ count \in 0 .. Limit + 1
    /\ elapsed \in 0 .. LockTime
    /\ window \in Seq(0 .. LockTime - 1)

ThrottleInit ==
    /\ count = 0
    /\ elapsed = 0
    /\ window = <<>>

\* Mutant: the first attempt of a series does not set the instant.
CountedAttemptOldInstant ==
    [count   |-> IF count > Limit THEN count ELSE count + 1,
     elapsed |-> elapsed]

\* The first attempt of a series starts the clock; then it is counted.
CountedAttempt ==
    [count   |-> IF count > Limit THEN count ELSE count + 1,
     elapsed |-> IF count = 0 THEN 0 ELSE elapsed]

\* login_attempts_check returns true.
LoginAttemptAllowed ==
    LET a == CountedAttempt
    IN  /\ \/ /\ a.count <= Limit
              /\ count' = a.count
              /\ elapsed' = a.elapsed
           \/ /\ a.count > Limit /\ a.elapsed >= LockTime
              /\ count' = 0
              /\ elapsed' = 0
        /\ window' = Append(window, 0)

\* login_attempts_check returns false; an early attempt restarts the lock.
LoginAttemptDenied ==
    LET a == CountedAttempt
    IN  /\ a.count > Limit
        /\ a.elapsed < LockTime
        /\ count' = a.count
        /\ elapsed' = IF a.elapsed < HalfLock THEN 0 ELSE a.elapsed
        /\ UNCHANGED window

\* login_attempts_reset, after a success.
LoginAttemptsReset ==
    /\ count' = 0
    /\ elapsed' = 0
    /\ window' = <<>>

\* Time passes.  The window has the oldest attempts first: the first ones
\* leave it once their LockTime is over.
ThrottleTick ==
    LET old == Cardinality({i \in DOMAIN window : window[i] = LockTime - 1})
    IN  /\ elapsed' = IF elapsed < LockTime THEN elapsed + 1 ELSE elapsed
        /\ window' = [i \in 1 .. Len(window) - old |-> window[i + old] + 1]
        /\ UNCHANGED count

ThrottleNext ==
    \/ LoginAttemptAllowed
    \/ LoginAttemptDenied
    \/ LoginAttemptsReset
    \/ ThrottleTick

ThrottleSpec == ThrottleInit /\ [][ThrottleNext]_throttle

-----------------------------------------------------------------------------
\* However attempts are spread over time, at most two series of attempts get
\* through during any LockTime without a success: the end of one, and the one
\* that the expiry of the lock starts.
GuessesBounded == Len(window) <= 2 * Limit
=============================================================================
