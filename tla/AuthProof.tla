------------------------------ MODULE AuthProof ------------------------------
(***************************************************************************)
(* Theorems about the login throttle and about Auth: for any handlers,     *)
(* passwords and secrets, any limit and any duration of the lock.          *)
(***************************************************************************)
EXTENDS Auth, FiniteSetTheorems, SequenceTheorems, TLAPS

-----------------------------------------------------------------------------
(* The login throttle                                                      *)

\* The attempts of the series that the counter counts.
Series == IF count > Limit THEN Limit ELSE count

\* Before a series at most Limit attempts are in the window.  A series adds at
\* most Limit; all but those after its first attempt are at least as old as
\* the lock, so that they have left the window when the lock expires.
WindowBound ==
    /\ \A i, j \in DOMAIN window : i <= j => window[i] >= window[j]
    /\ count = 0 => Len(window) <= Limit
    /\ count > 0 => /\ Len(window) <= Limit + Series
                    /\ \A i \in 1 .. Len(window) - Series + 1 : window[i] >= elapsed

ThrottleInv == ThrottleTypeOK /\ WindowBound

\* The attempts that a tick takes from the window are the first ones.
LEMMA OldestLeave ==
    ASSUME ThrottleInv,
           NEW old, old = Cardinality({i \in DOMAIN window : window[i] = LockTime - 1})
    PROVE  /\ old \in 0 .. Len(window)
           /\ \A i \in old + 1 .. Len(window) : window[i] < LockTime - 1
<1> DEFINE O == {i \in DOMAIN window : window[i] = LockTime - 1}
<1>1. /\ Len(window) \in Nat /\ DOMAIN window = 1 .. Len(window)
      /\ \A i \in 1 .. Len(window) : window[i] \in 0 .. LockTime - 1
    BY ThrottleAssumption DEF ThrottleInv, ThrottleTypeOK
<1>2. IsFiniteSet(1 .. Len(window)) /\ Cardinality(1 .. Len(window)) = Len(window)
    BY <1>1, FS_Interval
<1>3. O \in SUBSET (1 .. Len(window))
    BY <1>1
<1>4. IsFiniteSet(O) /\ old \in Nat /\ old <= Len(window)
    BY <1>2, <1>3, FS_Subset, FS_CardinalityType
<1>5. ASSUME NEW i \in old + 1 .. Len(window)
      PROVE  window[i] < LockTime - 1
  <2> SUFFICES ASSUME window[i] = LockTime - 1 PROVE FALSE
      BY <1>1, <1>4, ThrottleAssumption
  <2>1. i \in Nat /\ i > old /\ i \in 1 .. Len(window)
      BY <1>1, <1>4
  <2>2. \A k \in 1 .. i : k \in O
    <3> SUFFICES ASSUME NEW k \in 1 .. i PROVE window[k] = LockTime - 1
        BY <1>1, <2>1
    <3>1. window[k] >= window[i]
        BY <1>1, <2>1 DEF ThrottleInv, WindowBound
    <3>2. window[k] \in 0 .. LockTime - 1
        BY <1>1, <2>1
    <3>3. QED
        BY <3>1, <3>2, ThrottleAssumption
  <2>3. 1 .. i \in SUBSET O
      BY <2>2
  <2>4. Cardinality(1 .. i) <= old
      BY <1>4, <2>3, FS_Subset
  <2>5. Cardinality(1 .. i) = i
      BY <2>1, FS_Interval
  <2>6. QED
      BY <1>4, <2>1, <2>4, <2>5
<1>6. QED
    BY <1>4, <1>5

\* Every step of the throttle keeps the bound.
LEMMA ThrottleStep == ThrottleInv /\ [ThrottleNext]_throttle => ThrottleInv'
<1> SUFFICES ASSUME ThrottleInv, [ThrottleNext]_throttle
             PROVE  ThrottleInv'
    OBVIOUS
<1> USE ThrottleAssumption
<1>a. /\ count \in 0 .. Limit + 1 /\ elapsed \in 0 .. LockTime
      /\ window \in Seq(0 .. LockTime - 1)
      /\ Len(window) \in Nat /\ DOMAIN window = 1 .. Len(window)
      /\ \A i \in 1 .. Len(window) : window[i] \in 0 .. LockTime - 1
    BY DEF ThrottleInv, ThrottleTypeOK
<1>1. CASE LoginAttemptAllowed
  <2> DEFINE W == Append(window, 0)
  <2>1. /\ window' = W /\ W \in Seq(0 .. LockTime - 1)
        /\ Len(W) = Len(window) + 1 /\ DOMAIN W = 1 .. Len(window) + 1
        /\ \A i \in 1 .. Len(window) : W[i] = window[i]
        /\ W[Len(window) + 1] = 0
      BY <1>1, <1>a DEF LoginAttemptAllowed
  <2> HIDE DEF W
  <2>2. ASSUME NEW i \in DOMAIN W, NEW j \in DOMAIN W, i <= j
        PROVE  W[i] >= W[j]
    <3>1. CASE j <= Len(window)
      <4>1. i \in DOMAIN window /\ j \in DOMAIN window
          BY <1>a, <2>1, <2>2, <3>1
      <4>2. window[i] >= window[j]
          BY <2>2, <4>1 DEF ThrottleInv, WindowBound
      <4>3. QED
          BY <1>a, <2>1, <4>1, <4>2
    <3>2. CASE j = Len(window) + 1
      <4>1. W[i] \in Nat
          BY <1>a, <2>1
      <4>2. QED
          BY <2>1, <3>2, <4>1
    <3>3. QED
        BY <1>a, <2>1, <3>1, <3>2
  <2>3. CASE count + 1 <= Limit
    <3>1. count' = count + 1 /\ elapsed' = IF count = 0 THEN 0 ELSE elapsed
        BY <1>1, <1>a, <2>3 DEF LoginAttemptAllowed, CountedAttempt
    <3>2. ThrottleTypeOK'
        BY <1>a, <2>1, <2>3, <3>1 DEF ThrottleTypeOK
    <3>3. Len(W) <= Limit + count + 1
        BY <1>a, <2>1, <2>3 DEF ThrottleInv, WindowBound, Series
    <3>4. \A i \in 1 .. Len(W) - count : W[i] >= elapsed'
      <4>1. CASE count = 0
          BY <1>a, <2>1, <3>1, <4>1
      <4>2. CASE count > 0
        <5> SUFFICES ASSUME NEW i \in 1 .. Len(W) - count PROVE W[i] >= elapsed'
            OBVIOUS
        <5>1. Series = count /\ i \in 1 .. Len(window) - Series + 1
            BY <1>a, <2>1, <2>3 DEF Series
        <5>2. window[i] >= elapsed
            BY <4>2, <5>1 DEF ThrottleInv, WindowBound
        <5>3. i \in 1 .. Len(window)
            BY <1>a, <4>2, <5>1
        <5>4. QED
            BY <2>1, <3>1, <4>2, <5>2, <5>3
      <4>3. QED
          BY <1>a, <4>1, <4>2
    <3>5. QED
        BY <1>a, <2>1, <2>2, <2>3, <3>1, <3>2, <3>3, <3>4
        DEF ThrottleInv, WindowBound, Series
  <2>4. CASE count + 1 > Limit
    <3>1. elapsed = LockTime /\ count > 0 /\ count' = 0 /\ elapsed' = 0
        BY <1>1, <1>a, <2>4 DEF LoginAttemptAllowed, CountedAttempt
    <3>2. Len(window) <= Limit - 1
        BY <1>a, <2>4, <3>1 DEF ThrottleInv, WindowBound, Series
    <3>3. QED
        BY <1>a, <2>1, <2>2, <3>1, <3>2 DEF ThrottleInv, WindowBound, ThrottleTypeOK
  <2>5. QED
      BY <1>a, <2>3, <2>4
<1>2. CASE LoginAttemptDenied
  <2>1. /\ count >= Limit /\ count' = Limit + 1 /\ count > 0
        /\ elapsed' \in {0, elapsed} /\ window' = window
      BY <1>2, <1>a DEF LoginAttemptDenied, CountedAttempt
  <2>2. Series = Limit /\ Series' = Limit
      BY <1>a, <2>1 DEF Series
  <2>3. \A i \in 1 .. Len(window) - Limit + 1 : window[i] >= elapsed'
      BY <1>a, <2>1, <2>2 DEF ThrottleInv, WindowBound
  <2>4. QED
      BY <1>a, <2>1, <2>2, <2>3 DEF ThrottleInv, WindowBound, ThrottleTypeOK
<1>3. CASE LoginAttemptsReset
    BY <1>3 DEF LoginAttemptsReset, ThrottleInv, ThrottleTypeOK, WindowBound
<1>4. CASE ThrottleTick
  <2> DEFINE old == Cardinality({i \in DOMAIN window : window[i] = LockTime - 1})
             L == Len(window) - old
             W == [i \in 1 .. L |-> window[i + old] + 1]
  <2>1. /\ old \in 0 .. Len(window)
        /\ \A i \in old + 1 .. Len(window) : window[i] < LockTime - 1
      BY OldestLeave
  <2>2. /\ window' = W /\ count' = count
        /\ elapsed' = IF elapsed < LockTime THEN elapsed + 1 ELSE elapsed
      BY <1>4 DEF ThrottleTick
  <2> HIDE DEF old
  <2>3. L \in Nat /\ \A i \in 1 .. L : window[i + old] + 1 \in 0 .. LockTime - 1
      BY <1>a, <2>1
  <2>4. /\ W \in Seq(0 .. LockTime - 1) /\ Len(W) = L /\ DOMAIN W = 1 .. L
        /\ \A i \in 1 .. L : W[i] = window[i + old] + 1
      BY <2>3
  <2> HIDE DEF W
  <2>5. ASSUME NEW i \in DOMAIN W, NEW j \in DOMAIN W, i <= j
        PROVE  W[i] >= W[j]
    <3>0. i \in 1 .. L /\ j \in 1 .. L
        BY <2>4
    <3>1. i + old \in DOMAIN window /\ j + old \in DOMAIN window
        BY <1>a, <2>1, <3>0
    <3>2. i + old <= j + old
        BY <2>1, <2>5, <3>0
    <3>3. window[i + old] >= window[j + old]
        BY <3>1, <3>2 DEF ThrottleInv, WindowBound
    <3>4. /\ W[i] = window[i + old] + 1 /\ W[j] = window[j + old] + 1
          /\ window[i + old] \in Nat /\ window[j + old] \in Nat
        BY <1>a, <2>4, <3>0, <3>1
    <3> HIDE DEF L
    <3>5. QED
        BY <3>3, <3>4
  <2>6. Series' = Series /\ Series \in Nat /\ (count > 0 => Series > 0)
      BY <1>a, <2>2 DEF Series
  <2>7. ASSUME count > 0, NEW i \in 1 .. L - Series + 1
        PROVE  W[i] >= elapsed'
    <3>1. i \in 1 .. L /\ i + old \in 1 .. Len(window) - Series + 1
        BY <1>a, <2>1, <2>6, <2>7
    <3>2. window[i + old] >= elapsed
        BY <2>7, <3>1 DEF ThrottleInv, WindowBound
    <3>3. i + old \in 1 .. Len(window) /\ W[i] = window[i + old] + 1
        BY <1>a, <2>1, <2>4, <3>1
    <3>4. window[i + old] \in Nat
        BY <1>a, <3>3
    <3>5. QED
        BY <1>a, <2>2, <3>2, <3>3, <3>4
  <2>8. QED
      BY <1>a, <2>1, <2>2, <2>4, <2>5, <2>6, <2>7
      DEF ThrottleInv, WindowBound, ThrottleTypeOK
<1>5. CASE UNCHANGED throttle
    BY <1>5 DEF throttle, ThrottleInv, ThrottleTypeOK, WindowBound, Series
<1>6. QED
    BY <1>1, <1>2, <1>3, <1>4, <1>5 DEF ThrottleNext

-----------------------------------------------------------------------------
(* Auth uses the throttle                                                  *)

\* Handlers, starts and the passing of time change the throttle only by its
\* own operations.
LEMMA AuthUsesThrottle == [AuthNext]_vars => [ThrottleNext]_throttle
<1> SUFFICES ASSUME [AuthNext]_vars
             PROVE  [ThrottleNext]_throttle
    OBVIOUS
<1> USE DEF ThrottleNext
<1>1. CASE Start \/ Exit \/ Tick \/ \E t \in tokens : TokenExpires(t) \/ SetSettings(t)
    BY <1>1 DEF Start, Exit, Tick, TokenExpires, SetSettings
<1>2. ASSUME NEW h \in Handlers, LoginStep(h)
      PROVE  [ThrottleNext]_throttle
    BY <1>2 DEF LoginStep, LoginSnapshot, LoginCheck, AttemptsCheck, LoginVerify
<1>3. ASSUME NEW h \in Handlers, RefreshStep(h)
      PROVE  [ThrottleNext]_throttle
    BY <1>3 DEF RefreshStep, RefreshAuth, Refresh
<1>4. ASSUME NEW h \in Handlers, ChangeStep(h)
      PROVE  [ThrottleNext]_throttle
    BY <1>4 DEF ChangeStep, ChangeAuth, ChangeCheck, AttemptsCheck, ChangeVerify,
                ChangeSavePassword, ChangeSaveSecret, ChangeReply
<1>5. CASE UNCHANGED vars
    BY <1>5 DEF vars
<1>6. QED
    BY <1>1, <1>2, <1>3, <1>4, <1>5 DEF AuthNext

\* The invariant of the throttle holds with all handlers that use it.
THEOREM ThrottleCorrect == AuthSpec => []ThrottleInv
<1>1. AuthInit => ThrottleInv
    BY ThrottleAssumption
    DEF AuthInit, ThrottleInit, ThrottleInv, ThrottleTypeOK, WindowBound
<1>2. QED
    BY <1>1, ThrottleStep, AuthUsesThrottle, PTL DEF AuthSpec

\* login_attempts_check: however logins and changes of the password are spread
\* over time and over restarts, at most two series of attempts get through
\* during one duration of the lock, for any limit and duration.
THEOREM GuessesCorrect == AuthSpec => []GuessesBounded
<1>1. ThrottleInv => GuessesBounded
    BY ThrottleAssumption
    DEF ThrottleInv, ThrottleTypeOK, WindowBound, Series, GuessesBounded
<1>2. QED
    BY <1>1, ThrottleCorrect, PTL

-----------------------------------------------------------------------------
(* Secrets and passwords                                                   *)

\* The steps of a handler that works with credentials read earlier, those of a
\* change of the password, and those of them that hold the mutex of conf.
Reading  == {"login_check", "login_verify", "refresh"}
Locking  == {"change_password", "change_secret", "change_reply"}

Changing == {"change_check", "change_verify"} \cup Locking

\* The token that a handler will sign, or has been shown.
Snapshot(h) == [secret |-> handler[h].conf.secret, epoch |-> handler[h].epoch]

\* Credentials read before the last acknowledged change are signed with a
\* secret that is neither in use nor stored.
Outdated(c) ==
    /\ c.secret < next_secret
    /\ c.epoch <= acked
    /\ c.epoch < acked => c.secret # db.secret /\ (up => c.secret # conf.secret)

\* What a handler relies on at each of its steps.
HandlerInv(h) ==
    /\ handler[h].pc \in Changing => handler[h].new \in Passwords
    /\ handler[h].pc \in Reading =>
          handler[h].conf.secret \in Secrets /\ Outdated(Snapshot(h))
    /\ handler[h].pc \in Locking =>
          /\ lock = {h}
          /\ conf.password = handler[h].new
          /\ handler[h].new \in in_force
    /\ handler[h].pc \in {"change_secret", "change_reply"} =>
          db.password = handler[h].new
    /\ handler[h].pc = "change_reply" =>
          /\ conf.secret = db.secret
          /\ \A t \in tokens : t.secret # db.secret
          /\ \A g \in Handlers :
                handler[g].pc \in Reading => handler[g].conf.secret # db.secret

\* While the plugin is down there is no request, and its start finds a secret.
DownInv ==
    /\ lock = {}
    /\ LoadedSecret <= MaxSecrets
    /\ \A h \in Handlers : handler[h].pc = "idle"

StoreInv ==
    /\ conf.secret < next_secret
    /\ db.secret < next_secret
    /\ acked > 0 => db.secret # NoSecret
    /\ PasswordDurable

AuthInv ==
    /\ AuthTypeOK
    /\ ~up => DownInv
    /\ StoreInv
    /\ \A t \in tokens : Outdated(t)
    /\ \A h \in Handlers : HandlerInv(h)

\* The state of a handler in every step of another one.
LEMMA OneHandler ==
    ASSUME NEW h \in Handlers, NEW r \in HandlerState,
           handler \in [Handlers -> HandlerState],
           handler' = [handler EXCEPT ![h] = r]
    PROVE  /\ handler' \in [Handlers -> HandlerState]
           /\ handler'[h] = r
           /\ \A g \in Handlers : g # h => handler'[g] = handler[g]
    OBVIOUS

\* Steps that only move one handler, to a state that satisfies its invariant,
\* and may hand out the token that the handler has prepared.
LEMMA HandlerOnly ==
    ASSUME AuthInv, ThrottleTypeOK', up,
           UNCHANGED <<up, conf, file_secret, db, next_secret, ghost>>,
           NEW h \in Handlers, NEW r \in HandlerState,
           handler' = [handler EXCEPT ![h] = r],
           lock' \in {lock, lock \ {h}},
           \/ tokens' = tokens
           \/ tokens' = tokens \cup {Snapshot(h)} /\ handler[h].pc \in Reading,
           r.pc \notin Locking,
           r.pc \in Changing => r.new \in Passwords,
           r.pc \in Reading =>
              /\ r.conf.secret \in Secrets
              /\ Outdated([secret |-> r.conf.secret, epoch |-> r.epoch])
              /\ \/ lock = {}
                 \/ handler[h].pc \in Reading /\ r.conf = handler[h].conf
    PROVE  AuthInv'
<1> USE DEF ghost
<1>1. handler \in [Handlers -> HandlerState] /\ handler[h] \in HandlerState
    BY DEF AuthInv, AuthTypeOK
<1>2. /\ handler' \in [Handlers -> HandlerState]
      /\ handler'[h] = r
      /\ \A g \in Handlers : g # h => handler'[g] = handler[g]
    BY <1>1, OneHandler
<1>3. \A t \in tokens' : t \in Token /\ Outdated(t)
  <2>1. handler[h].pc \in Reading => Snapshot(h) \in Token /\ Outdated(Snapshot(h))
      BY <1>1 DEF AuthInv, HandlerInv, Snapshot, Token, HandlerState
  <2>2. QED
      BY <2>1 DEF AuthInv, AuthTypeOK
<1>4. AuthTypeOK'
    BY <1>2, <1>3 DEF AuthInv, AuthTypeOK
<1>5. StoreInv'
    BY DEF AuthInv, StoreInv, PasswordDurable, StoredPassword
<1>6. \A t \in tokens' : Outdated(t)'
    BY <1>3 DEF Outdated
<1>7. HandlerInv(h)'
  <2>1. r.pc \in Reading => Outdated(Snapshot(h))'
      BY <1>2 DEF Outdated, Snapshot
  <2>2. QED
      BY <1>2, <2>1 DEF HandlerInv, Locking
<1>8. ASSUME NEW g \in Handlers, g # h
      PROVE  HandlerInv(g)'
  <2>1. handler'[g] = handler[g] /\ HandlerInv(g)
      BY <1>2, <1>8 DEF AuthInv
  <2>2. handler[g].pc \in Reading => Outdated(Snapshot(g))'
      BY <2>1 DEF HandlerInv, Outdated, Snapshot
  <2>3. handler[g].pc \in Locking => lock' = {g}
      BY <1>8, <2>1 DEF HandlerInv
  <2>4. ASSUME handler[g].pc = "change_reply"
        PROVE  \A t \in tokens' : t.secret # db.secret
      BY <2>1, <2>4 DEF HandlerInv, Snapshot
  <2>5. ASSUME handler[g].pc = "change_reply", NEW k \in Handlers,
               handler'[k].pc \in Reading
        PROVE  handler'[k].conf.secret # db.secret
    <3>1. lock = {g}
        BY <2>1, <2>5 DEF HandlerInv, Locking
    <3>2. k = h => handler[h].pc \in Reading /\ r.conf = handler[h].conf
        BY <1>2, <2>5, <3>1
    <3>3. QED
        BY <1>2, <2>1, <2>5, <3>2 DEF HandlerInv
  <2>6. QED
      BY <2>1, <2>2, <2>3, <2>4, <2>5 DEF HandlerInv
<1>9. QED
    BY <1>4, <1>5, <1>6, <1>7, <1>8 DEF AuthInv

\* Logins and refreshes.
LEMMA LoginKeeps ==
    ASSUME AuthInv, ThrottleTypeOK', NEW h \in Handlers, LoginStep(h) \/ RefreshStep(h)
    PROVE  AuthInv'
<1>a. /\ up \in BOOLEAN /\ handler \in [Handlers -> HandlerState] /\ handler[h] \in HandlerState
      /\ conf \in Credentials /\ tokens \in SUBSET Token /\ acked \in Nat
      /\ HandlerInv(h) /\ \A t \in tokens : Outdated(t)
    BY DEF AuthInv, AuthTypeOK
<1>i. Idle \in HandlerState /\ Idle.pc = "idle"
    BY DEF Idle, HandlerState, HandlerPcs, PasswordOrNone, Credentials, Nothing, SecretOrNone
<1>1. ASSUME NEW p \in Passwords, LoginSnapshot(h, p)
      PROVE  AuthInv'
  <2> DEFINE r == [pc |-> "login_check", given |-> p, new |-> NoPassword,
                   conf |-> conf, epoch |-> acked]
  <2>1. up /\ lock = {} /\ handler' = [handler EXCEPT ![h] = r]
      BY <1>1 DEF LoginSnapshot, At, Unlocked
  <2>2. r \in HandlerState
      BY <1>a DEF HandlerState, HandlerPcs, PasswordOrNone
  <2>3. conf.secret \in Secrets /\ Outdated([secret |-> conf.secret, epoch |-> acked])
      BY <1>a, <2>1 DEF AuthInv, AuthTypeOK, StoreInv, Outdated
  <2>4. QED
      BY <1>1, <2>1, <2>2, <2>3, HandlerOnly
      DEF LoginSnapshot, store, Locking, Changing, Reading
<1>2. CASE LoginCheck(h)
  <2>1. up /\ handler[h].pc = "login_check"
      BY <1>2 DEF LoginCheck, AttemptsCheck, At
  <2>2. CASE Goto(h, "login_verify")
    <3> DEFINE r == [handler[h] EXCEPT !.pc = "login_verify"]
    <3>1. handler' = [handler EXCEPT ![h] = r]
        BY <2>2 DEF Goto
    <3>2. r \in HandlerState /\ r.pc = "login_verify" /\ r.conf = handler[h].conf /\ r.epoch = handler[h].epoch
        BY <1>a DEF HandlerState, HandlerPcs
    <3>3. r.conf.secret \in Secrets /\ Outdated([secret |-> r.conf.secret, epoch |-> r.epoch])
        BY <1>a, <2>1, <3>2 DEF HandlerInv, Snapshot, Reading
    <3> HIDE DEF r
    <3>4. QED
        BY <1>2, <2>1, <3>1, <3>2, <3>3, HandlerOnly
        DEF LoginCheck, AttemptsCheck, store, Locking, Changing, Reading
  <2>3. CASE handler' = [handler EXCEPT ![h] = Idle]
      BY <1>2, <1>i, <2>1, <2>3, HandlerOnly
      DEF LoginCheck, AttemptsCheck, store, Locking, Changing, Reading
  <2>4. QED
      BY <1>2, <2>2, <2>3 DEF LoginCheck, AttemptsCheck
<1>3. ASSUME NEW t \in tokens, RefreshAuth(h, t)
      PROVE  AuthInv'
  <2> DEFINE r == [pc |-> "refresh", given |-> NoPassword, new |-> NoPassword,
                   conf |-> [password |-> NoPassword, secret |-> t.secret],
                   epoch |-> t.epoch]
  <2>1. up /\ lock = {} /\ handler' = [handler EXCEPT ![h] = r]
      BY <1>3 DEF RefreshAuth, At, Unlocked, TokenValid
  <2>2. r \in HandlerState /\ t.secret \in Secrets
      BY <1>a DEF HandlerState, HandlerPcs, PasswordOrNone, Token, Credentials, SecretOrNone
  <2>3. Outdated([secret |-> t.secret, epoch |-> t.epoch])
      BY <1>a DEF Outdated
  <2>4. QED
      BY <1>3, <2>1, <2>2, <2>3, HandlerOnly
      DEF RefreshAuth, store, Locking, Changing, Reading
<1>4. CASE LoginVerify(h) \/ Refresh(h)
  <2>1. /\ up /\ handler[h].pc \in Reading
        /\ UNCHANGED <<up, conf, file_secret, db, next_secret, ghost>>
        /\ handler' = [handler EXCEPT ![h] = Idle] /\ lock' = lock \ {h}
      BY <1>4 DEF LoginVerify, Refresh, Return, At, Reading
  <2>2. tokens' \in {tokens, tokens \cup {Snapshot(h)}}
      BY <1>4 DEF LoginVerify, Refresh, Snapshot, TokenValid
  <2>3. QED
      BY <1>i, <2>1, <2>2, HandlerOnly DEF Locking, Changing, Reading
<1>5. QED
    BY <1>1, <1>2, <1>3, <1>4 DEF LoginStep, RefreshStep

\* The steps of a change before it takes the mutex, and every failed change.
LEMMA ChangeStartKeeps ==
    ASSUME AuthInv, ThrottleTypeOK', NEW h \in Handlers,
           \/ \E t \in tokens, p \in Passwords, q \in Passwords : ChangeAuth(h, t, p, q)
           \/ ChangeCheck(h)
           \/ ChangeVerify(h)
    PROVE  AuthInv'
<1>a. /\ handler \in [Handlers -> HandlerState] /\ handler[h] \in HandlerState
      /\ conf \in Credentials /\ lock \in SUBSET Handlers
      /\ HandlerInv(h) /\ StoreInv /\ in_force \in SUBSET Passwords
    BY DEF AuthInv, AuthTypeOK
<1>i. Idle \in HandlerState /\ Idle.pc = "idle"
    BY DEF Idle, HandlerState, HandlerPcs, PasswordOrNone, Credentials, Nothing, SecretOrNone
<1>1. ASSUME NEW t \in tokens, NEW p \in Passwords, NEW q \in Passwords,
             ChangeAuth(h, t, p, q)
      PROVE  AuthInv'
  <2> DEFINE r == [pc |-> "change_check", given |-> p, new |-> q,
                   conf |-> Nothing, epoch |-> 0]
  <2>1. up /\ handler' = [handler EXCEPT ![h] = r]
      BY <1>1 DEF ChangeAuth, At
  <2>2. r \in HandlerState
      BY DEF HandlerState, HandlerPcs, PasswordOrNone, Credentials, Nothing, SecretOrNone
  <2>3. QED
      BY <1>1, <2>1, <2>2, HandlerOnly
      DEF ChangeAuth, store, Locking, Changing, Reading
<1>2. CASE ChangeCheck(h)
  <2>1. up /\ handler[h].pc = "change_check" /\ handler[h].new \in Passwords
      BY <1>2, <1>a DEF ChangeCheck, AttemptsCheck, At, HandlerInv, Changing
  <2>2. CASE Goto(h, "change_verify")
    <3> DEFINE r == [handler[h] EXCEPT !.pc = "change_verify"]
    <3>1. handler' = [handler EXCEPT ![h] = r]
        BY <2>2 DEF Goto
    <3>2. r \in HandlerState /\ r.pc = "change_verify" /\ r.new = handler[h].new
        BY <1>a DEF HandlerState, HandlerPcs
    <3> HIDE DEF r
    <3>3. QED
        BY <1>2, <2>1, <3>1, <3>2, HandlerOnly
        DEF ChangeCheck, AttemptsCheck, store, Locking, Changing, Reading
  <2>3. CASE handler' = [handler EXCEPT ![h] = Idle]
      BY <1>2, <1>i, <2>1, <2>3, HandlerOnly
      DEF ChangeCheck, AttemptsCheck, store, Locking, Changing, Reading
  <2>4. QED
      BY <1>2, <2>2, <2>3 DEF ChangeCheck, AttemptsCheck
<1>3. CASE ChangeVerify(h)
  <2>1. /\ up /\ lock = {} /\ handler[h].pc = "change_verify" /\ handler[h].new \in Passwords
        /\ UNCHANGED <<up, file_secret, db, next_secret, tokens, acked, throttle>>
      BY <1>3, <1>a DEF ChangeVerify, At, Unlocked, HandlerInv, Changing
  <2>2. CASE Return(h) /\ UNCHANGED <<conf, in_force>>
      BY <1>i, <2>1, <2>2, HandlerOnly DEF Return, ghost, Locking, Changing, Reading
  <2>3. CASE /\ lock' = {h}
             /\ conf' = [conf EXCEPT !.password = handler[h].new]
             /\ in_force' = in_force \cup {handler[h].new}
             /\ Goto(h, "change_password")
    <3> DEFINE r == [handler[h] EXCEPT !.pc = "change_password"]
    <3>1. handler' = [handler EXCEPT ![h] = r]
        BY <2>3 DEF Goto
    <3>2. r \in HandlerState /\ r.pc = "change_password" /\ r.new = handler[h].new
        BY <1>a DEF HandlerState, HandlerPcs
    <3> HIDE DEF r
    <3>3. /\ handler' \in [Handlers -> HandlerState]
          /\ handler'[h] = r
          /\ \A g \in Handlers : g # h => handler'[g] = handler[g]
        BY <1>a, <3>1, <3>2, OneHandler
    <3>4. /\ conf' \in Credentials /\ conf'.secret = conf.secret
          /\ conf'.password = handler[h].new
        BY <1>a, <2>1, <2>3 DEF Credentials, PasswordOrNone
    <3>5. AuthTypeOK'
        BY <1>a, <2>1, <2>3, <3>3, <3>4 DEF AuthInv, AuthTypeOK
    <3>6. StoreInv'
        BY <1>a, <2>1, <2>3, <3>4 DEF StoreInv, PasswordDurable, StoredPassword
    <3>7. \A t \in tokens' : Outdated(t)'
        BY <2>1, <3>4 DEF AuthInv, Outdated
    <3>8. ASSUME NEW g \in Handlers
          PROVE  HandlerInv(g)'
      <4>1. CASE g = h
          BY <2>1, <2>3, <3>2, <3>3, <3>4, <4>1 DEF HandlerInv, Reading
      <4>2. CASE g # h
        <5>1. handler'[g] = handler[g] /\ HandlerInv(g)
            BY <3>3, <4>2 DEF AuthInv
        <5>2. handler[g].pc \notin Locking
            BY <2>1, <5>1 DEF HandlerInv
        <5>3. handler[g].pc \in Reading => Outdated(Snapshot(g))'
            BY <2>1, <3>4, <5>1 DEF HandlerInv, Outdated, Snapshot
        <5>4. QED
            BY <5>1, <5>2, <5>3 DEF HandlerInv, Locking
      <4>3. QED
          BY <4>1, <4>2
    <3>9. QED
        BY <2>1, <3>5, <3>6, <3>7, <3>8 DEF AuthInv
  <2>4. QED
      BY <1>3, <2>2, <2>3 DEF ChangeVerify
<1>4. QED
    BY <1>1, <1>2, <1>3

\* The steps of the change that holds the mutex.
LEMMA ChangeKeeps ==
    ASSUME AuthInv, ThrottleTypeOK', NEW h \in Handlers,
           ChangeSavePassword(h) \/ ChangeSaveSecret(h) \/ ChangeReply(h)
    PROVE  AuthInv'
<1>a. /\ handler \in [Handlers -> HandlerState] /\ handler[h] \in HandlerState
      /\ conf \in Credentials /\ db \in Credentials /\ lock \in SUBSET Handlers
      /\ next_secret \in FileSecret + 1 .. MaxSecrets + 1 /\ acked \in Nat
      /\ HandlerInv(h) /\ StoreInv /\ in_force \in SUBSET Passwords
      /\ tokens \in SUBSET Token
    BY DEF AuthInv, AuthTypeOK
<1>i. Idle \in HandlerState /\ Idle.pc = "idle"
    BY DEF Idle, HandlerState, HandlerPcs, PasswordOrNone, Credentials, Nothing, SecretOrNone
<1>l. /\ up /\ handler[h].pc \in Locking /\ lock = {h}
      /\ handler[h].new \in Passwords /\ handler[h].new \in in_force
      /\ conf.password = handler[h].new
    BY <1>a DEF ChangeSavePassword, ChangeSaveSecret, ChangeReply, At, HandlerInv, Changing, Locking
<1>o. \A g \in Handlers : HandlerInv(g) /\ (g # h => handler[g].pc \notin Locking)
    BY <1>l DEF AuthInv, HandlerInv
<1>1. CASE ChangeSavePassword(h)
  <2>1. CASE Return(h) /\ UNCHANGED db
      BY <1>1, <1>i, <1>l, <2>1, HandlerOnly
      DEF ChangeSavePassword, Return, Locking, Changing, Reading
  <2>2. CASE /\ db' = [db EXCEPT !.password = handler[h].new]
             /\ Goto(h, "change_secret")
             /\ UNCHANGED lock
    <3> DEFINE r == [handler[h] EXCEPT !.pc = "change_secret"]
    <3>1. handler' = [handler EXCEPT ![h] = r]
        BY <2>2 DEF Goto
    <3>2. r \in HandlerState /\ r.pc = "change_secret" /\ r.new = handler[h].new
        BY <1>a DEF HandlerState, HandlerPcs
    <3> HIDE DEF r
    <3>3. /\ handler' \in [Handlers -> HandlerState]
          /\ handler'[h] = r
          /\ \A g \in Handlers : g # h => handler'[g] = handler[g]
        BY <1>a, <3>1, <3>2, OneHandler
    <3>4. /\ db' \in Credentials /\ db'.secret = db.secret
          /\ db'.password = handler[h].new
        BY <1>a, <1>l, <2>2 DEF Credentials, PasswordOrNone
    <3>5. UNCHANGED <<up, conf, lock, file_secret, next_secret, tokens, acked, in_force>>
        BY <1>1, <2>2 DEF ChangeSavePassword, ghost
    <3>6. AuthTypeOK'
        BY <3>3, <3>4, <3>5 DEF AuthInv, AuthTypeOK
    <3>7. StoreInv'
        BY <1>a, <1>l, AuthAssumption, <3>4, <3>5 DEF StoreInv, PasswordDurable, StoredPassword
    <3>8. \A t \in tokens' : Outdated(t)'
        BY <3>4, <3>5 DEF AuthInv, Outdated
    <3>9. ASSUME NEW g \in Handlers
          PROVE  HandlerInv(g)'
      <4>1. CASE g = h
          BY <1>l, <3>2, <3>3, <3>4, <3>5, <4>1 DEF HandlerInv, Reading
      <4>2. CASE g # h
        <5>1. handler[g].pc \in Reading => Outdated(Snapshot(g))'
            BY <1>o, <3>3, <3>4, <3>5, <4>2 DEF HandlerInv, Outdated, Snapshot
        <5>2. QED
            BY <1>o, <3>3, <4>2, <5>1 DEF HandlerInv, Locking
      <4>3. QED
          BY <4>1, <4>2
    <3>10. QED
        BY <1>l, <3>5, <3>6, <3>7, <3>8, <3>9 DEF AuthInv
  <2>3. QED
      BY <1>1, <2>1, <2>2 DEF ChangeSavePassword
<1>2. CASE ChangeSaveSecret(h)
  <2>1. /\ handler[h].pc = "change_secret" /\ next_secret <= MaxSecrets
        /\ next_secret' = next_secret + 1
        /\ UNCHANGED <<up, file_secret, tokens, acked, in_force>>
      BY <1>2 DEF ChangeSaveSecret, At, ghost
  <2>2. /\ conf' \in Credentials /\ conf'.secret = next_secret
        /\ conf'.password = conf.password
      BY <1>2, <1>a, <2>1 DEF ChangeSaveSecret, Credentials, SecretOrNone, Secrets, FileSecret
  <2>3. /\ db' \in Credentials /\ db'.password = db.password
        /\ db'.secret = db.secret \/ db'.secret = next_secret
      BY <1>2, <1>a, <2>1 DEF ChangeSaveSecret, Credentials, SecretOrNone, Secrets, FileSecret
  <2>4. PICK r \in HandlerState :
           /\ handler' = [handler EXCEPT ![h] = r]
           /\ \/ r.pc = "idle"
              \/ /\ r.pc = "change_reply" /\ r.new = handler[h].new
                 /\ db'.secret = next_secret /\ lock' = lock
    <3>1. CASE Return(h)
        BY <1>i, <3>1 DEF Return
    <3>2. CASE db' = [db EXCEPT !.secret = next_secret] /\ Goto(h, "change_reply") /\ UNCHANGED lock
      <4> DEFINE s == [handler[h] EXCEPT !.pc = "change_reply"]
      <4>1. handler' = [handler EXCEPT ![h] = s]
          BY <3>2 DEF Goto
      <4>2. s \in HandlerState /\ s.pc = "change_reply" /\ s.new = handler[h].new
          BY <1>a DEF HandlerState, HandlerPcs
      <4>3. db'.secret = next_secret
          BY <1>a, <3>2 DEF Credentials
      <4> HIDE DEF s
      <4>4. QED
          BY <3>2, <4>1, <4>2, <4>3
    <3>3. QED
        BY <1>2, <3>1, <3>2 DEF ChangeSaveSecret
  <2>5. /\ handler' \in [Handlers -> HandlerState]
        /\ handler'[h] = r
        /\ \A g \in Handlers : g # h => handler'[g] = handler[g]
      BY <1>a, <2>4, OneHandler
  <2>6. lock' \in SUBSET Handlers
      BY <1>2, <1>a DEF ChangeSaveSecret, Return
  <2>7. AuthTypeOK'
    <3>1. next_secret' \in FileSecret + 1 .. MaxSecrets + 1 /\ next_secret \in Secrets
        BY <1>a, <2>1, AuthAssumption DEF FileSecret, Secrets
    <3>2. conf'.password \in Passwords /\ conf'.secret \in Secrets
        BY <1>l, <2>2, <3>1
    <3>3. QED
        BY <1>l, <2>1, <2>2, <2>3, <2>5, <2>6, <3>1, <3>2 DEF AuthInv, AuthTypeOK
  <2>8. StoreInv'
    <3>1. conf'.secret < next_secret' /\ db'.secret < next_secret'
        BY <1>a, <2>1, <2>2, <2>3, AuthAssumption
        DEF StoreInv, FileSecret, Credentials, SecretOrNone, Secrets, NoSecret
    <3>2. acked' > 0 => db'.secret # NoSecret
        BY <1>a, <2>1, <2>3 DEF StoreInv, FileSecret, NoSecret
    <3>3. PasswordDurable'
        BY <1>a, <1>l, <2>1, <2>2, <2>3 DEF StoreInv, PasswordDurable, StoredPassword
    <3>4. QED
        BY <3>1, <3>2, <3>3 DEF StoreInv
  <2>9. ASSUME NEW c, c.secret \in Nat, Outdated(c)
        PROVE  Outdated(c)' /\ c.secret # next_secret
      BY <1>a, <2>1, <2>2, <2>3, <2>9 DEF Outdated, FileSecret
  <2>10. \A t \in tokens' : Outdated(t)' /\ t.secret # next_secret
    <3>1. \A t \in tokens : t.secret \in Nat /\ Outdated(t)
        BY <1>a DEF AuthInv, Token, Secrets, FileSecret
    <3>2. QED
        BY <2>1, <2>9, <3>1
  <2>11. ASSUME NEW g \in Handlers, g # h, handler[g].pc \in Reading
         PROVE  Outdated(Snapshot(g))' /\ handler'[g].conf.secret # next_secret
    <3>1. Snapshot(g)' = Snapshot(g) /\ Snapshot(g).secret = handler'[g].conf.secret
        BY <2>5, <2>11 DEF Snapshot
    <3>2. Outdated(Snapshot(g)) /\ Snapshot(g).secret \in Nat
        BY <1>o, <2>11 DEF HandlerInv, Snapshot, Secrets, FileSecret
    <3>3. QED
        BY <2>9, <3>1, <3>2 DEF Outdated
  <2>12. ASSUME NEW g \in Handlers
         PROVE  HandlerInv(g)'
    <3>1. CASE g = h
      <4>1. CASE r.pc = "idle"
          BY <2>5, <3>1, <4>1 DEF HandlerInv, Reading, Changing, Locking
      <4>2. CASE r.pc = "change_reply" /\ r.new = handler[h].new
                 /\ db'.secret = next_secret /\ lock' = lock
        <5>1. db'.password = handler[h].new
            BY <1>a, <2>1, <2>3 DEF HandlerInv
        <5>2. \A k \in Handlers : handler'[k].pc \in Reading => handler'[k].conf.secret # db'.secret
            BY <2>5, <2>11, <4>2 DEF Reading
        <5>3. QED
            BY <1>l, <2>1, <2>2, <2>5, <2>10, <3>1, <4>2, <5>1, <5>2
            DEF HandlerInv, Reading, Changing, Locking
      <4>3. QED
          BY <2>4, <4>1, <4>2
    <3>2. CASE g # h
        BY <1>o, <2>5, <2>11, <3>2 DEF HandlerInv, Locking
    <3>3. QED
        BY <3>1, <3>2
  <2>13. QED
      BY <1>l, <2>1, <2>7, <2>8, <2>10, <2>12 DEF AuthInv
<1>3. CASE ChangeReply(h)
  <2>1. /\ handler[h].pc = "change_reply" /\ acked' = acked + 1
        /\ in_force' = {handler[h].new} /\ lock' = lock \ {h}
        /\ handler' = [handler EXCEPT ![h] = Idle]
        /\ UNCHANGED <<up, conf, file_secret, db, next_secret, tokens>>
      BY <1>3 DEF ChangeReply, At, Return
  <2>2. /\ handler' \in [Handlers -> HandlerState]
        /\ handler'[h] = Idle
        /\ \A g \in Handlers : g # h => handler'[g] = handler[g]
      BY <1>a, <1>i, <2>1, OneHandler
  <2>3. /\ conf.secret = db.secret /\ db.password = handler[h].new
        /\ \A t \in tokens : t.secret # db.secret
        /\ \A g \in Handlers :
              handler[g].pc \in Reading => handler[g].conf.secret # db.secret
      BY <1>a, <2>1 DEF HandlerInv
  <2>4. AuthTypeOK'
      BY <1>a, <1>l, <2>1, <2>2 DEF AuthInv, AuthTypeOK
  <2>5. StoreInv'
    <3>1. db.secret # NoSecret
        BY <1>l, <2>3 DEF AuthInv, AuthTypeOK, Secrets, FileSecret, NoSecret
    <3>2. PasswordDurable'
        BY <1>l, <2>1, <2>3, AuthAssumption DEF PasswordDurable, StoredPassword
    <3>3. QED
        BY <1>a, <2>1, <3>1, <3>2 DEF StoreInv
  <2>6. ASSUME NEW c, c.epoch \in Nat, Outdated(c), c.secret # db.secret
        PROVE  Outdated(c)'
      BY <1>a, <2>1, <2>3, <2>6 DEF Outdated
  <2>7. \A t \in tokens' : Outdated(t)'
    <3>1. \A t \in tokens : t.epoch \in Nat /\ Outdated(t)
        BY <1>a DEF AuthInv, Token
    <3>2. QED
        BY <2>1, <2>3, <2>6, <3>1
  <2>8. ASSUME NEW g \in Handlers
        PROVE  HandlerInv(g)'
    <3>1. CASE g = h
        BY <1>i, <2>2, <3>1 DEF HandlerInv, Reading, Changing, Locking
    <3>2. CASE g # h
      <4>1. ASSUME handler[g].pc \in Reading
            PROVE  Outdated(Snapshot(g))'
        <5>1. Snapshot(g)' = Snapshot(g)
            BY <2>2, <3>2 DEF Snapshot
        <5>2. /\ Outdated(Snapshot(g)) /\ Snapshot(g).epoch \in Nat
              /\ Snapshot(g).secret # db.secret
            BY <1>a, <1>o, <2>3, <4>1 DEF HandlerInv, Snapshot, HandlerState
        <5>3. QED
            BY <2>6, <5>1, <5>2 DEF Outdated
      <4>2. QED
          BY <1>o, <2>2, <3>2, <4>1 DEF HandlerInv, Locking
    <3>3. QED
        BY <3>1, <3>2
  <2>9. QED
      BY <1>l, <2>1, <2>4, <2>5, <2>7, <2>8 DEF AuthInv
<1>4. QED
    BY <1>1, <1>2, <1>3

\* Starts, ends of the process, settings, time.
LEMMA ProcessKeeps ==
    ASSUME AuthInv, ThrottleTypeOK',
           \/ Start \/ Exit \/ Tick
           \/ \E t \in tokens : TokenExpires(t) \/ SetSettings(t)
           \/ UNCHANGED vars
    PROVE  AuthInv'
<1>a. /\ handler \in [Handlers -> HandlerState]
      /\ conf \in Credentials /\ db \in Credentials /\ lock \in SUBSET Handlers
      /\ next_secret \in FileSecret + 1 .. MaxSecrets + 1 /\ acked \in Nat
      /\ StoreInv /\ tokens \in SUBSET Token
      /\ file_secret \in {NoSecret, FileSecret}
      /\ \A t \in tokens : t.secret \in Nat /\ t.epoch \in Nat /\ Outdated(t)
      /\ \A h \in Handlers : HandlerInv(h)
    BY DEF AuthInv, AuthTypeOK, Token, Secrets, FileSecret
<1>1. CASE Start
  <2>1. /\ ~up /\ up' = TRUE
        /\ conf' = [password |-> StoredPassword, secret |-> LoadedSecret]
        /\ next_secret' = IF LoadedSecret = next_secret THEN next_secret + 1
                                                        ELSE next_secret
        /\ UNCHANGED <<lock, file_secret, db, handler, tokens, acked, in_force>>
      BY <1>1 DEF Start, ghost
  <2>2. DownInv
      BY <2>1 DEF AuthInv
  <2>3. /\ StoredPassword \in Passwords /\ StoredPassword' = StoredPassword
        /\ StoredPassword \in in_force
      BY <1>a, <2>1, AuthAssumption
      DEF StoredPassword, Credentials, PasswordOrNone, StoreInv, PasswordDurable
  <2>4. LoadedSecret \in Secrets /\ LoadedSecret <= next_secret
      BY <1>a, <2>2, AuthAssumption
      DEF DownInv, LoadedSecret, StoreInv, Credentials, SecretOrNone, Secrets, NoSecret, FileSecret
  <2>5. /\ next_secret' \in FileSecret + 1 .. MaxSecrets + 1
        /\ next_secret <= next_secret' /\ LoadedSecret < next_secret'
      BY <1>a, <2>1, <2>4, AuthAssumption DEF Secrets, FileSecret
  <2>6. /\ conf' \in Credentials /\ conf'.password = StoredPassword
        /\ conf'.secret = LoadedSecret
      BY <2>1, <2>3, <2>4 DEF Credentials, PasswordOrNone, SecretOrNone
  <2>7. AuthTypeOK'
      BY <1>a, <2>1, <2>3, <2>4, <2>5, <2>6 DEF AuthInv, AuthTypeOK
  <2>8. StoreInv'
    <3>1. PasswordDurable'
        BY <2>1, <2>3, <2>6 DEF PasswordDurable
    <3>2. db.secret < next_secret'
        BY <1>a, <2>5, AuthAssumption DEF StoreInv, Credentials, SecretOrNone, Secrets, NoSecret, FileSecret
    <3>3. QED
        BY <1>a, <2>1, <2>5, <2>6, <3>1, <3>2 DEF StoreInv
  <2>9. \A t \in tokens' : Outdated(t)'
    <3>1. acked > 0 => LoadedSecret = db.secret
        BY <1>a DEF StoreInv, LoadedSecret
    <3>2. QED
        BY <1>a, <2>1, <2>5, <2>6, <3>1 DEF Outdated
  <2>10. \A h \in Handlers : HandlerInv(h)'
      BY <2>1, <2>2 DEF DownInv, HandlerInv, Reading, Changing, Locking
  <2>11. QED
      BY <2>1, <2>7, <2>8, <2>9, <2>10 DEF AuthInv
<1>2. CASE Exit
  <2>1. /\ up' = FALSE /\ conf' = Nothing /\ lock' = {}
        /\ handler' = [h \in Handlers |-> Idle] /\ LoadedSecret <= MaxSecrets
        /\ UNCHANGED <<file_secret, db, next_secret, tokens, acked, in_force>>
      BY <1>2 DEF Exit, ghost
  <2>2. Idle \in HandlerState /\ Idle.pc = "idle" /\ Nothing \in Credentials /\ Nothing.secret = 0
      BY DEF Idle, HandlerState, HandlerPcs, PasswordOrNone, Credentials, Nothing, SecretOrNone, NoSecret
  <2>3. AuthTypeOK'
      BY <1>a, <2>1, <2>2 DEF AuthInv, AuthTypeOK
  <2>4. DownInv'
      BY <2>1, <2>2 DEF DownInv, LoadedSecret
  <2>5. StoreInv'
    <3>1. PasswordDurable'
        BY <1>a, <2>1 DEF StoreInv, PasswordDurable, StoredPassword
    <3>2. QED
        BY <1>a, <2>1, <2>2, <3>1 DEF StoreInv, FileSecret
  <2>6. \A t \in tokens' : Outdated(t)'
      BY <1>a, <2>1 DEF Outdated
  <2>7. \A h \in Handlers : HandlerInv(h)'
      BY <2>1, <2>2 DEF HandlerInv, Reading, Changing, Locking
  <2>8. QED
      BY <2>3, <2>4, <2>5, <2>6, <2>7 DEF AuthInv
<1>3. ASSUME NEW t \in tokens, SetSettings(t)
      PROVE  AuthInv'
  <2>1. /\ up /\ lock = {} /\ next_secret <= MaxSecrets
        /\ db' = [db EXCEPT !.secret = next_secret]
        /\ next_secret' = next_secret + 1
        /\ UNCHANGED <<up, conf, lock, file_secret, handler, tokens, acked, in_force>>
      BY <1>3 DEF SetSettings, TokenValid, Unlocked, ghost
  <2>2. db' \in Credentials /\ db'.password = db.password /\ db'.secret = next_secret
      BY <1>a, <2>1 DEF Credentials, SecretOrNone, Secrets, FileSecret
  <2>3. AuthTypeOK'
    <3>1. next_secret' \in FileSecret + 1 .. MaxSecrets + 1
        BY <1>a, <2>1, AuthAssumption DEF FileSecret
    <3>2. QED
        BY <2>1, <2>2, <3>1 DEF AuthInv, AuthTypeOK
  <2>4. StoreInv'
    <3>1. PasswordDurable'
        BY <1>a, <2>1, <2>2 DEF StoreInv, PasswordDurable, StoredPassword
    <3>2. conf.secret < next_secret' /\ db'.secret < next_secret' /\ db'.secret # NoSecret
        BY <1>a, <2>1, <2>2, AuthAssumption
        DEF StoreInv, Credentials, SecretOrNone, Secrets, NoSecret, FileSecret
    <3>3. QED
        BY <2>1, <3>1, <3>2 DEF StoreInv
  <2>5. ASSUME NEW c, c.secret \in Nat, Outdated(c)
        PROVE  Outdated(c)'
      BY <1>a, <2>1, <2>2, <2>5 DEF Outdated, FileSecret
  <2>6. \A u \in tokens' : Outdated(u)'
      BY <1>a, <2>1, <2>5
  <2>7. ASSUME NEW h \in Handlers
        PROVE  HandlerInv(h)'
    <3>1. handler[h].pc \in Reading => Outdated(Snapshot(h))'
      <4>1. Snapshot(h)' = Snapshot(h)
          BY <2>1 DEF Snapshot
      <4>2. handler[h].pc \in Reading => Snapshot(h).secret \in Nat /\ Outdated(Snapshot(h))
          BY <1>a DEF HandlerInv, Snapshot, Secrets, FileSecret
      <4>3. QED
          BY <2>5, <4>1, <4>2 DEF Outdated
    <3>2. handler[h].pc \notin Locking
        BY <1>a, <2>1 DEF HandlerInv
    <3>3. QED
        BY <1>a, <2>1, <3>1, <3>2 DEF HandlerInv, Locking
  <2>8. QED
      BY <2>1, <2>3, <2>4, <2>6, <2>7 DEF AuthInv
<1>4. CASE Tick \/ (\E t \in tokens : TokenExpires(t)) \/ UNCHANGED vars
  <2>1. /\ UNCHANGED <<up, conf, lock, file_secret, db, next_secret, handler, acked, in_force>>
        /\ tokens' \subseteq tokens
      BY <1>4 DEF Tick, TokenExpires, vars, store, ghost
  <2>2. AuthTypeOK'
      BY <1>a, <2>1 DEF AuthInv, AuthTypeOK
  <2>3. StoreInv'
      BY <1>a, <2>1 DEF StoreInv, PasswordDurable, StoredPassword
  <2>4. ~up' => DownInv'
      BY <2>1 DEF AuthInv, DownInv, LoadedSecret
  <2>5. \A u \in tokens' : Outdated(u)'
      BY <1>a, <2>1 DEF Outdated
  <2>6. ASSUME NEW h \in Handlers
        PROVE  HandlerInv(h)'
    <3>1. handler' = handler /\ HandlerInv(h)
        BY <1>a, <2>1
    <3>2. handler[h].pc \in Reading => Outdated(Snapshot(h))'
        BY <2>1, <3>1 DEF HandlerInv, Outdated, Snapshot
    <3>3. QED
        BY <2>1, <3>1, <3>2 DEF HandlerInv
  <2>7. QED
      BY <2>2, <2>3, <2>4, <2>5, <2>6 DEF AuthInv
<1>5. QED
    BY <1>1, <1>2, <1>3, <1>4

\* Every step of the interface keeps the invariant.
THEOREM AuthInvariant == AuthSpec => []AuthInv
<1>1. AuthInit => AuthInv
  <2> SUFFICES ASSUME AuthInit PROVE AuthInv
      OBVIOUS
  <2>1. Idle \in HandlerState /\ Idle.pc = "idle" /\ Nothing \in Credentials
        /\ Nothing.secret = 0 /\ Nothing.password = NoPassword
      BY DEF Idle, HandlerState, HandlerPcs, PasswordOrNone, Credentials, Nothing, SecretOrNone, NoSecret
  <2>2. AuthTypeOK
    <3>1. ThrottleTypeOK
        BY ThrottleAssumption DEF AuthInit, ThrottleInit, ThrottleTypeOK
    <3>2. next_secret \in FileSecret + 1 .. MaxSecrets + 1
        BY AuthAssumption DEF AuthInit, FileSecret
    <3>3. handler \in [Handlers -> HandlerState]
        BY <2>1 DEF AuthInit
    <3>4. up = FALSE /\ tokens \in SUBSET Token /\ in_force \in SUBSET Passwords
        BY AuthAssumption DEF AuthInit
    <3>5. QED
        BY <2>1, <3>1, <3>2, <3>3, <3>4 DEF AuthInit, AuthTypeOK
  <2>3. StoreInv
      BY <2>1 DEF AuthInit, StoreInv, PasswordDurable, StoredPassword, FileSecret
  <2>4. DownInv
      BY <2>1, AuthAssumption DEF AuthInit, DownInv, LoadedSecret, FileSecret, NoSecret
  <2>5. \A h \in Handlers : HandlerInv(h)
      BY <2>1 DEF AuthInit, HandlerInv, Reading, Changing, Locking
  <2>6. QED
      BY <2>2, <2>3, <2>4, <2>5 DEF AuthInit, AuthInv
<1>2. AuthInv /\ ThrottleTypeOK' /\ [AuthNext]_vars => AuthInv'
    BY LoginKeeps, ChangeStartKeeps, ChangeKeeps, ProcessKeeps DEF AuthNext, ChangeStep
<1>3. ThrottleInv => ThrottleTypeOK
    BY DEF ThrottleInv
<1>4. QED
    BY <1>1, <1>2, <1>3, ThrottleCorrect, PTL DEF AuthSpec

\* api_auth_change_password: once a change has been answered with 204, no
\* token that rests on credentials read before it is accepted again, however
\* logins, refreshes, failed changes, settings and restarts interleave.
THEOREM SessionsCorrect == AuthSpec => []SessionsRevoked
<1>1. AuthInv => SessionsRevoked
    BY DEF AuthInv, AuthTypeOK, Token, Outdated, SessionsRevoked, TokenValid
<1>2. QED
    BY <1>1, AuthInvariant, PTL

\* The password in memory and the one a restart would load are the one
\* acknowledged last, or one of a change that failed since.
THEOREM PasswordsCorrect == AuthSpec => []PasswordDurable
<1>1. AuthInv => PasswordDurable
    BY DEF AuthInv, StoreInv
<1>2. QED
    BY <1>1, AuthInvariant, PTL
=============================================================================
