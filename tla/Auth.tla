-------------------------------- MODULE Auth --------------------------------
(***************************************************************************)
(* Passwords and session tokens of the web interface.  The password hash   *)
(* and the secret that signs the tokens live in HttpServer.conf, behind a  *)
(* mutex, and in table config of the database; both are loaded when the    *)
(* plugin starts (src/src/plugin.rs, src/src/http_server.rs).  Handlers    *)
(* for login, refresh and password change (src/src/http_server_api.rs) run *)
(* on several threads, and the process may die between any two writes.     *)
(* Tokens are held by browsers and outlive the process.                    *)
(***************************************************************************)
EXTENDS LoginThrottle

CONSTANTS
    Handlers,       \* requests that are served at the same time
    Passwords,      \* passwords; a hash stands for its password
    NoPassword,     \* no password stored, or none given
    FilePassword,   \* the password of the configuration file, or the default
    MaxSecrets      \* bound: how many secrets are generated

NoSecret == 0

\* A secret that the configuration file may set; generate_secret never
\* returns it, nor the same secret twice.
FileSecret == 1

Secrets == FileSecret .. MaxSecrets

ASSUME AuthAssumption ==
    /\ FilePassword \in Passwords
    /\ NoPassword \notin Passwords
    /\ MaxSecrets \in Nat
    /\ MaxSecrets > FileSecret

VARIABLES
    up,             \* the plugin has been started
    conf,           \* HttpServer.conf: password and jwt_secret
    lock,           \* the handlers that hold the mutex of conf
    file_secret,    \* jwt-secret of the configuration file, or NoSecret
    db,             \* table config: password and jwt-secret
    next_secret,    \* the next secret that generate_secret returns
    handler,        \* handler -> where it is and what it has read
    tokens,         \* tokens handed out that have not expired
    \* History: not in the code
    acked,          \* how many password changes were acknowledged
    in_force        \* the passwords a user has to expect to be in force: the
                    \* acknowledged one, and those of changes that failed since

store == <<conf, lock, file_secret, db, next_secret>>
ghost == <<acked, in_force>>
vars  == <<up, store, handler, tokens, ghost, throttle>>

-----------------------------------------------------------------------------
PasswordOrNone == Passwords \cup {NoPassword}
SecretOrNone   == Secrets \cup {NoSecret}

Credentials == [password : PasswordOrNone, secret : SecretOrNone]

HandlerPcs == {"idle", "login_check", "login_verify", "refresh",
               "change_check", "change_verify", "change_password",
               "change_secret", "change_reply"}

HandlerState == [pc : HandlerPcs, given : PasswordOrNone, new : PasswordOrNone,
                 conf : Credentials, epoch : Nat]

\* The epoch of a token is the number of changes acknowledged when the
\* credentials behind it were read.
Token == [secret : Secrets, epoch : Nat]

Nothing == [password |-> NoPassword, secret |-> NoSecret]

Idle == [pc |-> "idle", given |-> NoPassword, new |-> NoPassword,
         conf |-> Nothing, epoch |-> 0]

AuthTypeOK ==
    /\ up \in BOOLEAN
    /\ conf \in Credentials
    /\ up => conf.password \in Passwords /\ conf.secret \in Secrets
    /\ lock \in SUBSET Handlers
    /\ file_secret \in {NoSecret, FileSecret}
    /\ db \in Credentials
    /\ next_secret \in FileSecret + 1 .. MaxSecrets + 1
    /\ handler \in [Handlers -> HandlerState]
    /\ tokens \in SUBSET Token
    /\ acked \in Nat
    /\ in_force \in SUBSET Passwords
    /\ ThrottleTypeOK

AuthInit ==
    /\ up = FALSE
    /\ conf = Nothing
    /\ lock = {}
    /\ file_secret \in {NoSecret, FileSecret}
    /\ db = Nothing
    /\ next_secret = FileSecret + 1
    /\ handler = [h \in Handlers |-> Idle]
    /\ tokens = {}
    /\ acked = 0
    /\ in_force = {FilePassword}
    /\ ThrottleInit

-----------------------------------------------------------------------------
(* SmartdnsPlugin::start and the end of the process                        *)

StoredPassword == IF db.password # NoPassword THEN db.password ELSE FilePassword

\* HttpServerConfig::load_config, the load after init_db: the first one finds
\* the database closed and everything it sets is set again.
LoadedSecret ==
    IF db.secret # NoSecret THEN db.secret
    ELSE IF file_secret # NoSecret THEN file_secret ELSE next_secret

\* A generated secret stays in memory; load_config does not store it.
Start ==
    /\ ~up
    /\ up' = TRUE
    /\ conf' = [password |-> StoredPassword, secret |-> LoadedSecret]
    /\ next_secret' = IF LoadedSecret = next_secret THEN next_secret + 1
                                                    ELSE next_secret
    /\ LoginAttemptsReset
    /\ UNCHANGED <<lock, file_secret, db, handler, tokens, ghost>>

\* The process ends, by a stop or a crash: what is in memory is gone.
Exit ==
    /\ up
    /\ LoadedSecret <= MaxSecrets    \* bound: the next start may generate it
    /\ up' = FALSE
    /\ conf' = Nothing
    /\ lock' = {}
    /\ handler' = [h \in Handlers |-> Idle]
    /\ UNCHANGED <<file_secret, db, next_secret, tokens, ghost, throttle>>

Tick ==
    /\ up
    /\ ThrottleTick
    /\ UNCHANGED <<up, store, handler, tokens, ghost>>

\* The exp claim of a token has passed.
TokenExpires(t) ==
    /\ tokens' = tokens \ {t}
    /\ UNCHANGED <<up, store, handler, ghost, throttle>>

-----------------------------------------------------------------------------
(* Helpers of the handlers                                                 *)

Unlocked == lock = {}

\* auth_token_is_valid, which needs the mutex: the signature of the token is
\* made with the current secret.
TokenValid(t) == Unlocked /\ t.secret = conf.secret

At(h, pc) == up /\ handler[h].pc = pc

Goto(h, pc) == handler' = [handler EXCEPT ![h].pc = pc]

\* The handler returns its response, and the guard of the mutex is dropped.
Return(h) ==
    /\ handler' = [handler EXCEPT ![h] = Idle]
    /\ lock' = lock \ {h}

\* login_attempts_check, then the next step or 403.
AttemptsCheck(h, pc, next) ==
    /\ At(h, pc)
    /\ \/ LoginAttemptAllowed /\ Goto(h, next)
       \/ LoginAttemptDenied /\ handler' = [handler EXCEPT ![h] = Idle]
    /\ UNCHANGED <<up, store, tokens, ghost>>

-----------------------------------------------------------------------------
(* api_auth_login                                                          *)

\* get_conf clones the configuration; the handler works on its copy.
LoginSnapshot(h, p) ==
    /\ At(h, "idle")
    /\ Unlocked
    /\ handler' = [handler EXCEPT ![h] =
                     [pc |-> "login_check", given |-> p, new |-> NoPassword,
                      conf |-> conf, epoch |-> acked]]
    /\ UNCHANGED <<up, store, tokens, ghost, throttle>>

LoginCheck(h) == AttemptsCheck(h, "login_check", "login_verify")

\* The password is compared with the copy; the token is signed with its secret.
LoginVerify(h) ==
    /\ At(h, "login_verify")
    /\ \/ /\ handler[h].given # handler[h].conf.password
          /\ UNCHANGED <<tokens, throttle>>
       \/ /\ handler[h].given = handler[h].conf.password
          /\ LoginAttemptsReset
          /\ tokens' = tokens \cup {[secret |-> handler[h].conf.secret,
                                     epoch  |-> handler[h].epoch]}
    /\ Return(h)
    /\ UNCHANGED <<up, conf, file_secret, db, next_secret, ghost>>

-----------------------------------------------------------------------------
(* api_auth_refresh: the router has found the token valid; the handler     *)
(* checks it again, with the copy of the configuration that it signs with. *)

RefreshAuth(h, t) ==
    /\ At(h, "idle")
    /\ TokenValid(t)
    /\ handler' = [handler EXCEPT ![h] =
                     [pc |-> "refresh", given |-> NoPassword, new |-> NoPassword,
                      conf |-> [password |-> NoPassword, secret |-> t.secret],
                      epoch |-> t.epoch]]
    /\ UNCHANGED <<up, store, tokens, ghost, throttle>>

Refresh(h) ==
    LET t == [secret |-> handler[h].conf.secret, epoch |-> handler[h].epoch]
    IN  /\ At(h, "refresh")
        /\ Unlocked
        /\ \/ /\ t \in tokens /\ TokenValid(t)
              /\ tokens' = tokens \cup {[t EXCEPT !.secret = conf.secret]}
           \/ /\ t \notin tokens \/ ~TokenValid(t)
              /\ UNCHANGED tokens
        /\ Return(h)
        /\ UNCHANGED <<up, conf, file_secret, db, next_secret, ghost, throttle>>

-----------------------------------------------------------------------------
(* api_auth_change_password                                                *)

ChangeAuth(h, t, p, q) ==
    /\ At(h, "idle")
    /\ TokenValid(t)
    /\ handler' = [handler EXCEPT ![h] =
                     [pc |-> "change_check", given |-> p, new |-> q,
                      conf |-> Nothing, epoch |-> 0]]
    /\ UNCHANGED <<up, store, tokens, ghost, throttle>>

ChangeCheck(h) == AttemptsCheck(h, "change_check", "change_verify")

\* get_conf_mut holds the mutex until the handler returns: 403 for a wrong
\* password, 500 when hash_password fails.
ChangeVerify(h) ==
    /\ At(h, "change_verify")
    /\ Unlocked
    /\ \/ /\ Return(h)
          /\ UNCHANGED <<conf, in_force>>
       \/ /\ handler[h].given = conf.password
          /\ lock' = {h}
          /\ conf' = [conf EXCEPT !.password = handler[h].new]
          /\ in_force' = in_force \cup {handler[h].new}
          /\ Goto(h, "change_password")
    /\ UNCHANGED <<up, file_secret, db, next_secret, tokens, acked, throttle>>

\* Mutant: the result of set_config is ignored.
ChangeSavePasswordIgnoresError(h) ==
    /\ At(h, "change_password")
    /\ \/ db' = [db EXCEPT !.password = handler[h].new]
       \/ UNCHANGED db
    /\ Goto(h, "change_secret")
    /\ UNCHANGED <<up, conf, lock, file_secret, next_secret, tokens, ghost,
                   throttle>>

\* set_config of the password; on an error the new password stays in memory.
ChangeSavePassword(h) ==
    /\ At(h, "change_password")
    /\ \/ /\ db' = [db EXCEPT !.password = handler[h].new]
          /\ Goto(h, "change_secret")
          /\ UNCHANGED lock
       \/ /\ Return(h)
          /\ UNCHANGED db
    /\ UNCHANGED <<up, conf, file_secret, next_secret, tokens, ghost, throttle>>

\* Mutant: the new secret is not stored.
ChangeSaveSecretInMemory(h) ==
    /\ At(h, "change_secret")
    /\ next_secret <= MaxSecrets
    /\ conf' = [conf EXCEPT !.secret = next_secret]
    /\ next_secret' = next_secret + 1
    /\ Goto(h, "change_reply")
    /\ UNCHANGED <<up, lock, file_secret, db, tokens, ghost, throttle>>

\* The new secret is set in memory, then by set_config.
ChangeSaveSecret(h) ==
    /\ At(h, "change_secret")
    /\ next_secret <= MaxSecrets
    /\ conf' = [conf EXCEPT !.secret = next_secret]
    /\ next_secret' = next_secret + 1
    /\ \/ /\ db' = [db EXCEPT !.secret = next_secret]
          /\ Goto(h, "change_reply")
          /\ UNCHANGED lock
       \/ /\ Return(h)
          /\ UNCHANGED db
    /\ UNCHANGED <<up, file_secret, tokens, ghost, throttle>>

\* 204: the change is acknowledged.
ChangeReply(h) ==
    /\ At(h, "change_reply")
    /\ LoginAttemptsReset
    /\ acked' = acked + 1
    /\ in_force' = {handler[h].new}
    /\ Return(h)
    /\ UNCHANGED <<up, conf, file_secret, db, next_secret, tokens>>

-----------------------------------------------------------------------------
\* api_config_set_settings writes any key but the password, so also the key of
\* the secret, to the database only; the value is one that was never in use.
SetSettings(t) ==
    /\ up
    /\ TokenValid(t)
    /\ next_secret <= MaxSecrets
    /\ db' = [db EXCEPT !.secret = next_secret]
    /\ next_secret' = next_secret + 1
    /\ UNCHANGED <<up, conf, lock, file_secret, handler, tokens, ghost, throttle>>

-----------------------------------------------------------------------------
LoginStep(h) ==
    \/ \E p \in Passwords : LoginSnapshot(h, p)
    \/ LoginCheck(h)
    \/ LoginVerify(h)

RefreshStep(h) ==
    \/ \E t \in tokens : RefreshAuth(h, t)
    \/ Refresh(h)

ChangeStep(h) ==
    \/ \E t \in tokens, p \in Passwords, q \in Passwords : ChangeAuth(h, t, p, q)
    \/ ChangeCheck(h)
    \/ ChangeVerify(h)
    \/ ChangeSavePassword(h)
    \/ ChangeSaveSecret(h)
    \/ ChangeReply(h)

AuthNext ==
    \/ Start
    \/ Exit
    \/ Tick
    \/ \E t \in tokens : TokenExpires(t)
    \/ \E t \in tokens : SetSettings(t)
    \/ \E h \in Handlers : LoginStep(h) \/ RefreshStep(h) \/ ChangeStep(h)

AuthSpec == AuthInit /\ [][AuthNext]_vars

-----------------------------------------------------------------------------
\* An acknowledged password change revokes every session for good: a token
\* whose credentials were read before it is never accepted again.  Logins and
\* refreshes that straddle the change, failed later changes and restarts do
\* not bring one back.
SessionsRevoked ==
    up => \A t \in tokens : TokenValid(t) => t.epoch = acked

\* The password in force, now and after a restart, is the one acknowledged
\* last, or that of a change that was answered with an error since.
PasswordDurable ==
    /\ up => conf.password \in in_force
    /\ StoredPassword \in in_force

=============================================================================
