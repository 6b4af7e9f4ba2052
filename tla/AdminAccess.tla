---------------------------- MODULE AdminAccess ----------------------------
(***************************************************************************)
(* The administrator's credentials and what they open: browser sessions    *)
(* (TwoFactorSessions), the second factor (TOTP codes and passkeys),       *)
(* step-up confirmations, and the settings transactions that replace the   *)
(* credentials while all of these are in use.                              *)
(*                                                                         *)
(* A request is a handler between two points where another task may run:   *)
(* it keeps what it read (`saw`, the session it was given, ...) while the  *)
(* credentials change under it.  Whatever holds the `readonly_auth` lock   *)
(* across two calls is one step.                                           *)
(*                                                                         *)
(* Tokens are random: one is reused by the model only when nobody holds    *)
(* it.  `gen` numbers the credentials in force, one for each swap of       *)
(* `readonly_auth`; passwords and secrets are named by the generation that *)
(* introduced them.  `under`, the factors a session was obtained with as   *)
(* its handler read them, `shown`, `replays` and `removed` are histories.  *)
(***************************************************************************)
EXTENDS Integers, FiniteSets

CONSTANTS Token,            \* session tokens
          Passkey,          \* credentials an authenticator can register
          Client,           \* requests in flight at a time
          MaxSessions,      \* MAX_AUTH_SESSIONS
          MaxPending,       \* MAX_PENDING_SESSIONS
          MaxPasskeys,      \* MAX_PASSKEYS
          MaxAttempts2FA,   \* TWO_FACTOR_MAX_FAILED_ATTEMPTS
          ReplayRetention,  \* TWO_FACTOR_TOTP_REPLAY_RETENTION_SECS, in steps
          MaxStep,          \* bound on the time steps
          MaxGen            \* bound on the swaps of the credentials

ASSUME AdminAssumption ==
    /\ {MaxSessions, MaxPending, MaxPasskeys, MaxAttempts2FA, MaxStep, MaxGen} \subseteq Nat \ {0}
    /\ ReplayRetention \in Nat /\ ReplayRetention > 2

VARIABLES https,       \* public_base_url is https: passkeys are available
          auth,        \* readonly_auth: the password and the TOTP secret in force
          saved,       \* the [auth] section of server.toml
          gen,
          sessions,    \* TwoFactorSessionStore, by token
          used,        \* used_totp_steps, with the step at which each is forgotten
          step,        \* the current TOTP time step
          keys,        \* PasskeyService.credentials in memory
          keyFile,     \* passkeys.json
          asserting,   \* ceremonies.authentications: the keys offered, by token
          enrolling,   \* ceremonies.registrations, by token
          commit,      \* the passkey change that holds mutation_lock
          change,      \* the settings transaction that holds settings_write_lock
          req,         \* the requests in flight
          shown,       \* codes accepted or proven so far, as <<secret, step>>
          replays,     \* acceptances that showed only codes accepted before
          removed      \* passkeys whose removal was acknowledged

adminVars == <<https, auth, saved, gen, sessions, used, step, keys, keyFile, asserting,
               enrolling, commit, change, req, shown, replays, removed>>

NoWork == [kind |-> "none", holds |-> {}]
TwoFactor(a) == a.totp # 0
Gens  == 0 .. MaxGen
Auths == [pw : Gens, totp : 0 .. MaxGen + 1]
Steps == 0 .. MaxStep + 1

-----------------------------------------------------------------------------
(* TwoFactorSessionStore. *)

Free == [kind |-> "free"]
Session(kind, pw, totp) ==
    [kind |-> kind, under |-> [pw |-> pw, totp |-> totp],
     failed |-> 0, confirmed |-> kind = "full"]

Of(kind)    == {t \in Token : sessions[t].kind = kind}
Live(t)     == sessions[t].kind # "free"
HasCapacity == Cardinality(Of("full") \cup Of("basic")) < MaxSessions

(* A random token nobody remembers. *)
Unheld(t) == /\ ~Live(t)
             /\ \A c \in Client : t \notin req[c].holds
             /\ asserting[t] = {} /\ ~enrolling[t]

Cleared == [t \in Token |-> Free]
Opened(t, kind, pw, totp) == [sessions EXCEPT ![t] = Session(kind, pw, totp)]

(* The pending session, which knows its password, is consumed and the full *)
(* one, proved with `totp`, is opened in its place.                        *)
Exchanged(p, t, totp) ==
    [sessions EXCEPT ![p] = Free, ![t] = Session("full", sessions[p].under.pw, totp)]

(* The pending budget evicts the session that expires first; which one    *)
(* that is depends on ages the model does not keep.                       *)
WithPending(t, pw) ==
    {IF e = t THEN Opened(t, "pending", pw, 0)
              ELSE [Opened(t, "pending", pw, 0) EXCEPT ![e] = Free] :
        e \in IF Cardinality(Of("pending")) >= MaxPending THEN Of("pending") ELSE {t}}

Confirmed(t) == [sessions EXCEPT ![t].confirmed = TRUE]
ConfirmKind  == IF TwoFactor(auth) THEN "full" ELSE "basic"

-----------------------------------------------------------------------------
(* TOTP steps.  A code may belong to several steps of the drift window.    *)
(* Bounds: two of them, and one (today's) in the behaviours with passkeys, *)
(* where time stands still.                                                *)

Window == {s \in Steps : s - 1 <= step /\ step <= s + 1}
Matching == IF https THEN {{step}} ELSE {S \in SUBSET Window : Cardinality(S) \in {1, 2}}

InUse     == {s \in Steps : used[s] > step}
Unused(S) == ~(S \subseteq InUse)
Marks(S)  == [s \in Steps |-> IF s \in S THEN step + ReplayRetention ELSE used[s]]
ForgetsAtOnce(S) == [s \in Steps |-> IF s \in S THEN step + 1 ELSE used[s]]
Marked(S) == Marks(S)

(* Proves possession of `secret` with the code of steps S. *)
Shows(secret, S) == {secret} \X S
Accept(secret, S) ==
    /\ Unused(S)
    /\ used' = Marked(S)
    /\ shown' = shown \cup Shows(secret, S)
    /\ replays' = IF Shows(secret, S) \subseteq shown THEN replays + 1 ELSE replays

CodeVars == <<used, shown, replays>>
KeyVars  == <<keys, keyFile, commit, removed>>
Ceremonies == <<asserting, enrolling>>
Credentials == <<https, auth, saved, gen, change>>

-----------------------------------------------------------------------------
AdminInit ==
    /\ https \in BOOLEAN
    /\ \E some \in SUBSET Passkey :
          /\ keys = some
          /\ Cardinality(some) <= IF https THEN 1 ELSE 0
    /\ keyFile = keys
    /\ \E secret \in {0, 1} :
          /\ auth = [pw |-> 0, totp |-> secret]
          /\ https => secret = 1
    /\ saved = auth
    /\ gen = 0
    /\ sessions = Cleared
    /\ used = [s \in Steps |-> 0]
    /\ step = 0
    /\ asserting = [t \in Token |-> {}]
    /\ enrolling = [t \in Token |-> FALSE]
    /\ commit = NoWork
    /\ change = NoWork
    /\ req = [c \in Client |-> NoWork]
    /\ shown = {} /\ replays = 0 /\ removed = {}

Idle(c)   == req[c].kind = "none"
Done(c)   == req' = [req EXCEPT ![c] = NoWork]
Goes(c, r) == req' = [req EXCEPT ![c] = r]
Starts(c, kind, t, saw) ==
    Goes(c, [kind |-> kind, holds |-> {t}, token |-> t, saw |-> saw])
At(c, kind) == req[c].kind = kind

(* authorize_readonly_request: the Basic header is right under the read    *)
(* lock, which is then dropped.  `saw` is the password it carries.         *)
Authorize(c) ==
    /\ Idle(c)
    /\ \E t \in Token :
          /\ Unheld(t)
          /\ Starts(c, IF TwoFactor(auth) THEN "redirect" ELSE "login", t, auth.pw)
    /\ UNCHANGED <<Credentials, sessions, step, CodeVars, KeyVars, Ceremonies>>

(* issue_two_factor_redirect *)
StillAuthorized(r, twoFactor) == TwoFactor(auth) = twoFactor /\ auth.pw = r.saw
TrustsFirstCheck(r, twoFactor) == TRUE
ChecksTheKind(r, twoFactor) == TwoFactor(auth) = twoFactor
Rechecked(r, twoFactor) == StillAuthorized(r, twoFactor)

Redirect(c) ==
    /\ At(c, "redirect")
    /\ Done(c)
    /\ IF Rechecked(req[c], TRUE)
         THEN \/ sessions' \in WithPending(req[c].token, req[c].saw)
              \/ UNCHANGED sessions        \* the cookie's pending one lives
         ELSE UNCHANGED sessions
    /\ UNCHANGED <<Credentials, step, CodeVars, KeyVars, Ceremonies>>

(* issue_basic_auth_session_and_continue *)
BasicLogin(c) ==
    /\ At(c, "login")
    /\ Done(c)
    /\ IF Rechecked(req[c], FALSE) /\ HasCapacity
         THEN sessions' = Opened(req[c].token, "basic", req[c].saw, 0)
         ELSE UNCHANGED sessions
    /\ UNCHANGED <<Credentials, step, CodeVars, KeyVars, Ceremonies>>

-----------------------------------------------------------------------------
(* verify_2fa_api: the pending cookie is looked up, then the code is       *)
(* matched and the pending session exchanged under one read lock.          *)
Verify(c) ==
    /\ Idle(c)
    /\ \E p \in Of("pending"), t \in Token :
          /\ Unheld(t)
          /\ Goes(c, [kind |-> "verify", holds |-> {p, t}, token |-> t, binding |-> p])
    /\ UNCHANGED <<Credentials, sessions, step, CodeVars, KeyVars, Ceremonies>>

ExchangePending(c) ==
    /\ At(c, "verify")
    /\ TwoFactor(auth)
    /\ req[c].binding \in Of("pending")
    /\ HasCapacity
    /\ \E S \in Matching : Accept(auth.totp, S)
    /\ sessions' = Exchanged(req[c].binding, req[c].token, auth.totp)
    /\ Done(c)
    /\ UNCHANGED <<Credentials, step, KeyVars, Ceremonies>>

FailedOnce(p) == IF p.failed + 1 >= MaxAttempts2FA THEN Free
                                                  ELSE [p EXCEPT !.failed = @ + 1]

(* A full store answers 503 and consumes nothing; a wrong or replayed code *)
(* is counted against the pending session (record_failed_attempt).         *)
RejectCode(c) ==
    /\ At(c, "verify")
    /\ Done(c)
    /\ LET p == req[c].binding IN
       IF p \in Of("pending") /\ (HasCapacity \/ ~TwoFactor(auth))
         THEN sessions' = [sessions EXCEPT ![p] = FailedOnce(@)]
         ELSE UNCHANGED sessions
    /\ UNCHANGED <<Credentials, step, CodeVars, KeyVars, Ceremonies>>

(* start_authentication: the keys known now are offered, to a pending     *)
(* login or to a full session of the settings.                             *)
Offers(t) ==
    /\ TwoFactor(auth)
    /\ https /\ keys # {}
    /\ asserting' = [asserting EXCEPT ![t] = keys]
    /\ UNCHANGED <<Credentials, sessions, step, CodeVars, KeyVars, enrolling, req>>

OfferToLogin(t)    == sessions[t].kind = "pending" /\ Offers(t)
OfferToSettings(t) == sessions[t].kind = "full" /\ Offers(t)

(* finish_authentication up to take_authentication: the ceremony is used   *)
(* up whatever follows.  `t` is the session the request will open or       *)
(* confirm.                                                                *)
TakeAssertion(c, b, t) ==
    /\ Idle(c)
    /\ TwoFactor(auth)
    /\ \E k \in asserting[b] :
          Goes(c, [kind |-> "assert", holds |-> {b, t}, token |-> t, binding |-> b, key |-> k])
    /\ asserting' = [asserting EXCEPT ![b] = {}]
    /\ UNCHANGED <<Credentials, sessions, step, CodeVars, KeyVars, enrolling>>

AssertLogin(c)    == \E b \in Of("pending"), t \in Token : Unheld(t) /\ TakeAssertion(c, b, t)
AssertSettings(c) == \E b \in Of("full") : TakeAssertion(c, b, b)

(* Once the assertion is recorded: exchange_pending_for_passkey, *)
FinishPasskeyLogin(c) ==
    /\ At(c, "asserted") /\ req[c].token # req[c].binding
    /\ Done(c)
    /\ sessions' = IF req[c].binding \in Of("pending") /\ HasCapacity
                     THEN Exchanged(req[c].binding, req[c].token, auth.totp) ELSE sessions
    /\ UNCHANGED <<Credentials, step, CodeVars, KeyVars, Ceremonies>>

(* or confirm_sensitive_action *)
FinishPasskeyConfirm(c) ==
    /\ At(c, "asserted") /\ req[c].token = req[c].binding
    /\ Done(c)
    /\ sessions' = IF req[c].binding \in Of("full") THEN Confirmed(req[c].binding) ELSE sessions
    /\ UNCHANGED <<Credentials, step, CodeVars, KeyVars, Ceremonies>>

-----------------------------------------------------------------------------
(* confirm_settings: the password or a code is checked under the read lock *)
(* and the session is confirmed after it.                                  *)
Confirm(c) ==
    /\ Idle(c)
    /\ \E t \in Of(ConfirmKind) : Starts(c, "confirm", t, auth.pw)
    /\ IF TwoFactor(auth) THEN \E S \in Matching : Accept(auth.totp, S)
                          ELSE UNCHANGED CodeVars
    /\ UNCHANGED <<Credentials, sessions, step, KeyVars, Ceremonies>>

FinishConfirm(c) ==
    /\ At(c, "confirm")
    /\ Done(c)
    /\ sessions' = IF Live(req[c].token) THEN Confirmed(req[c].token) ELSE sessions
    /\ UNCHANGED <<Credentials, step, CodeVars, KeyVars, Ceremonies>>

-----------------------------------------------------------------------------
(* Passkeys.  Both changes need a confirmed full session. *)

StartEnrolment(t) ==
    /\ TwoFactor(auth) /\ t \in Of("full") /\ sessions[t].confirmed
    /\ https /\ Cardinality(keys) < MaxPasskeys
    /\ enrolling' = [enrolling EXCEPT ![t] = TRUE]
    /\ UNCHANGED <<Credentials, sessions, step, CodeVars, KeyVars, asserting, req>>

(* The authenticator answers with a fresh credential of this ceremony. *)
InCeremony == {k \in Passkey : \E d \in Client :
                  req[d].kind \in {"enrol", "waits"} /\ req[d].key = k}
Enrol(c) ==
    /\ Idle(c)
    /\ \E t \in Of("full"), k \in Passkey \ (keys \cup keyFile \cup removed \cup InCeremony) :
          /\ enrolling[t] /\ sessions[t].confirmed
          /\ enrolling' = [enrolling EXCEPT ![t] = FALSE]
          /\ Goes(c, [kind |-> "enrol", holds |-> {t}, token |-> t, key |-> k])
    /\ UNCHANGED <<Credentials, sessions, step, CodeVars, KeyVars, asserting>>

RemovePasskey(c) ==
    /\ Idle(c)
    /\ TwoFactor(auth)
    /\ \E t \in Of("full"), k \in keys :
          /\ sessions[t].confirmed
          /\ Goes(c, [kind |-> "remove", holds |-> {t}, token |-> t, key |-> k])
    /\ UNCHANGED <<Credentials, sessions, step, CodeVars, KeyVars, Ceremonies>>

(* commit_locked: the change is made on a copy taken under mutation_lock,  *)
(* written, and published.  The task goes on when its caller has gone.     *)
OnceChecked == FALSE
FullByNow == Cardinality(keys) >= MaxPasskeys

Refused(r) ==
    CASE r.kind = "enrol"  -> \/ ~(Live(r.token) /\ sessions[r.token].confirmed)
                              \/ FullByNow
                              \/ r.key \in keys
      [] r.kind = "remove" -> r.key \notin keys
      [] r.kind = "assert" -> r.key \notin keys

ChangedKeys(r) ==
    CASE r.kind = "enrol"  -> keys \cup {r.key}
      [] r.kind = "remove" -> keys \ {r.key}
      [] r.kind = "assert" -> keys           \* its counter moves, if anything

NoChangeRunning == commit.kind = "none"
NoLock == TRUE
MayCommit == NoChangeRunning

RefuseCommit(c) ==
    /\ req[c].kind \in {"enrol", "remove", "assert"}
    /\ MayCommit
    /\ Refused(req[c])
    /\ Done(c)
    /\ UNCHANGED <<Credentials, sessions, step, CodeVars, KeyVars, Ceremonies>>

BeginCommit(c) ==
    /\ req[c].kind \in {"enrol", "remove", "assert"}
    /\ MayCommit
    /\ ~Refused(req[c])
    /\ commit' = [kind |-> req[c].kind, next |-> ChangedKeys(req[c]), key |-> req[c].key,
                  caller |-> c, written |-> FALSE]
    /\ Goes(c, [req[c] EXCEPT !.kind = "waits"])
    /\ UNCHANGED <<Credentials, sessions, step, CodeVars, keys, keyFile, removed, Ceremonies>>

(* An assertion that changes no counter is not written at all. *)
WritePasskeys ==
    /\ commit.kind # "none" /\ ~commit.written
    /\ keyFile' = commit.next
    /\ commit' = [commit EXCEPT !.written = TRUE]
    /\ UNCHANGED <<Credentials, sessions, step, CodeVars, keys, removed, Ceremonies, req>>

Waits == req[commit.caller].kind = "waits"

WriteFails ==
    /\ commit.kind # "none" /\ ~commit.written
    /\ commit' = NoWork
    /\ IF Waits THEN Done(commit.caller) ELSE UNCHANGED req
    /\ UNCHANGED <<Credentials, sessions, step, CodeVars, keys, keyFile, removed, Ceremonies>>

Publish ==
    /\ commit.kind # "none" /\ (commit.written \/ commit.kind = "assert")
    /\ keys' = IF commit.written THEN commit.next ELSE keys
    /\ commit' = NoWork
    /\ removed' = IF commit.kind = "remove" THEN removed \cup {commit.key} ELSE removed
    /\ IF ~Waits THEN UNCHANGED req
       ELSE IF commit.kind = "assert"
              THEN Goes(commit.caller, [req[commit.caller] EXCEPT !.kind = "asserted"])
              ELSE Done(commit.caller)
    /\ UNCHANGED <<Credentials, sessions, step, CodeVars, keyFile, Ceremonies>>

-----------------------------------------------------------------------------
(* Settings transactions: one at a time under settings_write_lock, in a    *)
(* task of their own.  All three check the current password against        *)
(* `auth`, which only such a transaction replaces.                         *)

ConfirmedSomewhere == \E t \in Of(ConfirmKind) : sessions[t].confirmed
NoChangeHeld == change.kind = "none"

ChangeTo(kind, next, proof) ==
    change' = [kind |-> kind, stage |-> "persist", next |-> next, proof |-> proof]

(* settings_confirmation_error_for_sensitive_action: a confirmed session,  *)
(* or the password (Basic) or a fresh code (2FA) inline, which then        *)
(* confirms the session the request came with.                             *)
InlineConfirmed ==
    \/ /\ ConfirmedSomewhere
       /\ UNCHANGED <<sessions, CodeVars>>
    \/ /\ IF TwoFactor(auth) THEN \E S \in Matching : Accept(auth.totp, S)
                             ELSE UNCHANGED CodeVars
       /\ \/ \E t \in Of(ConfirmKind) : sessions' = Confirmed(t)
          \/ UNCHANGED sessions        \* it ended while the request waited for the lock

ChangePassword ==
    /\ NoChangeHeld /\ gen < MaxGen
    /\ InlineConfirmed
    /\ ChangeTo("password", [auth EXCEPT !.pw = gen + 1], {})
    /\ UNCHANGED <<https, auth, saved, gen, step, KeyVars, Ceremonies, req>>

(* The code that proves a new secret is spent at once, *)
EnableTwoFactor ==
    /\ NoChangeHeld /\ gen < MaxGen /\ ~TwoFactor(auth)
    /\ \E S \in Matching :
          /\ Accept(gen + 2, S)
          /\ ChangeTo("enable", [auth EXCEPT !.totp = gen + 2], {})
    /\ UNCHANGED <<https, auth, saved, gen, sessions, step, KeyVars, Ceremonies, req>>

(* but that of a rotation only at the swap, since the confirmation with    *)
(* the old secret may have spent the same steps.                           *)
RotateSecret ==
    /\ NoChangeHeld /\ gen < MaxGen /\ TwoFactor(auth)
    /\ InlineConfirmed
    /\ \E S \in Matching : ChangeTo("rotate", [auth EXCEPT !.totp = gen + 2], S)
    /\ UNCHANGED <<https, auth, saved, gen, step, KeyVars, Ceremonies, req>>

DisableTwoFactor ==
    /\ NoChangeHeld /\ gen < MaxGen /\ TwoFactor(auth)
    /\ InlineConfirmed
    /\ ChangeTo("disable", [auth EXCEPT !.totp = 0], {})
    /\ UNCHANGED <<https, auth, saved, gen, step, KeyVars, Ceremonies, req>>

(* Only the keys of its own section are edited in the file. *)
Edited == IF change.kind = "password" THEN [saved EXCEPT !.pw = change.next.pw]
                                      ELSE [saved EXCEPT !.totp = change.next.totp]

PersistChange ==
    /\ change.kind # "none" /\ change.stage = "persist"
    /\ \/ saved' = Edited /\ change' = [change EXCEPT !.stage = "swap"]
       \/ UNCHANGED saved /\ change' = NoWork
    /\ UNCHANGED <<https, auth, gen, sessions, step, CodeVars, KeyVars, Ceremonies, req>>

(* The write lock: revoke, mark the proof of a rotation, swap, clear. *)
ProofSpent(S) == IF Unused(S) THEN Marked(S) ELSE used
ProofKept(S)  == used
SpendsProof(S) == ProofSpent(S)

SwapCredentials ==
    /\ change.kind # "none" /\ change.stage = "swap"
    /\ auth' = change.next
    /\ gen' = gen + 1
    /\ sessions' = Cleared
    /\ used' = SpendsProof(change.proof)
    /\ shown' = shown \cup Shows(change.next.totp, change.proof)
    /\ change' = IF change.kind \in {"enable", "rotate"} THEN [change EXCEPT !.stage = "mint"]
                                                         ELSE NoWork
    /\ UNCHANGED <<https, saved, step, replays, KeyVars, Ceremonies, req>>

(* create_authenticated for the browser that enabled 2FA, with the write  *)
(* lock released but settings_write_lock still held.                       *)
MintSession ==
    /\ change.kind # "none" /\ change.stage = "mint"
    /\ change' = NoWork
    /\ IF HasCapacity
         THEN \E t \in Token :
                 /\ Unheld(t)
                 /\ sessions' = Opened(t, "full", change.next.pw, change.next.totp)
         ELSE UNCHANGED sessions
    /\ UNCHANGED <<https, auth, saved, gen, step, CodeVars, KeyVars, Ceremonies, req>>

-----------------------------------------------------------------------------
(* The environment. *)

(* A session ends: its time is over, or its user logs out. *)
LogOut(t) ==
    /\ Live(t)
    /\ sessions' = [sessions EXCEPT ![t] = Free]
    /\ UNCHANGED <<Credentials, step, CodeVars, KeyVars, Ceremonies, req>>

(* A confirmation or a ceremony runs out. *)
Expire(t) ==
    /\ \/ Live(t) /\ sessions[t].confirmed
          /\ sessions' = [sessions EXCEPT ![t].confirmed = FALSE] /\ UNCHANGED Ceremonies
       \/ (asserting[t] # {} \/ enrolling[t])
          /\ asserting' = [asserting EXCEPT ![t] = {}]
          /\ enrolling' = [enrolling EXCEPT ![t] = FALSE] /\ UNCHANGED sessions
    /\ UNCHANGED <<Credentials, step, CodeVars, KeyVars, req>>

(* The client of a request goes away: its handler is dropped where it      *)
(* waits; what it handed to a task of its own goes on.                     *)
HangUp(c) ==
    /\ req[c].kind \notin {"none", "enrol", "remove", "assert", "waits"}
    /\ Done(c)
    /\ UNCHANGED <<Credentials, sessions, step, CodeVars, KeyVars, Ceremonies>>

NextStep ==
    /\ step < MaxStep
    /\ ~https
    /\ step' = step + 1
    /\ UNCHANGED <<Credentials, sessions, CodeVars, KeyVars, Ceremonies, req>>

(* The server stops anywhere and starts again from its files. *)
RestartServer ==
    /\ gen < MaxGen
    /\ auth' = saved
    /\ keys' = keyFile
    /\ gen' = gen + 1
    /\ sessions' = Cleared
    /\ used' = [s \in Steps |-> 0]
    /\ shown' = {}
    /\ commit' = NoWork /\ change' = NoWork
    /\ req' = [c \in Client |-> NoWork]
    /\ asserting' = [t \in Token |-> {}]
    /\ enrolling' = [t \in Token |-> FALSE]
    /\ UNCHANGED <<https, saved, step, keyFile, replays, removed>>

AdminNext ==
    \/ \E c \in Client :
          \/ Authorize(c) \/ Redirect(c) \/ BasicLogin(c)
          \/ Verify(c) \/ ExchangePending(c) \/ RejectCode(c)
          \/ AssertLogin(c) \/ AssertSettings(c)
          \/ FinishPasskeyLogin(c) \/ FinishPasskeyConfirm(c)
          \/ Confirm(c) \/ FinishConfirm(c)
          \/ Enrol(c) \/ RemovePasskey(c) \/ RefuseCommit(c) \/ BeginCommit(c)
          \/ HangUp(c)
    \/ \E t \in Token : OfferToLogin(t) \/ OfferToSettings(t) \/ StartEnrolment(t)
                        \/ LogOut(t) \/ Expire(t)
    \/ WritePasskeys \/ WriteFails \/ Publish
    \/ ChangePassword \/ EnableTwoFactor \/ RotateSecret \/ DisableTwoFactor
    \/ PersistChange \/ SwapCredentials \/ MintSession
    \/ NextStep \/ RestartServer

AdminSpec == AdminInit /\ [][AdminNext]_adminVars

-----------------------------------------------------------------------------
(* Sessions are well formed and the budgets are kept, of sessions and of   *)
(* passkeys, even though they are checked in one critical section and      *)
(* sessions and passkeys are added in another handler's (add_credential).  *)
AdminTypeOK ==
    /\ gen \in Gens /\ step \in 0 .. MaxStep
    /\ {auth, saved} \subseteq Auths
    /\ sessions \in [Token -> {Free} \cup
          [kind : {"pending", "full", "basic"}, under : Auths,
           failed : 0 .. MaxAttempts2FA - 1, confirmed : BOOLEAN]]
    /\ used \in [Steps -> 0 .. MaxStep + ReplayRetention]
    /\ {keys, keyFile, removed} \subseteq SUBSET Passkey
    /\ Cardinality(Of("full") \cup Of("basic")) <= MaxSessions
    /\ Cardinality(Of("pending")) <= MaxPending
    /\ Cardinality(keys) <= MaxPasskeys

(* No session, finished or pending, outlives the credentials it was        *)
(* obtained with.  The password its handler checked before the locks were  *)
(* given up and taken again (authorize_readonly_request, then              *)
(* issue_two_factor_redirect or issue_basic_auth_session_and_continue,     *)
(* then verify_2fa_api) is still the one in force, so is the secret its    *)
(* second factor was proved with, and its kind fits them.                  *)
SessionsFollowCredentials ==
    \A t \in Token : Live(t) =>
       /\ sessions[t].under.pw = auth.pw
       /\ sessions[t].kind = "full" => sessions[t].under.totp = auth.totp
       /\ (sessions[t].kind = "basic") = ~TwoFactor(auth)

(* Between two restarts no code opens or confirms anything twice: a code   *)
(* accepted for a login, a confirmation or as the proof of a new secret is *)
(* refused for as long as the drift window would let it match again.       *)
CodesOpenOnce == replays = 0

(* A passkey whose removal was acknowledged never comes back, neither in   *)
(* memory nor in the file a restart would read, and outside a commit the   *)
(* two agree.                                                              *)
PasskeysStayRemoved ==
    /\ removed \cap (keys \cup keyFile) = {}
    /\ commit.kind = "none" => keys = keyFile

(* Factors stay spent and removed: no code serves twice and no removed     *)
(* passkey comes back, whichever requests cross (the replay window under   *)
(* the lock of auth.rs, the revision checks of passkeys.rs).               *)
FactorsStaySpent == CodesOpenOnce /\ PasskeysStayRemoved

=============================================================================
