------------------------ MODULE ConnectionAdmission ------------------------
(***************************************************************************)
(* How an agent's connection gets into the server: the /ws and             *)
(* /ws/preflight endpoints check the block of the client's address and     *)
(* take a connection slot (ws.rs, admission.rs), the socket has to say     *)
(* hello in time, and the token of the hello is verified against the       *)
(* registry (ws/handshake.rs, registry/auth.rs) while administrators edit  *)
(* it.  Verifying a hash is slow: it runs outside every lock, a few at a   *)
(* time, and its verdict counts only if the credential of the node is      *)
(* still the one that was read.                                            *)
(*                                                                         *)
(* One node; secrets are its tokens, and a hash is the secret it is of.    *)
(* The registry is the sequence of the node's credentials, one per         *)
(* revision: the newest is what memory serves.                             *)
(***************************************************************************)
EXTENDS AuthFailures

CONSTANTS Conn,             \* sockets that may be open at a time
          Addr,             \* addresses
          Trusted,          \* the addresses of trusted proxies
          NoAddr,           \* no address
          Secret,           \* the node's tokens
          NoSecret,         \* no token
          MaxTotal,         \* ws.max_total_connections
          MaxPerAddr,       \* ws.max_connections_per_ip
          MaxAttempts,      \* ws.auth_fail_max_attempts
          HashLimit,        \* parallel token verifications
          CacheSize,        \* TOKEN_CACHE_CAPACITY
          MaxEdits          \* bound: edits of the registry

ASSUME ConnectionAdmissionAssumption ==
    /\ Trusted \subseteq Addr /\ NoAddr \notin Addr /\ NoSecret \notin Secret
    /\ {MaxTotal, MaxPerAddr, MaxAttempts, HashLimit, CacheSize}
         \subseteq Nat \ {0}
    /\ MaxEdits \in Nat /\ IsFiniteSet(Conn)

VARIABLES slots,     \* the connection counters of the two controllers
          failures,  \* the failures of addresses (of ws_admission only)
          conn,      \* the sockets
          known,     \* the node's credential at each revision
          edits,     \* edits the administrators may still make
          cache,     \* verified pairs, the most recently used first
          held,      \* ghost: who was under way when an address was blocked
          late       \* ghost: failures of an address since it was blocked

admissionVars == <<slots, failures, conn, known, edits, cache, held, late>>

Kind == {"agent", "preflight"}

(* -------------------------- the client's address ---------------------- *)

\* A header chain that does not parse is as good as none.
Garbled == "garbled"
Chains == {<<>>} \union {<<x>> : x \in Addr \union {Garbled}} \union (Addr \X Addr)

Untrusted(a) == a \notin Trusted

\* The last address of the chain that no trusted proxy wrote for itself.
Forwarded(chain) ==
    LET outside == SelectSeq(chain, Untrusted) IN
    IF Garbled \in Range(chain) \/ outside = <<>> THEN NoAddr ELSE Last(outside)

\* Only what a trusted proxy says about the client is believed.
ClientOf(peer, chain, real) ==
    IF Untrusted(peer) THEN peer
    ELSE IF Forwarded(chain) # NoAddr THEN Forwarded(chain)
    ELSE IF real \in Addr THEN real ELSE peer

ClientAddr == {ClientOf(peer, chain, real) :
             peer \in Addr, chain \in Chains, real \in Addr \union {Garbled}}

(* ------------------------- connection slots --------------------------- *)

\* The preflight controller has its own counters and smaller limits.
TotalLimit(k) == IF k = "preflight" /\ MaxTotal > 16 THEN 16 ELSE MaxTotal
AddrLimit(k)  == IF k = "preflight" /\ MaxPerAddr > 2 THEN 2 ELSE MaxPerAddr

ActiveOf(k, a) == IF a \in DOMAIN slots[k].byAddr THEN slots[k].byAddr[a] ELSE 0

TotalOnly(k, a) == slots[k].total < TotalLimit(k)
AddressOnly(k, a) == ActiveOf(k, a) < AddrLimit(k)
Fits(k, a) == slots[k].total < TotalLimit(k) /\ ActiveOf(k, a) < AddrLimit(k)

SlotTaken(k, a) ==
    [slots EXCEPT ![k] =
        [total |-> @.total + 1,
         byAddr |-> [x \in DOMAIN @.byAddr \union {a} |->
                        IF x = a THEN ActiveOf(k, a) + 1 ELSE @.byAddr[x]]]]

LosesTheTotal(k, a) ==
    [slots EXCEPT ![k].byAddr = Restrict(@, {x \in DOMAIN @ : x # a})]

\* The permit is dropped with the task of its socket.
SlotGivenBack(k, a) ==
    LET left == [slots[k].byAddr EXCEPT ![a] = @ - 1] IN
    [slots EXCEPT ![k] = [total |-> @.total - 1,
                          byAddr |-> Restrict(left, {x \in DOMAIN left : left[x] > 0})]]

(* ---------------------------- the sockets ----------------------------- *)

\* Where a socket is.  From "upgrade" on it holds a slot.
Stage == {"free", "asked", "upgrade", "hello", "read", "verify", "queued",
          "hash", "recheck", "session", "closing"}
Holding == Stage \ {"free", "asked"}

\* token: the one of the hello; tried: lookups begun; seen: the credential
\* that was looked up; left: its hashes still to verify; ok: the verdict;
\* rev: the revision the socket was authorized at.
FreeConn == [stage |-> "free", kind |-> "agent", addr |-> NoAddr,
             token |-> NoSecret, tried |-> 0, seen |-> <<>>, left |-> <<>>,
             ok |-> FALSE, rev |-> 0]

\* The hashes of an entry, the current token's first; none: no such node.
Credential == {<<>>} \union {<<s>> : s \in Secret}
                     \union {p \in Secret \X Secret : p[1] # p[2]}

Entry == Last(known)

TypeOfConn(r) ==
    /\ r.stage \in Stage /\ r.kind \in Kind /\ r.addr \in Addr \union {NoAddr}
    /\ r.token \in Secret \union {NoSecret} /\ r.tried \in 0..2
    /\ r.seen \in Credential /\ IsSuffix(r.left, r.seen) /\ r.ok \in BOOLEAN
    /\ r.rev \in 0..MaxEdits + 1

UnderWay(a) == {c \in Conn : conn[c].addr = a /\
                              conn[c].stage \notin {"free", "session", "closing"}}

AdmissionInit ==
    /\ slots = [k \in Kind |-> [total |-> 0, byAddr |-> <<>>]]
    /\ failures = <<>>
    /\ conn = [c \in Conn |-> FreeConn]
    /\ known \in {<<e>> : e \in Credential}
    /\ edits \in 0..MaxEdits
    /\ cache = <<>>
    /\ held = [a \in Addr |-> {}] /\ late = [a \in Addr |-> 0]

\* A failure is always recorded in ws_admission, whichever endpoint it is of.
\* What the ghosts note: a block begins, a failure comes during it, or it is
\* over (lifted by a success, by the clock or by the limit of the table).
FailuresBecome(table, a) ==
    /\ failures' = table
    /\ held' = [x \in Addr |-> IF ~IsBlocked(table, x) THEN {}
                               ELSE IF IsBlocked(failures, x) THEN held[x]
                               ELSE {c \in UnderWay(x) : conn'[c].stage # "closing"}]
    /\ late' = [x \in Addr |-> IF ~IsBlocked(table, x) THEN 0
                               ELSE IF IsBlocked(failures, x) /\ x = a THEN late[x] + 1
                               ELSE late[x]]

Becomes(c, r) == conn' = [conn EXCEPT ![c] = r]
Closing(c) == [FreeConn EXCEPT !.stage = "closing", !.kind = conn[c].kind,
                               !.addr = conn[c].addr]

Fail(c) ==
    LET a == conn[c].addr IN
    /\ Becomes(c, Closing(c))
    /\ \E table \in AfterFailure(failures, a, MaxAttempts) : FailuresBecome(table, a)

(* ------------------------------ entering ------------------------------ *)

\* The endpoint checks the address's block in ws_admission ...
SkipsTheBlock(k, a) == k = "preflight" \/ ~IsBlocked(failures, a)
NotBarred(k, a) == ~IsBlocked(failures, a)

Ask(c) ==
    \E k \in Kind, a \in ClientAddr :
        /\ conn[c].stage = "free"
        /\ failures' = AfterCheck(failures, a)
        /\ IF NotBarred(k, a)
           THEN Becomes(c, [FreeConn EXCEPT !.stage = "asked", !.kind = k, !.addr = a])
           ELSE UNCHANGED conn
        /\ UNCHANGED <<slots, known, edits, cache, held, late>>

\* ... and then takes a slot of its own controller, which for agents checks
\* the block again under the same lock.
Acquire(c) ==
    LET k == conn[c].kind  a == conn[c].addr IN
    /\ conn[c].stage = "asked"
    /\ failures' = IF k = "agent" THEN AfterCheck(failures, a) ELSE failures
    /\ IF (k = "agent" => ~IsBlocked(failures, a)) /\ Fits(k, a)
       THEN /\ Becomes(c, [conn[c] EXCEPT !.stage = "upgrade"])
            /\ slots' = SlotTaken(k, a)
       ELSE Becomes(c, FreeConn) /\ UNCHANGED slots
    /\ UNCHANGED <<known, edits, cache, held, late>>

Upgrade(c) ==
    /\ conn[c].stage = "upgrade"
    /\ Becomes(c, [conn[c] EXCEPT !.stage = "hello"])
    /\ UNCHANGED <<slots, failures, known, edits, cache, held, late>>

\* A socket is gone: the peer left before the upgrade, the session is over,
\* or the answer to a refused or a preflight socket has been sent.
End(c) ==
    /\ conn[c].stage \in {"upgrade", "session", "closing"}
    /\ slots' = SlotGivenBack(conn[c].kind, conn[c].addr)
    /\ Becomes(c, FreeConn)
    /\ UNCHANGED <<failures, known, edits, cache, held, late>>

Hello(c) ==
    /\ conn[c].stage = "hello"
    /\ \E s \in Secret : Becomes(c, [conn[c] EXCEPT !.stage = "read", !.token = s])
    /\ UNCHANGED <<slots, failures, known, edits, cache, held, late>>

\* No hello in time, something else than a hello, a version that is not
\* supported: each counts as a failure.
HelloFails(c) ==
    /\ conn[c].stage = "hello"
    /\ Fail(c)
    /\ UNCHANGED <<slots, known, edits, cache>>

(* ------------------------------ verifying ----------------------------- *)

ReadEntry(c) ==
    /\ conn[c].stage = "read"
    /\ IF Entry = <<>> THEN Fail(c)
       ELSE /\ Becomes(c, [conn[c] EXCEPT !.stage = "verify", !.seen = Entry,
                                          !.left = Entry, !.ok = FALSE])
            /\ UNCHANGED <<failures, held, late>>
    /\ UNCHANGED <<slots, known, edits, cache>>

Pair(c) == <<conn[c].token, Head(conn[c].left)>>
Verdict(pair) == pair[1] = pair[2]

\* The verdict on the first hash left: done, or on to the next hash.
Judged(c) ==
    IF Verdict(Pair(c)) THEN [conn[c] EXCEPT !.stage = "recheck", !.left = <<>>,
                                             !.ok = TRUE]
    ELSE [conn[c] EXCEPT !.stage = IF Len(conn[c].left) = 1 THEN "recheck" ELSE "verify",
                         !.left = Tail(@)]

Used(pair) == <<pair>> \o SelectSeq(cache, LAMBDA p : p # pair)

Lookup(c) ==
    /\ conn[c].stage \in {"verify", "queued"}
    /\ Pair(c) \in Range(cache)
    /\ conn[c].stage = "queued" =>
         Cardinality({d \in Conn : conn[d].stage = "hash"}) < HashLimit
    /\ Becomes(c, Judged(c)) /\ cache' = Used(Pair(c))
    /\ UNCHANGED <<slots, failures, known, edits, held, late>>

Miss(c) ==
    /\ conn[c].stage = "verify" /\ Pair(c) \notin Range(cache)
    /\ Becomes(c, [conn[c] EXCEPT !.stage = "queued"])
    /\ UNCHANGED <<slots, failures, known, edits, cache, held, late>>

\* With a permit the cache is looked at once more, and then the hash is run.
StartHash(c) ==
    /\ conn[c].stage = "queued" /\ Pair(c) \notin Range(cache)
    /\ Cardinality({d \in Conn : conn[d].stage = "hash"}) < HashLimit
    /\ Becomes(c, [conn[c] EXCEPT !.stage = "hash"])
    /\ UNCHANGED <<slots, failures, known, edits, cache, held, late>>

Hashed(c) ==
    /\ conn[c].stage = "hash"
    /\ Becomes(c, Judged(c))
    /\ cache' = SubSeq(Used(Pair(c)), 1,
                       IF Len(Used(Pair(c))) < CacheSize THEN Len(Used(Pair(c)))
                                                         ELSE CacheSize)
    /\ UNCHANGED <<slots, failures, known, edits, held, late>>

CacheExpires ==
    /\ \E p \in Range(cache) : cache' = SelectSeq(cache, LAMBDA q : q # p)
    /\ UNCHANGED <<slots, failures, conn, known, edits, held, late>>

AnyMaterial(seen, entry) == TRUE
SameMaterial(seen, entry) == seen = entry

\* The entry is read again, together with the revision.
Rejected(c) ==
    \/ Entry = <<>>
    \/ IF SameMaterial(conn[c].seen, Entry) THEN ~conn[c].ok ELSE conn[c].tried = 1

Refuse(c) ==
    /\ conn[c].stage = "recheck" /\ Rejected(c)
    /\ Fail(c)
    /\ UNCHANGED <<slots, known, edits, cache>>

TryAgain(c) ==
    /\ conn[c].stage = "recheck" /\ ~Rejected(c)
    /\ ~SameMaterial(conn[c].seen, Entry)
    /\ Becomes(c, [conn[c] EXCEPT !.stage = "read", !.tried = @ + 1,
                                  !.seen = <<>>, !.ok = FALSE])
    /\ UNCHANGED <<slots, failures, known, edits, cache, held, late>>

\* The token that matched has expired.
Expired(c) ==
    /\ conn[c].stage = "recheck" /\ ~Rejected(c)
    /\ SameMaterial(conn[c].seen, Entry)
    /\ Fail(c)
    /\ UNCHANGED <<slots, known, edits, cache>>

\* Success forgives the address.  A preflight socket has nothing more to do.
Authorized(c) ==
    /\ conn[c].stage = "recheck" /\ ~Rejected(c)
    /\ SameMaterial(conn[c].seen, Entry)
    /\ Becomes(c, [FreeConn EXCEPT
                     !.stage = IF conn[c].kind = "agent" THEN "session" ELSE "closing",
                     !.kind = conn[c].kind, !.addr = conn[c].addr,
                     !.token = conn[c].token, !.rev = Len(known)])
    /\ FailuresBecome(Forgiven(failures, conn[c].addr), conn[c].addr)
    /\ UNCHANGED <<slots, known, edits, cache>>

(* --------------------------- the environment -------------------------- *)

\* A token is renewed or issued anew, the node is removed or enrolled again,
\* or another node of the registry changes.  Removing a node clears the cache.
EditRegistry ==
    /\ edits > 0
    /\ \E e \in Credential :
          /\ known' = Append(known, e)
          /\ cache' = IF e = <<>> THEN <<>> ELSE cache
    /\ edits' = edits - 1
    /\ UNCHANGED <<slots, failures, conn, held, late>>

PassTime ==
    /\ failures # <<>>
    /\ UNCHANGED <<slots, conn, known, edits, cache>>
    /\ FailuresBecome(Aged(failures), NoAddr)

SocketStep(c) ==
    \/ Ask(c) \/ Acquire(c) \/ Upgrade(c) \/ End(c) \/ Hello(c) \/ HelloFails(c)
    \/ ReadEntry(c) \/ Lookup(c) \/ Miss(c) \/ StartHash(c) \/ Hashed(c)
    \/ Refuse(c) \/ TryAgain(c) \/ Expired(c) \/ Authorized(c)

AroundSockets == CacheExpires \/ EditRegistry \/ PassTime

AdmissionNext == (\E c \in Conn : SocketStep(c)) \/ AroundSockets

AdmissionSpec == AdmissionInit /\ [][AdmissionNext]_admissionVars

(* ----------------------------- properties ----------------------------- *)

\* The type invariant.  The counters of a controller are exactly the sockets
\* that hold one of its permits, whichever way sockets end, and never exceed
\* the limits, of all sockets and of those of an address, however many ask at
\* once (try_acquire, WsConnectionPermit: admission.rs:214-241, 286-290).
AdmissionTypeOK ==
    /\ \A c \in Conn : TypeOfConn(conn[c])
    /\ \A a \in DOMAIN failures : a \in Addr /\ failures[a] \in FailureState
    /\ Cardinality(DOMAIN failures) <= HardLimit
    /\ known \in Seq(Credential) /\ Len(known) + edits <= MaxEdits + 1
    /\ Range(cache) \subseteq Secret \X Secret /\ Len(cache) <= CacheSize
    /\ Cardinality({c \in Conn : conn[c].stage = "hash"}) <= HashLimit
    /\ \A k \in Kind :
          LET all   == {c \in Conn : conn[c].stage \in Holding /\ conn[c].kind = k}
              of(a) == {c \in all : conn[c].addr = a}
          IN /\ slots[k].total = Cardinality(all)
             /\ slots[k].total <= TotalLimit(k)
             /\ \A a \in Addr : /\ ActiveOf(k, a) = Cardinality(of(a))
                                /\ ActiveOf(k, a) <= AddrLimit(k)

\* A blocked address gets no more guesses than it had connections under way
\* when the block began: no endpoint lets a new one in, and none of those
\* answers twice (ws_handler checks the block of ws_admission for both
\* endpoints, whose slots are counted apart).
GuessesAreBounded ==
    \A a \in Addr : late[a] <= Cardinality(held[a])

\* A socket is authorized by a credential that was valid at the revision the
\* session will compare with from then on: an edit of the registry during the
\* slow verification is never missed (match_registered_token).
AuthorizedIsCurrent ==
    \A c \in Conn : conn[c].rev > 0 => conn[c].token \in Range(known[conn[c].rev])

(* Who gets in: not by guessing, and not with a credential that was        *)
(* replaced while it was verified (admission.rs, registry/auth.rs).        *)
AdmissionIsSound == GuessesAreBounded /\ AuthorizedIsCurrent
=============================================================================
