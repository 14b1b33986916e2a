---------------------------- MODULE DeviceTrust ----------------------------
(***************************************************************************)
(* Sessions, trusted devices, their vault-key packets and recovery, for    *)
(* one account of the Worker: the handlers of routes/devices.ts, finishLogin*)
(* of routes/auth.ts, routes/recovery.ts, the session middleware, and the  *)
(* methods of D1VaultStore they call.                                      *)
(*                                                                         *)
(* A handler reads, decides and then writes one db.batch([...]); each read *)
(* that a decision rests on and each batch is one step, so that handlers   *)
(* interleave between them.  The cryptography (OPAQUE, Ed25519, X25519) is *)
(* abstract: a client that starts an exchange can finish it.               *)
(***************************************************************************)
EXTENDS Integers, FiniteSets

CONSTANTS
  Ids,          \* device ids
  Prints,       \* fingerprints
  Keys,         \* device public keys
  Creds,        \* device credentials
  None,         \* NULL
  First,        \* the installation that registered the account
  Installs,     \* what clients that log in present: id, fingerprint, key, credential
  Browsers,     \* what clients that use POST /devices present: fingerprint, key
  Requests,     \* concurrent requests
  Kinds,        \* the kinds of request of this instance
  MaxLogins,    \* bound of the model: login sessions ever started
  MaxAttempts   \* bound of the model: recovery attempts ever started

Install == [id: Ids, print: Prints, key: Keys, cred: Creds \cup {None}]

ASSUME DeviceAssumption ==
  /\ None \notin Ids \cup Prints \cup Keys \cup Creds \cup Requests
  /\ First \in Install /\ First.cred # None
  /\ Installs \subseteq {i \in Install : i.cred # None}
  /\ Browsers \subseteq [print: Prints, key: Keys]
  /\ MaxLogins \in Nat
  /\ MaxAttempts \in Nat

VARIABLES
  authEpoch,   \* users.auth_epoch
  generation,  \* recovery_packets.generation
  device,      \* trusted_devices, per id
  vaultKey,    \* device_vault_keys, per id
  sessions,    \* sessions
  logins,      \* login_sessions
  lastLogin,   \* the login sessions started so far
  attempts,    \* recovery_challenges, with their registration_sessions
  lastAttempt, \* the recovery attempts started so far
  claims,      \* recovery_claims
  req          \* the requests in flight

trust == <<authEpoch, generation, device, vaultKey>>
access == <<sessions, logins, lastLogin>>
recovery == <<attempts, lastAttempt, claims>>
vars == <<trust, access, recovery, req>>

----------------------------------------------------------------------------
(* The rows.                                                                *)

Status == {"none", "pending", "approved", "rejected", "revoked"}
Device == [status: Status, print: Prints \cup {None}, key: Keys \cup {None},
           cred: Creds \cup {None}]
NoRow == [status |-> "none", print |-> None, key |-> None, cred |-> None]
Row(status, i) == [status |-> status, print |-> i.print, key |-> i.key, cred |-> i.cred]

\* A packet is encrypted for one public key, by the request that brings it
\* (None: by the device itself, when it registers or recovers the account).
Packet == [key: Keys \cup {None}, by: Requests \cup {None}]
NoPacket == [key |-> None, by |-> None]
OwnPacket(i) == [key |-> i.key, by |-> None]

\* A session is known by the login it was minted from: a login session is
\* consumed once.  The session of the registration is login 0.
\* A recovery attempt is open as long as its registration session exists.
Session == [login: Nat, device: Ids \cup {None}, epoch: Nat]
Login == [id: Nat, epoch: Nat]
Attempt == [id: Nat, epoch: Nat, gen: Nat, open: BOOLEAN]

Active(status) == status \in {"pending", "approved"}

\* The two partial unique indexes of migration 0007.
ActiveUnique(devices) ==
  \A a, b \in Ids :
    a # b /\ Active(devices[a].status) /\ Active(devices[b].status) =>
      devices[a].key # devices[b].key /\ devices[a].print # devices[b].print

----------------------------------------------------------------------------
(* The requests.                                                            *)

NoInstall == [id |-> None, print |-> None, key |-> None, cred |-> None]
PC == {"idle", "consume", "epoch", "lookup", "authenticate", "find", "register",
       "mint", "target", "approve", "reject", "revoke", "save", "rotate", "recover"}
Request == [pc: PC, kind: Kinds \cup {"none"}, target: Ids \cup {None},
            install: Install \cup {NoInstall}, epoch: Nat, gen: Nat, ticket: Nat,
            existing: Ids \cup {None}, seen: Device]
Idle == [pc |-> "idle", kind |-> "none", target |-> None, install |-> NoInstall,
         epoch |-> 0, gen |-> 0, ticket |-> 0, existing |-> None, seen |-> NoRow]

Goto(r, pc) == req' = [req EXCEPT ![r].pc = pc]
\* The handler returns, with whatever response: the request keeps nothing.
Return(r) == req' = [req EXCEPT ![r] = Idle]

\* The session middleware lets a management request through when the session
\* is of the account's epoch and either unbound or bound to an approved device.
Admitted(s) ==
  /\ s.epoch = authEpoch
  /\ s.device # None => device[s.device].status = "approved"

SessionsOn(ids) == {s \in sessions : s.device \in ids}

----------------------------------------------------------------------------
(* Login: POST /auth/login/start and the device-bound or cookie finish.     *)

\* The insert is guarded by the epoch that was read before it, so that the
\* login session is of the epoch at the insert, or there is none.
StartLogin ==
  /\ Kinds \cap {"login", "cookie"} # {}
  /\ lastLogin < MaxLogins
  /\ lastLogin' = lastLogin + 1
  /\ logins' = logins \cup {[id |-> lastLogin + 1, epoch |-> authEpoch]}
  /\ UNCHANGED <<trust, sessions, recovery, req>>

\* consumeLoginSession reads the row ...
BeginLogin(r) ==
  /\ req[r].pc = "idle"
  /\ \E l \in logins, kind \in Kinds \cap {"login", "cookie"}, i \in Installs :
       req' = [req EXCEPT ![r] = [Idle EXCEPT !.pc = "consume", !.kind = kind,
                 !.ticket = l.id, !.epoch = l.epoch,
                 !.install = IF kind = "login" THEN i ELSE NoInstall]]
  /\ UNCHANGED <<trust, access, recovery>>

\* Mutant: the number of deleted rows is not looked at.
ConsumedAnyway(l) == TRUE

\* ... and DELETE decides which of two twins has consumed it.
Consumed(l) == l \in logins

ConsumeLogin(r) ==
  /\ req[r].pc = "consume"
  /\ LET l == [id |-> req[r].ticket, epoch |-> req[r].epoch]
     IN  /\ logins' = logins \ {l}
         /\ IF Consumed(l) THEN Goto(r, "epoch") ELSE Return(r)
  /\ UNCHANGED <<trust, sessions, lastLogin, recovery>>

CheckEpoch(r) ==
  /\ req[r].pc = "epoch"
  /\ IF req[r].epoch # authEpoch THEN Return(r)
     ELSE IF req[r].kind = "login" THEN Goto(r, "lookup") ELSE Goto(r, "mint")
  /\ UNCHANGED <<trust, access, recovery>>

\* getDevice: a known id authenticates, an unknown one registers.
LookupDevice(r) ==
  /\ req[r].pc = "lookup"
  /\ IF device[req[r].install.id].status = "none"
     THEN Goto(r, "find") ELSE Goto(r, "authenticate")
  /\ UNCHANGED <<trust, access, recovery>>

AuthenticateDevice(r) ==
  /\ req[r].pc = "authenticate"
  /\ LET i == req[r].install
         row == device[i.id]
     IN  IF Active(row.status) /\ row = Row(row.status, i)
         THEN req' = [req EXCEPT ![r].pc = "mint", ![r].target = i.id]
         ELSE Return(r)
  /\ UNCHANGED <<trust, access, recovery>>

\* Mutant: the insert is not guarded by the account's epoch.
MayMintAnyEpoch(q) ==
  q.kind = "login" => Active(device[q.target].status)

\* The SELECT both inserts draw from: the epoch is still the one the password
\* was proved in, and a bound session's device is still pending or approved.
MayMint(q) ==
  /\ q.epoch = authEpoch
  /\ q.kind = "login" => Active(device[q.target].status)

\* Mutant: the session of the device's previous login is not replaced.
ReplacedNever(q) == {}

Replaced(q) == IF q.kind = "login" THEN SessionsOn({q.target}) ELSE {}

\* rotateDeviceSession, or createSession for a cookie login.
MintSession(r) ==
  /\ req[r].pc = "mint"
  /\ IF MayMint(req[r])
     THEN sessions' = (sessions \ Replaced(req[r])) \cup
            {[login |-> req[r].ticket, device |-> req[r].target, epoch |-> req[r].epoch]}
     ELSE UNCHANGED sessions
  /\ Return(r)
  /\ UNCHANGED <<trust, logins, lastLogin, recovery>>

\* POST /auth/logout, or expiry: of a session, or of a login session.
EndSession ==
  /\ \/ \E s \in sessions : sessions' = sessions \ {s} /\ UNCHANGED logins
     \/ \E l \in logins : logins' = logins \ {l} /\ UNCHANGED sessions
  /\ UNCHANGED <<trust, lastLogin, recovery, req>>

----------------------------------------------------------------------------
(* registerDevice: for an installation that logs in (it brings a credential *)
(* and the epoch of its login), or for POST /devices (it brings neither).   *)

Mobile(q) == q.install.cred # None

Matches(i) == {d \in Ids : /\ device[d].status # "none"
                           /\ device[d].key = i.key \/ device[d].print = i.print}
Rank(d) == CASE device[d].status = "approved" -> 0 [] device[d].status = "pending" -> 1
             [] device[d].status = "revoked" -> 2 [] OTHER -> 3
\* ORDER BY fingerprint, status; rows that tie are told apart by updated_at.
Order(i, d) == (IF device[d].print = i.print THEN 0 ELSE 4) + Rank(d)
BestMatches(i) == {d \in Matches(i) : \A e \in Matches(i) : Order(i, d) <= Order(i, e)}

FindExisting(r) ==
  /\ req[r].pc = "find"
  /\ IF req[r].kind = "login" /\ req[r].epoch # authEpoch THEN Return(r)
     ELSE \E d \in IF Matches(req[r].install) = {} THEN {None}
                   ELSE BestMatches(req[r].install) :
            req' = [req EXCEPT ![r].pc = "register", ![r].existing = d,
                               ![r].seen = IF d = None THEN NoRow ELSE device[d]]
  /\ UNCHANGED <<trust, access, recovery>>

\* Mutant: the id of the row that was registered is dropped.
RegisteredNowhere(r, d) ==
  IF req[r].kind = "login"
  THEN req' = [req EXCEPT ![r].pc = "mint"]
  ELSE Return(r)

\* After the batch a login goes on to its session; POST /devices returns.
Registered(r, d) ==
  IF req[r].kind = "login"
  THEN req' = [req EXCEPT ![r].pc = "mint", ![r].target = d]
  ELSE Return(r)

GuardedByEpoch(q) == q.kind = "login" => q.epoch = authEpoch

\* No row to reuse, or an installation whose caller-chosen id replaces the row
\* it finds: sessions and vault key of that row go with it.  The id is a primary
\* key and the active rows are unique, or the batch is rolled back.
InsertDevice(r) ==
  LET q == req[r]
      old == IF q.existing = None THEN {} ELSE {q.existing}
      cleared == [d \in Ids |-> IF d \in old THEN NoRow ELSE device[d]]
      written == [cleared EXCEPT ![q.install.id] = Row("pending", q.install)]
  IN  /\ q.pc = "register"
      /\ q.existing = None \/ (Mobile(q) /\ q.existing # q.install.id)
      /\ IF /\ GuardedByEpoch(q)
            /\ cleared[q.install.id].status = "none"
            /\ ActiveUnique(written)
         THEN /\ device' = written
              /\ vaultKey' = [d \in Ids |-> IF d \in old THEN NoPacket ELSE vaultKey[d]]
              /\ sessions' = sessions \ SessionsOn(old)
              /\ Registered(r, q.install.id)
         ELSE /\ Return(r)
              /\ UNCHANGED <<device, vaultKey, sessions>>
      /\ UNCHANGED <<authEpoch, generation, logins, lastLogin, recovery>>

NextStatus(q) ==
  IF Mobile(q) \/ q.seen.key # q.install.key THEN "pending" ELSE q.seen.status

\* The row that was found is updated in place, with a status computed from what
\* was read; the other rows of the same key or fingerprint are deleted, their
\* sessions cascading.
UpdateDevice(r) ==
  LET q == req[r]
      reset == Mobile(q) \/ q.seen.key # q.install.key
      others == Matches(q.install) \ {q.existing}
      row == device[q.existing]
      written == [d \in Ids |->
        IF d \in others THEN NoRow
        ELSE IF d = q.existing /\ row.status # "none"
        THEN [status |-> NextStatus(q), print |-> q.install.print, key |-> q.install.key,
              cred |-> IF Mobile(q) THEN q.install.cred ELSE row.cred]
        ELSE device[d]]
      forgotten == IF reset THEN {q.existing} ELSE {}
  IN  /\ q.pc = "register"
      /\ q.existing # None
      /\ ~Mobile(q) \/ q.existing = q.install.id
      /\ IF GuardedByEpoch(q) /\ ActiveUnique(written)
         THEN /\ device' = written
              /\ vaultKey' = [d \in Ids |-> IF d \in forgotten THEN NoPacket ELSE vaultKey[d]]
              /\ sessions' = sessions \ SessionsOn(others \cup forgotten)
              /\ Registered(r, q.existing)
         ELSE /\ Return(r)
              /\ UNCHANGED <<device, vaultKey, sessions>>
      /\ UNCHANGED <<authEpoch, generation, logins, lastLogin, recovery>>

----------------------------------------------------------------------------
(* The management requests: POST /devices and /devices/:id/...              *)

BeginRegister(r) ==
  /\ "register" \in Kinds
  /\ req[r].pc = "idle"
  /\ \E s \in sessions : Admitted(s)
  /\ \E b \in Browsers, id \in Ids :
       /\ device[id].status = "none"  \* crypto.randomUUID()
       /\ req' = [req EXCEPT ![r] = [Idle EXCEPT !.pc = "find", !.kind = "register",
            !.install = [id |-> id, print |-> b.print, key |-> b.key, cred |-> None]]]
  /\ UNCHANGED <<trust, access, recovery>>

\* A device neither approves nor rejects itself.
BeginManage(r) ==
  /\ req[r].pc = "idle"
  /\ \E s \in sessions, kind \in Kinds \cap {"approve", "reject", "revoke", "share"}, d \in Ids :
       /\ Admitted(s)
       /\ kind \in {"approve", "reject"} => s.device # d
       /\ req' = [req EXCEPT ![r] = [Idle EXCEPT !.pc = "target", !.kind = kind, !.target = d]]
  /\ UNCHANGED <<trust, access, recovery>>

\* What a handler does with the row it reads.
Decision(kind, status) ==
  CASE kind = "approve" /\ status = "pending" -> "approve"
    [] kind = "share" /\ status = "pending" -> "approve"
    [] kind = "share" /\ status = "approved" -> "save"
    [] kind = "reject" /\ status = "pending" -> "reject"
    [] kind = "revoke" /\ status # "none" -> "revoke"
    [] OTHER -> "idle"

ReadTarget(r) ==
  /\ req[r].pc = "target"
  /\ LET row == device[req[r].target]
         next == Decision(req[r].kind, row.status)
     IN  IF next = "idle" THEN Return(r)
         ELSE req' = [req EXCEPT ![r].pc = next, ![r].seen = row]
  /\ UNCHANGED <<trust, access, recovery>>

\* The packet must be for the public key the handler has read.
PacketOf(r) == [key |-> req[r].seen.key, by |-> r]

\* Mutant: the packet is written whatever has become of the device.
KeyTargetAny(r) == {d \in Ids : d = req[r].target}

\* INSERT ... SELECT ... WHERE status = 'pending' AND public_key = ?
KeyTarget(r) ==
  {d \in Ids : /\ d = req[r].target
               /\ device[d].status = "pending"
               /\ device[d].key = PacketOf(r).key}

\* approveDeviceWithVaultKey: the packet, and the status where the packet is.
ApproveDevice(r) ==
  /\ req[r].pc = "approve"
  /\ vaultKey' = [d \in Ids |-> IF d \in KeyTarget(r) THEN PacketOf(r) ELSE vaultKey[d]]
  /\ device' = [d \in Ids |->
       IF d = req[r].target /\ device[d].status = "pending" /\ vaultKey'[d] = PacketOf(r)
       THEN [device[d] EXCEPT !.status = "approved"] ELSE device[d]]
  /\ Return(r)
  /\ UNCHANGED <<authEpoch, generation, access, recovery>>

\* saveDeviceVaultKey: an unconditional upsert.
SaveVaultKey(r) ==
  /\ req[r].pc = "save"
  /\ vaultKey' = [vaultKey EXCEPT ![req[r].target] = PacketOf(r)]
  /\ Return(r)
  /\ UNCHANGED <<authEpoch, generation, device, access, recovery>>

\* Mutant: the device's sessions outlive its trust.
SignedOutNobody(d) == {}

SignedOut(d) == SessionsOn({d})

\* rejectDevice and revokeDevice: the status, the sessions and the vault key.
Expel(r, status) ==
  LET d == req[r].target
  IN  /\ device' = IF device[d].status = "none" THEN device
                   ELSE [device EXCEPT ![d].status = status]
      /\ sessions' = sessions \ SignedOut(d)
      /\ vaultKey' = [vaultKey EXCEPT ![d] = NoPacket]
      /\ Return(r)
      /\ UNCHANGED <<authEpoch, generation, logins, lastLogin, recovery>>

RejectDevice(r) == req[r].pc = "reject" /\ Expel(r, "rejected")
RevokeDevice(r) == req[r].pc = "revoke" /\ Expel(r, "revoked")

----------------------------------------------------------------------------
(* Recovery v2.                                                             *)

\* POST /auth/recovery/start.  The registration session, the epoch and the
\* generation come one after the other; an attempt that mixes the states before
\* and after a recovery has lost its registration session to it, so one step does.
StartRecovery ==
  /\ "recover" \in Kinds
  /\ lastAttempt < MaxAttempts
  /\ lastAttempt' = lastAttempt + 1
  /\ attempts' = attempts \cup
       {[id |-> lastAttempt + 1, epoch |-> authEpoch, gen |-> generation, open |-> TRUE]}
  /\ UNCHANGED <<trust, access, claims, req>>

\* POST /auth/recovery/finish: the proof, the challenge and the registration
\* session are checked on what is read first ...
BeginRecover(r) ==
  /\ "recover" \in Kinds
  /\ req[r].pc = "idle"
  /\ \E a \in attempts, i \in Installs :
       /\ a.open
       /\ a.epoch = authEpoch
       /\ a.gen = generation
       /\ req' = [req EXCEPT ![r] = [Idle EXCEPT !.pc = "recover", !.kind = "recover",
            !.ticket = a.id, !.epoch = a.epoch, !.gen = a.gen, !.install = i]]
  /\ UNCHANGED <<trust, access, recovery>>

\* Mutant: the batch trusts what the handler has read, but for the claim.
EligibleByRead(q) == q.ticket \notin claims

\* ... and again by the statement that claims the challenge: an attempt that is
\* not eligible any more, or was claimed, rolls the batch back.
Eligible(q) ==
  /\ [id |-> q.ticket, epoch |-> q.epoch, gen |-> q.gen, open |-> TRUE] \in attempts
  /\ q.epoch = authEpoch
  /\ q.gen = generation
  /\ q.ticket \notin claims

\* finishRecoveryV2: all trust is withdrawn, the epoch and the recovery code move
\* on, every registration session of the account is deleted, and the replacement
\* device is approved with its own packet.
FinishRecovery(r) ==
  LET q == req[r]
      i == q.install
  IN  /\ q.pc = "recover"
      /\ IF Eligible(q)
         THEN /\ authEpoch' = authEpoch + 1
              /\ generation' = generation + 1
              /\ claims' = claims \cup {q.ticket}
              /\ attempts' = {[a EXCEPT !.open = FALSE] : a \in attempts}
              /\ sessions' = {}
              /\ logins' = {}
              /\ device' = [d \in Ids |->
                   IF d = i.id THEN Row("approved", i)
                   ELSE IF device[d].status = "none" THEN NoRow
                   ELSE [device[d] EXCEPT !.status = "revoked", !.cred = None]]
              /\ vaultKey' = [d \in Ids |-> IF d = i.id THEN OwnPacket(i) ELSE NoPacket]
         ELSE UNCHANGED <<trust, sessions, logins, attempts, claims>>
      /\ Return(r)
      /\ UNCHANGED <<lastLogin, lastAttempt>>

\* POST /vault/recovery/rotate: the user and the record are read ...
BeginRotate(r) ==
  /\ "rotate" \in Kinds
  /\ req[r].pc = "idle"
  /\ \E s \in sessions : Admitted(s)
  /\ generation < MaxAttempts + 1
  /\ req' = [req EXCEPT ![r] = [Idle EXCEPT !.pc = "rotate", !.kind = "rotate",
                                !.epoch = authEpoch, !.gen = generation]]
  /\ UNCHANGED <<trust, access, recovery>>

\* ... and rotateRecoveryV2 replaces exactly the generation that was read.
RotateRecovery(r) ==
  /\ req[r].pc = "rotate"
  /\ generation' = IF req[r].gen = generation /\ req[r].epoch = authEpoch
                   THEN generation + 1 ELSE generation
  /\ Return(r)
  /\ UNCHANGED <<authEpoch, device, vaultKey, access, recovery>>

\* cleanupExpiredSessions: an attempt expires, and its claim goes with it.
ExpireAttempt ==
  /\ \E a \in attempts : attempts' = attempts \ {a} /\ claims' = claims \ {a.id}
  /\ UNCHANGED <<trust, access, lastAttempt, req>>

\* The Worker is evicted in the middle of a request, or D1 fails.
Leave(r) ==
  /\ req[r].pc # "idle"
  /\ Return(r)
  /\ UNCHANGED <<trust, access, recovery>>

----------------------------------------------------------------------------
\* createMobileAccount has registered the first device: approved, with its
\* vault key and its session.
Init ==
  /\ authEpoch = 0
  /\ generation = 0
  /\ device = [d \in Ids |-> IF d = First.id THEN Row("approved", First) ELSE NoRow]
  /\ vaultKey = [d \in Ids |-> IF d = First.id THEN OwnPacket(First) ELSE NoPacket]
  /\ sessions = {[login |-> 0, device |-> First.id, epoch |-> 0]}
  /\ logins = {}
  /\ lastLogin = 0
  /\ attempts = {}
  /\ lastAttempt = 0
  /\ claims = {}
  /\ req = [r \in Requests |-> Idle]

FinishLogin(r) ==
  \/ BeginLogin(r)
  \/ ConsumeLogin(r)
  \/ CheckEpoch(r)
  \/ LookupDevice(r)
  \/ AuthenticateDevice(r)
  \/ MintSession(r)

RegisterDevice(r) ==
  \/ BeginRegister(r)
  \/ FindExisting(r)
  \/ InsertDevice(r)
  \/ UpdateDevice(r)

Manage(r) ==
  \/ BeginManage(r)
  \/ ReadTarget(r)
  \/ ApproveDevice(r)
  \/ SaveVaultKey(r)
  \/ RejectDevice(r)
  \/ RevokeDevice(r)

Recover(r) ==
  \/ BeginRecover(r)
  \/ FinishRecovery(r)
  \/ BeginRotate(r)
  \/ RotateRecovery(r)

Next ==
  \/ StartLogin
  \/ EndSession
  \/ StartRecovery
  \/ ExpireAttempt
  \/ \E r \in Requests :
       FinishLogin(r) \/ RegisterDevice(r) \/ Manage(r) \/ Recover(r) \/ Leave(r)

Spec == Init /\ [][Next]_vars

----------------------------------------------------------------------------
(* Properties.                                                              *)

\* The types of the tables and requests; a login that is about to make its session
\* is bound to a device exactly when it presented one (finishLogin).
TypeOK ==
  /\ authEpoch \in Nat
  /\ generation \in Nat
  /\ device \in [Ids -> Device]
  /\ vaultKey \in [Ids -> Packet]
  /\ sessions \subseteq Session
  /\ logins \subseteq Login
  /\ lastLogin \in Nat
  /\ attempts \subseteq Attempt
  /\ lastAttempt \in Nat
  /\ claims \subseteq Nat
  /\ req \in [Requests -> Request]
  /\ \A r \in Requests : req[r].pc = "mint" =>
       /\ req[r].kind \in {"login", "cookie"}
       /\ req[r].kind = "login" <=> req[r].target \in Ids

\* Recovery ends every session and every login begun with the old password: one
\* that is still being finished mints nothing (rotateDeviceSession and
\* createSession select on the epoch; finishRecoveryV2 deletes the rest).
SessionsOfThisEpoch ==
  /\ \A s \in sessions : s.epoch = authEpoch
  /\ \A l \in logins : l.epoch = authEpoch

\* The requests that have consumed a login session and may still mint from it.
Finishing(n) ==
  {r \in Requests : /\ req[r].kind \in {"login", "cookie"}
                    /\ req[r].pc # "consume"
                    /\ req[r].ticket = n}

\* One proof of the password makes at most one session, however many twins of
\* the login finish request run at once (consumeLoginSession).
LoginConsumedOnce ==
  \A n \in 1..lastLogin :
    /\ Cardinality(Finishing(n)) + Cardinality({s \in sessions : s.login = n}) <= 1
    /\ Finishing(n) # {} => \A l \in logins : l.id # n

\* Repeated logins of one installation do not accumulate sessions
\* (rotateDeviceSession inserts and deletes in one batch).
OneSessionPerDevice ==
  \A s, t \in sessions : s.device = t.device /\ s.device # None => s = t

\* A session bound to a device does not outlive the device's trust, whatever
\* login, approval, rejection, revocation or recovery run beside each other.  (POST
\* /devices does break it: it can write back the status of an earlier revocation.)
SessionsOfTrustedDevices ==
  \A s \in sessions : s.device # None => Active(device[s.device].status)

\* An approved device has a packet, for the public key it has (the comment in
\* approveDeviceWithVaultKey: "there is never an approved-without-key crash gap"),
\* and a rejected or revoked one has none.
VaultKeysFollowTrust ==
  \A d \in Ids :
    /\ device[d].status = "approved" =>
         vaultKey[d] # NoPacket /\ vaultKey[d].key = device[d].key
    /\ device[d].status \in {"rejected", "revoked"} => vaultKey[d] = NoPacket

\* One recovery code recovers the account once: of the attempts begun with the
\* same code at most one is claimed (finishRecoveryV2's eligibility).
RecoveryCodeUsedOnce ==
  \A a, b \in attempts : a.id \in claims /\ b.id \in claims /\ a.gen = b.gen => a = b

\* docs/device-trust.md and AGENT.md: revocation deletes the device's packet.  POST
\* /devices/:id/share-key upserts a packet for a device it has read as approved.
RevokedHasNoKey == \A d \in Ids : device[d].status = "revoked" => vaultKey[d] = NoPacket

\* AGENT.md: registering a device requires an explicit approval, so nothing but a
\* recovery takes a device from revoked to approved in one step.  POST /devices
\* writes back the status it has read before its batch.
RevokedStaysRevoked ==
  [][\A d \in Ids : device[d].status = "revoked" /\ device'[d].status = "approved"
                      => authEpoch' # authEpoch]_vars

=============================================================================
