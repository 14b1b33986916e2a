------------------------- MODULE DeviceTrustProofs -------------------------
(***************************************************************************)
(* Theorems about DeviceTrust for every value of its constants.            *)
(***************************************************************************)
EXTENDS DeviceTrust, FiniteSetTheorems, TLAPS

----------------------------------------------------------------------------
(* Type correctness.                                                        *)

\* What a request has kept of what it brought, at every point of its handler: a
\* device-bound login an installation with a credential, a cookie login no device,
\* a management request the device it is about.
Shape(q) ==
  /\ q.pc \in {"consume", "epoch", "mint"} => q.kind \in {"login", "cookie"}
  /\ q.pc \in {"lookup", "authenticate"} => q.kind = "login"
  /\ q.pc \in {"find", "register"} => q.kind \in {"login", "register"}
  /\ q.kind = "login" => q.install \in Install /\ q.install.cred # None
  /\ q.kind = "cookie" => q.target = None
  /\ q.pc = "mint" /\ q.kind = "login" => q.target \in Ids
  /\ q.pc = "target" => q.target \in Ids

TablesOK ==
  /\ authEpoch \in Nat
  /\ generation \in Nat
  /\ device \in [Ids -> Device]
  /\ vaultKey \in [Ids -> Packet]
  /\ sessions \subseteq Session
  /\ logins \subseteq Login
  /\ lastLogin \in Nat
  /\ attempts \subseteq Attempt
  /\ lastAttempt \in Nat
  /\ claims \subseteq Nat

RequestsOK ==
  /\ req \in [Requests -> Request]
  /\ \A r \in Requests : Shape(req[r])

\* The inductive invariant that TypeOK follows from.
TrustInv == TablesOK /\ RequestsOK

\* The shape of the requests is what the last conjunct of TypeOK says of a login
\* that is about to make its session.
LEMMA TrustInvTypes == ASSUME TrustInv PROVE TypeOK
<1>1. ASSUME NEW r \in Requests, req[r].pc = "mint"
      PROVE  /\ req[r].kind \in {"login", "cookie"}
             /\ req[r].kind = "login" <=> req[r].target \in Ids
  BY <1>1, DeviceAssumption DEF TrustInv, RequestsOK, Shape
<1> QED BY <1>1 DEF TrustInv, TablesOK, RequestsOK, TypeOK

\* A request that has returned keeps nothing that has to be justified.
LEMMA IdleType == Idle \in Request /\ Shape(Idle)
  BY DEF Idle, Request, Shape, PC, NoInstall, NoRow, Device, Status

\* The rows, packets and absent values are of the tables' types.
LEMMA RowTypes ==
  /\ NoRow \in Device
  /\ NoPacket \in Packet
  /\ \A i \in Install \cup {NoInstall}, s \in Status : Row(s, i) \in Device
  /\ \A i \in Install \cup {NoInstall} : OwnPacket(i) \in Packet
  BY DEF NoRow, Device, Status, NoPacket, Packet, Row, OwnPacket, Install, NoInstall

\* A step that replaces one request by a well-formed one keeps them all so.
LEMMA OneRequest ==
  ASSUME RequestsOK, NEW r \in Requests, NEW q \in Request, Shape(q),
         req' = [req EXCEPT ![r] = q]
  PROVE  RequestsOK'
<1>1. req' \in [Requests -> Request]
  BY DEF RequestsOK
<1>2. \A s \in Requests : req'[s] = IF s = r THEN q ELSE req[s]
  BY DEF RequestsOK
<1> QED BY <1>1, <1>2 DEF RequestsOK, Shape

\* A handler that returns.
LEMMA ReturnType ==
  ASSUME RequestsOK, NEW r \in Requests, Return(r)
  PROVE  RequestsOK'
  BY OneRequest, IdleType DEF Return

\* A handler that goes on to a step that requires nothing else of the request.
LEMMA GotoType ==
  ASSUME RequestsOK, NEW r \in Requests, NEW pc \in PC, Goto(r, pc),
         Shape([req[r] EXCEPT !.pc = pc])
  PROVE  RequestsOK'
<1>1. [req[r] EXCEPT !.pc = pc] \in Request
  BY DEF RequestsOK, Request
<1>2. req' = [req EXCEPT ![r] = [req[r] EXCEPT !.pc = pc]]
  BY DEF Goto
<1> QED BY <1>1, <1>2, OneRequest

LEMMA InitInv == Init => TrustInv
<1> SUFFICES ASSUME Init PROVE TrustInv
  OBVIOUS
<1>1. First \in Install
  BY DeviceAssumption
<1>2. Row("approved", First) \in Device /\ OwnPacket(First) \in Packet
  BY <1>1, RowTypes DEF Status
<1>3. TablesOK
  <2>1. First.id \in Ids
    BY <1>1 DEF Install
  <2>2. device \in [Ids -> Device] /\ vaultKey \in [Ids -> Packet]
    BY <1>2, RowTypes DEF Init
  <2>3. sessions \subseteq Session
    BY <2>1 DEF Init, Session
  <2> QED BY <2>2, <2>3 DEF Init, TablesOK
<1>4. RequestsOK
  BY IdleType DEF Init, RequestsOK
<1> QED BY <1>3, <1>4 DEF TrustInv

----------------------------------------------------------------------------
(* Login.                                                                   *)

LEMMA BeginLoginType ==
  ASSUME TrustInv, NEW r \in Requests, BeginLogin(r) PROVE TrustInv'
<1>1. PICK l \in logins, kind \in Kinds \cap {"login", "cookie"}, i \in Installs :
        req' = [req EXCEPT ![r] = [Idle EXCEPT !.pc = "consume", !.kind = kind,
                  !.ticket = l.id, !.epoch = l.epoch,
                  !.install = IF kind = "login" THEN i ELSE NoInstall]]
  BY DEF BeginLogin
<1> DEFINE q == [Idle EXCEPT !.pc = "consume", !.kind = kind,
                   !.ticket = l.id, !.epoch = l.epoch,
                   !.install = IF kind = "login" THEN i ELSE NoInstall]
<1>2. l.id \in Nat /\ l.epoch \in Nat
  BY DEF TrustInv, TablesOK, Login
<1>3. i \in Install /\ i.cred # None
  BY DeviceAssumption
<1>4. q \in Request
  BY <1>2, <1>3, IdleType DEF Request, Idle, PC
<1>5. Shape(q)
  BY <1>3 DEF Shape, Idle
<1>6. RequestsOK'
  BY <1>1, <1>4, <1>5, OneRequest DEF TrustInv
<1> QED BY <1>6 DEF BeginLogin, TrustInv, TablesOK, trust, access, recovery

LEMMA ConsumeLoginType ==
  ASSUME TrustInv, NEW r \in Requests, ConsumeLogin(r) PROVE TrustInv'
<1>1. CASE Goto(r, "epoch")
  <2>1. Shape([req[r] EXCEPT !.pc = "epoch"])
    BY DEF ConsumeLogin, TrustInv, RequestsOK, Shape, Request
  <2>2. RequestsOK'
    BY <1>1, <2>1, GotoType DEF TrustInv, PC
  <2> QED BY <2>2 DEF ConsumeLogin, TrustInv, TablesOK, trust, recovery
<1>2. CASE Return(r)
  <2>1. RequestsOK'
    BY <1>2, ReturnType DEF TrustInv
  <2> QED BY <2>1 DEF ConsumeLogin, TrustInv, TablesOK, trust, recovery
<1> QED BY <1>1, <1>2 DEF ConsumeLogin

LEMMA CheckEpochType ==
  ASSUME TrustInv, NEW r \in Requests, CheckEpoch(r) PROVE TrustInv'
<1>1. CASE Return(r)
  BY <1>1, ReturnType DEF CheckEpoch, TrustInv, TablesOK, trust, access, recovery
<1>2. CASE req[r].kind = "login" /\ Goto(r, "lookup")
  <2>1. Shape([req[r] EXCEPT !.pc = "lookup"])
    BY <1>2 DEF CheckEpoch, TrustInv, RequestsOK, Shape, Request
  <2>2. RequestsOK'
    BY <1>2, <2>1, GotoType DEF TrustInv, PC
  <2> QED BY <2>2 DEF CheckEpoch, TrustInv, TablesOK, trust, access, recovery
<1>3. CASE req[r].kind # "login" /\ Goto(r, "mint")
  <2>1. Shape([req[r] EXCEPT !.pc = "mint"])
    BY <1>3 DEF CheckEpoch, TrustInv, RequestsOK, Shape, Request
  <2>2. RequestsOK'
    BY <1>3, <2>1, GotoType DEF TrustInv, PC
  <2> QED BY <2>2 DEF CheckEpoch, TrustInv, TablesOK, trust, access, recovery
<1> QED BY <1>1, <1>2, <1>3 DEF CheckEpoch

LEMMA LookupDeviceType ==
  ASSUME TrustInv, NEW r \in Requests, LookupDevice(r) PROVE TrustInv'
<1>1. PICK pc \in {"find", "authenticate"} : Goto(r, pc)
  BY DEF LookupDevice
<1>2. Shape([req[r] EXCEPT !.pc = pc])
  BY DEF LookupDevice, TrustInv, RequestsOK, Shape, Request
<1>3. RequestsOK'
  BY <1>1, <1>2, GotoType DEF TrustInv, PC
<1> QED BY <1>3 DEF LookupDevice, TrustInv, TablesOK, trust, access, recovery

\* A known device is the one the installation names.
LEMMA AuthenticateDeviceType ==
  ASSUME TrustInv, NEW r \in Requests, AuthenticateDevice(r) PROVE TrustInv'
<1>1. CASE Return(r)
  BY <1>1, ReturnType DEF AuthenticateDevice, TrustInv, TablesOK, trust, access, recovery
<1>2. CASE req' = [req EXCEPT ![r].pc = "mint", ![r].target = req[r].install.id]
  <2> DEFINE q == [req[r] EXCEPT !.pc = "mint", !.target = req[r].install.id]
  <2>1. req[r] \in Request /\ Shape(req[r]) /\ req[r].pc = "authenticate"
    BY DEF AuthenticateDevice, TrustInv, RequestsOK
  <2>2. req[r].kind = "login" /\ req[r].install.id \in Ids
    BY <2>1 DEF Shape, Install
  <2>3. q \in Request /\ Shape(q)
    BY <2>1, <2>2 DEF Request, PC, Shape
  <2>4. req' = [req EXCEPT ![r] = q]
    BY <1>2
  <2>5. RequestsOK'
    BY <2>3, <2>4, OneRequest DEF TrustInv
  <2> QED BY <2>5 DEF AuthenticateDevice, TrustInv, TablesOK, trust, access, recovery
<1> QED BY <1>1, <1>2 DEF AuthenticateDevice

LEMMA MintSessionType ==
  ASSUME TrustInv, NEW r \in Requests, MintSession(r) PROVE TrustInv'
<1>1. RequestsOK'
  BY ReturnType DEF MintSession, TrustInv
<1>2. [login |-> req[r].ticket, device |-> req[r].target, epoch |-> req[r].epoch] \in Session
  BY DEF TrustInv, RequestsOK, Request, Session
<1>3. sessions' \subseteq Session
  BY <1>2 DEF MintSession, TrustInv, TablesOK
<1> QED BY <1>1, <1>3 DEF MintSession, TrustInv, TablesOK, trust, recovery

\* Starting a login session, ending a session or letting one expire.
LEMMA SessionTableType ==
  ASSUME TrustInv, StartLogin \/ EndSession PROVE TrustInv'
<1>1. CASE StartLogin
  <2>1. [id |-> lastLogin + 1, epoch |-> authEpoch] \in Login
    BY DEF TrustInv, TablesOK, Login
  <2>2. TablesOK'
    BY <1>1, <2>1 DEF StartLogin, TrustInv, TablesOK, trust, recovery
  <2> QED BY <1>1, <2>2 DEF StartLogin, TrustInv, RequestsOK, Shape
<1>2. CASE EndSession
  <2>1. TablesOK'
    BY <1>2 DEF EndSession, TrustInv, TablesOK, trust, recovery
  <2> QED BY <1>2, <2>1 DEF EndSession, TrustInv, RequestsOK, Shape
<1> QED BY <1>1, <1>2

----------------------------------------------------------------------------
(* Registration of a device.                                                *)

LEMMA FindExistingType ==
  ASSUME TrustInv, NEW r \in Requests, FindExisting(r) PROVE TrustInv'
<1>1. CASE Return(r)
  BY <1>1, ReturnType DEF FindExisting, TrustInv, TablesOK, trust, access, recovery
<1>2. ASSUME NEW d \in Ids \cup {None},
             req' = [req EXCEPT ![r].pc = "register", ![r].existing = d,
                                ![r].seen = IF d = None THEN NoRow ELSE device[d]]
      PROVE  TrustInv'
  <2> DEFINE q == [req[r] EXCEPT !.pc = "register", !.existing = d,
                                 !.seen = IF d = None THEN NoRow ELSE device[d]]
  <2>1. req[r] \in Request /\ Shape(req[r]) /\ req[r].pc = "find"
    BY DEF FindExisting, TrustInv, RequestsOK
  <2>2. (IF d = None THEN NoRow ELSE device[d]) \in Device
    BY RowTypes, DeviceAssumption DEF TrustInv, TablesOK
  <2>3. q \in Request
    BY <2>1, <2>2 DEF Request, PC
  <2>4. Shape(q)
    BY <2>1 DEF Request, Shape
  <2>5. req' = [req EXCEPT ![r] = q]
    BY <1>2
  <2>6. RequestsOK'
    BY <2>3, <2>4, <2>5, OneRequest DEF TrustInv
  <2> QED BY <2>6 DEF FindExisting, TrustInv, TablesOK, trust, access, recovery
<1>3. BestMatches(req[r].install) \subseteq Ids
  BY DEF BestMatches, Matches
<1> QED BY <1>1, <1>2, <1>3 DEF FindExisting

\* After the batch of registerDevice: a login names the row that was written.
LEMMA RegisteredType ==
  ASSUME TrustInv, NEW r \in Requests, req[r].pc = "register",
         NEW d \in Ids \cup {None}, req[r].kind = "login" => d \in Ids,
         Registered(r, d)
  PROVE  RequestsOK'
<1>1. CASE req[r].kind = "login"
  <2> DEFINE q == [req[r] EXCEPT !.pc = "mint", !.target = d]
  <2>1. req[r] \in Request /\ Shape(req[r])
    BY DEF TrustInv, RequestsOK
  <2>2. q \in Request
    BY <2>1 DEF Request, PC
  <2>3. Shape(q)
    BY <1>1, <2>1 DEF Request, Shape
  <2>4. req' = [req EXCEPT ![r] = q]
    BY <1>1 DEF Registered
  <2> QED BY <2>2, <2>3, <2>4, OneRequest DEF TrustInv
<1>2. CASE req[r].kind # "login"
  BY <1>2, ReturnType DEF Registered, TrustInv
<1> QED BY <1>1, <1>2

LEMMA InsertDeviceType ==
  ASSUME TrustInv, NEW r \in Requests, InsertDevice(r) PROVE TrustInv'
<1> DEFINE q == req[r]
           old == IF q.existing = None THEN {} ELSE {q.existing}
           cleared == [d \in Ids |-> IF d \in old THEN NoRow ELSE device[d]]
           written == [cleared EXCEPT ![q.install.id] = Row("pending", q.install)]
<1>1. q \in Request /\ Shape(q) /\ q.pc = "register"
  BY DEF InsertDevice, TrustInv, RequestsOK
<1>2. q.install \in Install \cup {NoInstall} /\ q.install.id \in Ids \cup {None}
  BY <1>1 DEF Request, Install, NoInstall
<1>3. written \in [Ids -> Device]
  <2>1. cleared \in [Ids -> Device]
    BY RowTypes DEF TrustInv, TablesOK
  <2>2. Row("pending", q.install) \in Device
    BY <1>2, RowTypes DEF Status
  <2> QED BY <2>1, <2>2
<1>4. CASE /\ device' = written
           /\ vaultKey' = [d \in Ids |-> IF d \in old THEN NoPacket ELSE vaultKey[d]]
           /\ sessions' = sessions \ SessionsOn(old)
           /\ Registered(r, q.install.id)
  <2>1. RequestsOK'
    BY <1>1, <1>2, <1>4, RegisteredType DEF Shape, Install
  <2>2. vaultKey' \in [Ids -> Packet]
    BY <1>4, RowTypes DEF TrustInv, TablesOK
  <2> HIDE DEF written, old
  <2> QED BY <1>3, <1>4, <2>1, <2>2 DEF InsertDevice, TrustInv, TablesOK, recovery
<1>5. CASE Return(r) /\ UNCHANGED <<device, vaultKey, sessions>>
  BY <1>5, ReturnType DEF InsertDevice, TrustInv, TablesOK, recovery
<1> QED BY <1>4, <1>5 DEF InsertDevice

LEMMA UpdateDeviceType ==
  ASSUME TrustInv, NEW r \in Requests, UpdateDevice(r) PROVE TrustInv'
<1> DEFINE q == req[r]
           reset == Mobile(q) \/ q.seen.key # q.install.key
           others == Matches(q.install) \ {q.existing}
           row == device[q.existing]
           next == [status |-> NextStatus(q), print |-> q.install.print,
                    key |-> q.install.key,
                    cred |-> IF Mobile(q) THEN q.install.cred ELSE row.cred]
           written == [d \in Ids |->
             IF d \in others THEN NoRow
             ELSE IF d = q.existing /\ row.status # "none" THEN next ELSE device[d]]
           forgotten == IF reset THEN {q.existing} ELSE {}
<1>1. q \in Request /\ Shape(q) /\ q.pc = "register" /\ q.existing \in Ids
  BY DEF UpdateDevice, TrustInv, RequestsOK, Request
<1>2. written \in [Ids -> Device]
  <2>1. NextStatus(q) \in Status
    BY <1>1 DEF NextStatus, Request, Device, Status
  <2>2. /\ q.install.print \in Prints \cup {None}
        /\ q.install.key \in Keys \cup {None}
        /\ q.install.cred \in Creds \cup {None}
    BY <1>1 DEF Request, Install, NoInstall
  <2>3. row.cred \in Creds \cup {None}
    BY <1>1 DEF TrustInv, TablesOK, Device
  <2>4. next \in Device
    <3> HIDE DEF row
    <3> QED BY <2>1, <2>2, <2>3 DEF Device
  <2> HIDE DEF next, others
  <2> QED BY <2>4, RowTypes DEF TrustInv, TablesOK
<1>3. CASE /\ device' = written
           /\ vaultKey' = [d \in Ids |-> IF d \in forgotten THEN NoPacket ELSE vaultKey[d]]
           /\ sessions' = sessions \ SessionsOn(others \cup forgotten)
           /\ Registered(r, q.existing)
  <2>1. RequestsOK'
    BY <1>1, <1>3, RegisteredType
  <2>2. vaultKey' \in [Ids -> Packet]
    BY <1>3, RowTypes DEF TrustInv, TablesOK
  <2> HIDE DEF written, others, forgotten
  <2> QED BY <1>2, <1>3, <2>1, <2>2 DEF UpdateDevice, TrustInv, TablesOK, recovery
<1>4. CASE Return(r) /\ UNCHANGED <<device, vaultKey, sessions>>
  BY <1>4, ReturnType DEF UpdateDevice, TrustInv, TablesOK, recovery
<1> QED BY <1>3, <1>4 DEF UpdateDevice

LEMMA BeginRegisterType ==
  ASSUME TrustInv, NEW r \in Requests, BeginRegister(r) PROVE TrustInv'
<1>1. PICK b \in Browsers, id \in Ids :
        req' = [req EXCEPT ![r] = [Idle EXCEPT !.pc = "find", !.kind = "register",
          !.install = [id |-> id, print |-> b.print, key |-> b.key, cred |-> None]]]
  BY DEF BeginRegister
<1> DEFINE q == [Idle EXCEPT !.pc = "find", !.kind = "register",
             !.install = [id |-> id, print |-> b.print, key |-> b.key, cred |-> None]]
<1>2. [id |-> id, print |-> b.print, key |-> b.key, cred |-> None] \in Install
  BY DeviceAssumption DEF Install
<1>3. q \in Request
  BY <1>2, IdleType DEF BeginRegister, Request, Idle, PC
<1>4. Shape(q)
  BY DEF Shape, Idle
<1>5. RequestsOK'
  BY <1>1, <1>3, <1>4, OneRequest DEF TrustInv
<1> QED BY <1>5 DEF BeginRegister, TrustInv, TablesOK, trust, access, recovery

----------------------------------------------------------------------------
(* The management requests.                                                 *)

LEMMA BeginManageType ==
  ASSUME TrustInv, NEW r \in Requests, BeginManage(r) PROVE TrustInv'
<1>1. PICK kind \in Kinds \cap {"approve", "reject", "revoke", "share"}, d \in Ids :
        req' = [req EXCEPT ![r] = [Idle EXCEPT !.pc = "target", !.kind = kind, !.target = d]]
  BY DEF BeginManage
<1> DEFINE q == [Idle EXCEPT !.pc = "target", !.kind = kind, !.target = d]
<1>2. q \in Request
  BY IdleType DEF Request, Idle, PC
<1>3. Shape(q)
  BY DEF Shape, Idle
<1>4. RequestsOK'
  BY <1>1, <1>2, <1>3, OneRequest DEF TrustInv
<1> QED BY <1>4 DEF BeginManage, TrustInv, TablesOK, trust, access, recovery

LEMMA ReadTargetType ==
  ASSUME TrustInv, NEW r \in Requests, ReadTarget(r) PROVE TrustInv'
<1> DEFINE row == device[req[r].target]
           next == Decision(req[r].kind, row.status)
           q == [req[r] EXCEPT !.pc = next, !.seen = row]
<1>1. CASE Return(r)
  BY <1>1, ReturnType DEF ReadTarget, TrustInv, TablesOK, trust, access, recovery
<1>2. CASE next # "idle" /\ req' = [req EXCEPT ![r].pc = next, ![r].seen = row]
  <2>1. req[r] \in Request /\ Shape(req[r]) /\ req[r].target \in Ids
    BY DEF ReadTarget, TrustInv, RequestsOK, Shape
  <2>2. row \in Device
    BY <2>1 DEF TrustInv, TablesOK
  <2>3. next \in {"approve", "save", "reject", "revoke"}
    BY <1>2 DEF Decision
  <2>4. q \in Request /\ Shape(q)
    <3> HIDE DEF next, row
    <3>1. q \in Request
      BY <2>1, <2>2, <2>3 DEF Request, PC
    <3>2. q.pc \in {"approve", "save", "reject", "revoke"}
      BY <2>1, <2>3 DEF Request
    <3>3. q.kind = req[r].kind /\ q.install = req[r].install /\ q.target = req[r].target
      BY <2>1 DEF Request
    <3> HIDE DEF q
    <3> QED BY <2>1, <3>1, <3>2, <3>3 DEF Shape
  <2>5. req' = [req EXCEPT ![r] = q]
    BY <1>2
  <2>6. RequestsOK'
    BY <2>4, <2>5, OneRequest DEF TrustInv
  <2> QED BY <2>6 DEF ReadTarget, TrustInv, TablesOK, trust, access, recovery
<1> QED BY <1>1, <1>2 DEF ReadTarget

LEMMA PacketType ==
  ASSUME TrustInv, NEW r \in Requests PROVE PacketOf(r) \in Packet
  BY DEF TrustInv, RequestsOK, Request, Device, PacketOf, Packet

LEMMA ApproveDeviceType ==
  ASSUME TrustInv, NEW r \in Requests, ApproveDevice(r) PROVE TrustInv'
<1>1. RequestsOK'
  BY ReturnType DEF ApproveDevice, TrustInv
<1>2. vaultKey' \in [Ids -> Packet]
  BY PacketType DEF ApproveDevice, TrustInv, TablesOK
<1>3. \A d \in Ids : [device[d] EXCEPT !.status = "approved"] \in Device
  BY DEF TrustInv, TablesOK, Device, Status
<1>4. device' \in [Ids -> Device]
  BY <1>3 DEF ApproveDevice, TrustInv, TablesOK
<1> QED BY <1>1, <1>2, <1>4 DEF ApproveDevice, TrustInv, TablesOK, access, recovery

LEMMA SaveVaultKeyType ==
  ASSUME TrustInv, NEW r \in Requests, SaveVaultKey(r) PROVE TrustInv'
<1>1. RequestsOK'
  BY ReturnType DEF SaveVaultKey, TrustInv
<1>2. vaultKey' \in [Ids -> Packet]
  BY PacketType DEF SaveVaultKey, TrustInv, TablesOK
<1> QED BY <1>1, <1>2 DEF SaveVaultKey, TrustInv, TablesOK, access, recovery

\* Rejection and revocation.
LEMMA ExpelType ==
  ASSUME TrustInv, NEW r \in Requests, NEW status \in Status, Expel(r, status)
  PROVE  TrustInv'
<1>1. RequestsOK'
  BY ReturnType DEF Expel, TrustInv
<1>2. vaultKey' \in [Ids -> Packet]
  BY RowTypes DEF Expel, TrustInv, TablesOK
<1>3. \A d \in Ids : [device[d] EXCEPT !.status = status] \in Device
  BY DEF TrustInv, TablesOK, Device
<1>4. device' \in [Ids -> Device]
  BY <1>3 DEF Expel, TrustInv, TablesOK
<1> QED BY <1>1, <1>2, <1>4 DEF Expel, TrustInv, TablesOK, recovery

----------------------------------------------------------------------------
(* Recovery.                                                                *)

\* Attempts are begun and expire.
LEMMA AttemptTableType ==
  ASSUME TrustInv, StartRecovery \/ ExpireAttempt PROVE TrustInv'
<1>1. CASE StartRecovery
  <2> DEFINE a == [id |-> lastAttempt + 1, epoch |-> authEpoch, gen |-> generation,
                   open |-> TRUE]
  <2>1. a \in Attempt
    BY DEF TrustInv, TablesOK, Attempt
  <2>2. attempts' = attempts \cup {a}
    BY <1>1 DEF StartRecovery
  <2>3. attempts' \subseteq Attempt
    <3> HIDE DEF a
    <3> QED BY <2>1, <2>2 DEF TrustInv, TablesOK
  <2>4. UNCHANGED <<trust, access, claims, req>> /\ lastAttempt' = lastAttempt + 1
    BY <1>1 DEF StartRecovery
  <2>5. TablesOK'
    BY <2>3, <2>4 DEF TrustInv, TablesOK, trust, access
  <2> QED BY <2>4, <2>5 DEF TrustInv, RequestsOK, Shape
<1>2. CASE ExpireAttempt
  <2>1. TablesOK'
    BY <1>2 DEF ExpireAttempt, TrustInv, TablesOK, trust, access
  <2> QED BY <1>2, <2>1 DEF ExpireAttempt, TrustInv, RequestsOK, Shape
<1> QED BY <1>1, <1>2

LEMMA BeginRecoverType ==
  ASSUME TrustInv, NEW r \in Requests, BeginRecover(r) PROVE TrustInv'
<1>1. PICK a \in attempts, i \in Installs :
        req' = [req EXCEPT ![r] = [Idle EXCEPT !.pc = "recover", !.kind = "recover",
          !.ticket = a.id, !.epoch = a.epoch, !.gen = a.gen, !.install = i]]
  BY DEF BeginRecover
<1> DEFINE q == [Idle EXCEPT !.pc = "recover", !.kind = "recover",
             !.ticket = a.id, !.epoch = a.epoch, !.gen = a.gen, !.install = i]
<1>2. a.id \in Nat /\ a.epoch \in Nat /\ a.gen \in Nat
  BY DEF TrustInv, TablesOK, Attempt
<1>3. i \in Install
  BY DeviceAssumption
<1>4. q \in Request
  BY <1>2, <1>3, IdleType DEF BeginRecover, Request, Idle, PC
<1>5. Shape(q)
  BY DEF Shape, Idle
<1>6. RequestsOK'
  BY <1>1, <1>4, <1>5, OneRequest DEF TrustInv
<1> QED BY <1>6 DEF BeginRecover, TrustInv, TablesOK, trust, access, recovery

LEMMA FinishRecoveryType ==
  ASSUME TrustInv, NEW r \in Requests, FinishRecovery(r) PROVE TrustInv'
<1> DEFINE q == req[r]
           i == q.install
<1>1. RequestsOK'
  BY ReturnType DEF FinishRecovery, TrustInv
<1>2. CASE ~Eligible(q)
  BY <1>1, <1>2 DEF FinishRecovery, TrustInv, TablesOK, trust
<1>3. CASE Eligible(q)
  <2>1. q \in Request
    BY DEF TrustInv, RequestsOK
  <2>2. i \in Install \cup {NoInstall} /\ q.ticket \in Nat
    BY <2>1 DEF Request
  <2>3. Row("approved", i) \in Device /\ OwnPacket(i) \in Packet
    BY <2>2, RowTypes DEF Status
  <2>4. \A d \in Ids : [device[d] EXCEPT !.status = "revoked", !.cred = None] \in Device
    BY DEF TrustInv, TablesOK, Device, Status
  <2>5. device' \in [Ids -> Device] /\ vaultKey' \in [Ids -> Packet]
    <3> HIDE DEF i
    <3>1. device' = [d \in Ids |->
            IF d = i.id THEN Row("approved", i)
            ELSE IF device[d].status = "none" THEN NoRow
            ELSE [device[d] EXCEPT !.status = "revoked", !.cred = None]]
      BY <1>3 DEF FinishRecovery, i
    <3>2. vaultKey' = [d \in Ids |-> IF d = i.id THEN OwnPacket(i) ELSE NoPacket]
      BY <1>3 DEF FinishRecovery, i
    <3> QED BY <2>3, <2>4, <3>1, <3>2, RowTypes
  <2>6. attempts' \subseteq Attempt
    <3>1. attempts' = {[a EXCEPT !.open = FALSE] : a \in attempts}
      BY <1>3 DEF FinishRecovery
    <3>2. ASSUME NEW a \in attempts PROVE [a EXCEPT !.open = FALSE] \in Attempt
      BY DEF TrustInv, TablesOK, Attempt
    <3> QED BY <3>1, <3>2
  <2>7. /\ authEpoch' = authEpoch + 1 /\ generation' = generation + 1
        /\ claims' = claims \cup {q.ticket} /\ sessions' = {} /\ logins' = {}
        /\ UNCHANGED <<lastLogin, lastAttempt>>
    BY <1>3 DEF FinishRecovery
  <2>8. authEpoch' \in Nat /\ generation' \in Nat /\ claims' \subseteq Nat
    <3> HIDE DEF q
    <3>1. authEpoch \in Nat /\ generation \in Nat /\ claims \subseteq Nat
      BY DEF TrustInv, TablesOK
    <3>2. authEpoch' \in Nat
      BY <2>7, <3>1
    <3>3. generation' \in Nat
      BY <2>7, <3>1
    <3>4. claims' \subseteq Nat
      BY <2>2, <2>7, <3>1
    <3> QED BY <3>2, <3>3, <3>4
  <2>9. TablesOK'
    BY <2>5, <2>6, <2>7, <2>8 DEF TrustInv, TablesOK
  <2> QED BY <1>1, <2>9 DEF TrustInv
<1> QED BY <1>2, <1>3

LEMMA RotateType ==
  ASSUME TrustInv, NEW r \in Requests, BeginRotate(r) \/ RotateRecovery(r) PROVE TrustInv'
<1>1. CASE BeginRotate(r)
  <2> DEFINE q == [Idle EXCEPT !.pc = "rotate", !.kind = "rotate",
                               !.epoch = authEpoch, !.gen = generation]
  <2>1. q \in Request
    BY <1>1, IdleType DEF BeginRotate, TrustInv, TablesOK, Request, Idle, PC
  <2>2. Shape(q)
    BY DEF Shape, Idle
  <2>3. RequestsOK'
    BY <1>1, <2>1, <2>2, OneRequest DEF BeginRotate, TrustInv
  <2> QED BY <1>1, <2>3 DEF BeginRotate, TrustInv, TablesOK, trust, access, recovery
<1>2. CASE RotateRecovery(r)
  <2>1. RequestsOK'
    BY <1>2, ReturnType DEF RotateRecovery, TrustInv
  <2> QED BY <1>2, <2>1 DEF RotateRecovery, TrustInv, TablesOK, access, recovery
<1> QED BY <1>1, <1>2

LEMMA LeaveType ==
  ASSUME TrustInv, NEW r \in Requests, Leave(r) PROVE TrustInv'
  BY ReturnType DEF Leave, TrustInv, TablesOK, trust, access, recovery

----------------------------------------------------------------------------
\* Every step of the handlers keeps the invariant.
LEMMA StepInv == TrustInv /\ [Next]_vars => TrustInv'
<1> SUFFICES ASSUME TrustInv, [Next]_vars PROVE TrustInv'
  OBVIOUS
<1>1. CASE StartLogin \/ EndSession
  BY <1>1, SessionTableType
<1>2. CASE StartRecovery \/ ExpireAttempt
  BY <1>2, AttemptTableType
<1>3. ASSUME NEW r \in Requests, FinishLogin(r) PROVE TrustInv'
  BY <1>3, BeginLoginType, ConsumeLoginType, CheckEpochType, LookupDeviceType,
     AuthenticateDeviceType, MintSessionType DEF FinishLogin
<1>4. ASSUME NEW r \in Requests, RegisterDevice(r) PROVE TrustInv'
  BY <1>4, BeginRegisterType, FindExistingType, InsertDeviceType, UpdateDeviceType
     DEF RegisterDevice
<1>5. ASSUME NEW r \in Requests, Manage(r) PROVE TrustInv'
  BY <1>5, BeginManageType, ReadTargetType, ApproveDeviceType, SaveVaultKeyType, ExpelType
     DEF Manage, RejectDevice, RevokeDevice, Status
<1>6. ASSUME NEW r \in Requests, Recover(r) PROVE TrustInv'
  BY <1>6, BeginRecoverType, FinishRecoveryType, RotateType DEF Recover
<1>7. ASSUME NEW r \in Requests, Leave(r) PROVE TrustInv'
  BY <1>7, LeaveType
<1>8. CASE UNCHANGED vars
  BY <1>8 DEF vars, trust, access, recovery, TrustInv, TablesOK, RequestsOK, Shape
<1> QED BY <1>1, <1>2, <1>3, <1>4, <1>5, <1>6, <1>7, <1>8 DEF Next

LEMMA InvHolds == Spec => []TrustInv
  BY InitInv, StepInv, PTL DEF Spec

\* The tables and the requests in flight keep their types, and a login makes its
\* session for the device it presented, or for none when it presented none
\* (finishLogin).
THEOREM TypeCorrect == Spec => []TypeOK
<1>1. TrustInv => TypeOK
  BY TrustInvTypes
<1> QED BY <1>1, InvHolds, PTL

----------------------------------------------------------------------------
(* Sessions.                                                                *)

\* What a step does to the sessions: it starts a login, or mints, or withdraws
\* everything, or at most removes some.
LEMMA SessionSteps ==
  ASSUME Next
  PROVE  \/ StartLogin
         \/ \E r \in Requests : MintSession(r)
         \/ sessions' = {} /\ logins' = {}
         \/ authEpoch' = authEpoch /\ sessions' \subseteq sessions /\ logins' \subseteq logins
<1> DEFINE Fewer == /\ authEpoch' = authEpoch
                    /\ sessions' \subseteq sessions
                    /\ logins' \subseteq logins
<1>1. CASE EndSession
  BY <1>1 DEF EndSession, trust
<1>2. CASE StartRecovery \/ ExpireAttempt
  BY <1>2 DEF StartRecovery, ExpireAttempt, trust, access
<1>3. ASSUME NEW r \in Requests, FinishLogin(r), ~MintSession(r) PROVE Fewer
  BY <1>3 DEF FinishLogin, BeginLogin, ConsumeLogin, CheckEpoch, LookupDevice,
              AuthenticateDevice, trust, access
<1>4. ASSUME NEW r \in Requests, RegisterDevice(r) PROVE Fewer
  <2>1. CASE BeginRegister(r) \/ FindExisting(r)
    BY <2>1 DEF BeginRegister, FindExisting, trust, access
  <2>2. CASE InsertDevice(r)
    BY <2>2 DEF InsertDevice
  <2>3. CASE UpdateDevice(r)
    BY <2>3 DEF UpdateDevice
  <2> QED BY <1>4, <2>1, <2>2, <2>3 DEF RegisterDevice
<1>5. ASSUME NEW r \in Requests, Manage(r) PROVE Fewer
  BY <1>5 DEF Manage, BeginManage, ReadTarget, ApproveDevice, SaveVaultKey, RejectDevice,
              RevokeDevice, Expel, trust, access
<1>6. ASSUME NEW r \in Requests, Recover(r)
      PROVE  Fewer \/ (sessions' = {} /\ logins' = {})
  BY <1>6 DEF Recover, BeginRecover, FinishRecovery, BeginRotate, RotateRecovery,
              trust, access
<1>7. ASSUME NEW r \in Requests, Leave(r) PROVE Fewer
  BY <1>7 DEF Leave, trust, access
<1> QED BY <1>1, <1>2, <1>3, <1>4, <1>5, <1>6, <1>7 DEF Next

LEMMA EpochStep == SessionsOfThisEpoch /\ [Next]_vars => SessionsOfThisEpoch'
<1> SUFFICES ASSUME SessionsOfThisEpoch, [Next]_vars PROVE SessionsOfThisEpoch'
  OBVIOUS
<1>1. CASE StartLogin
  BY <1>1 DEF StartLogin, SessionsOfThisEpoch, trust
<1>2. ASSUME NEW r \in Requests, MintSession(r) PROVE SessionsOfThisEpoch'
  BY <1>2 DEF MintSession, MayMint, SessionsOfThisEpoch, trust
<1>3. CASE sessions' = {} /\ logins' = {}
  BY <1>3 DEF SessionsOfThisEpoch
<1>4. CASE authEpoch' = authEpoch /\ sessions' \subseteq sessions /\ logins' \subseteq logins
  BY <1>4 DEF SessionsOfThisEpoch
<1>5. CASE UNCHANGED vars
  BY <1>5 DEF vars, trust, access, SessionsOfThisEpoch
<1> QED BY <1>1, <1>2, <1>3, <1>4, <1>5, SessionSteps

\* No session and no login in progress is of an epoch before the last recovery,
\* however a login that was being finished and the recovery interleave
\* (rotateDeviceSession, createSession, finishRecoveryV2).
THEOREM SessionsEndWithTheirEpoch == Spec => []SessionsOfThisEpoch
<1>1. Init => SessionsOfThisEpoch
  BY DEF Init, SessionsOfThisEpoch
<1> QED BY <1>1, EpochStep, PTL DEF Spec

\* A bound session replaces the one its device has, and an unbound one is of no
\* device: that the request minting it names its device is TypeOK's last conjunct.
LEMMA OneSessionStep ==
  TypeOK /\ OneSessionPerDevice /\ [Next]_vars => OneSessionPerDevice'
<1> SUFFICES ASSUME TypeOK, OneSessionPerDevice, [Next]_vars PROVE OneSessionPerDevice'
  OBVIOUS
<1>1. ASSUME NEW r \in Requests, MintSession(r) PROVE OneSessionPerDevice'
  <2> DEFINE new == [login |-> req[r].ticket, device |-> req[r].target,
                     epoch |-> req[r].epoch]
  <2>1. CASE ~MayMint(req[r])
    BY <1>1, <2>1 DEF MintSession, OneSessionPerDevice
  <2>2. CASE MayMint(req[r])
    <3>1. sessions' = (sessions \ Replaced(req[r])) \cup {new}
      BY <1>1, <2>2 DEF MintSession
    <3>2. ASSUME NEW s \in sessions \ Replaced(req[r]), s.device # None
          PROVE  s.device # new.device
      <4>1. CASE req[r].kind = "login"
        BY <4>1 DEF Replaced, SessionsOn
      <4>2. CASE req[r].kind # "login"
        <5>1. req[r].target \notin Ids
          BY <1>1, <4>2 DEF MintSession, TypeOK
        <5>2. req[r].target = None
          BY <5>1 DEF TypeOK, Request
        <5> QED BY <3>2, <5>2
      <4> QED BY <4>1, <4>2
    <3> HIDE DEF new
    <3> QED BY <3>1, <3>2 DEF OneSessionPerDevice
  <2> QED BY <2>1, <2>2
<1>2. CASE sessions' \subseteq sessions
  BY <1>2 DEF OneSessionPerDevice
<1>3. CASE StartLogin \/ UNCHANGED vars
  BY <1>2, <1>3 DEF StartLogin, vars, access
<1> QED BY <1>1, <1>2, <1>3, SessionSteps

\* However many logins of one installation are finished, at once or one after
\* the other, a device has at most one session (rotateDeviceSession).
THEOREM SessionsAreReplaced == Spec => []OneSessionPerDevice
<1>1. Init => OneSessionPerDevice
  BY DEF Init, OneSessionPerDevice
<1> QED BY <1>1, OneSessionStep, TypeCorrect, PTL DEF Spec

----------------------------------------------------------------------------
(* Sessions and the trust in their device.                                  *)

\* The writes of registerDevice: the sessions of every row that goes or is
\* reset go with it.
LEMMA RegistrationTrust ==
  ASSUME "register" \notin Kinds, TrustInv, SessionsOfTrustedDevices,
         NEW r \in Requests, InsertDevice(r) \/ UpdateDevice(r)
  PROVE  SessionsOfTrustedDevices'
<1> DEFINE q == req[r]
<1>1. CASE Return(r) /\ UNCHANGED <<device, vaultKey, sessions>>
  BY <1>1 DEF SessionsOfTrustedDevices
<1>2. q \in Request /\ Shape(q) /\ q.pc = "register"
  BY DEF InsertDevice, UpdateDevice, TrustInv, RequestsOK
<1>3. q.kind = "login" /\ Mobile(q)
  BY <1>2 DEF Shape, Request, Mobile
<1>4. sessions \subseteq Session /\ device \in [Ids -> Device]
  BY DEF TrustInv, TablesOK
<1>5. CASE InsertDevice(r) /\ ~(Return(r) /\ UNCHANGED <<device, vaultKey, sessions>>)
  <2> DEFINE old == IF q.existing = None THEN {} ELSE {q.existing}
             cleared == [d \in Ids |-> IF d \in old THEN NoRow ELSE device[d]]
             written == [cleared EXCEPT ![q.install.id] = Row("pending", q.install)]
  <2>1. /\ device' = written
        /\ sessions' = sessions \ SessionsOn(old)
    BY <1>5 DEF InsertDevice
  <2>2. ASSUME NEW s \in sessions', s.device # None PROVE Active(device'[s.device].status)
    <3>1. s \in sessions /\ s.device \notin old
      BY <2>1 DEF SessionsOn
    <3>2. s.device \in Ids /\ Active(device[s.device].status)
      BY <1>4, <2>2, <3>1 DEF Session, SessionsOfTrustedDevices
    <3>3. CASE s.device = q.install.id
      <4>1. device'[s.device] = Row("pending", q.install)
        BY <2>1, <3>2, <3>3
      <4> QED BY <4>1 DEF Row, Active
    <3>4. CASE s.device # q.install.id
      <4>1. device'[s.device] = device[s.device]
        BY <2>1, <3>1, <3>2, <3>4
      <4> QED BY <3>2, <4>1
    <3> QED BY <3>3, <3>4
  <2> QED BY <2>2 DEF SessionsOfTrustedDevices
<1>6. CASE UpdateDevice(r) /\ ~(Return(r) /\ UNCHANGED <<device, vaultKey, sessions>>)
  <2> DEFINE others == Matches(q.install) \ {q.existing}
             row == device[q.existing]
             next == [status |-> NextStatus(q), print |-> q.install.print,
                      key |-> q.install.key,
                      cred |-> IF Mobile(q) THEN q.install.cred ELSE row.cred]
             written == [d \in Ids |->
               IF d \in others THEN NoRow
               ELSE IF d = q.existing /\ row.status # "none" THEN next ELSE device[d]]
  <2>1. /\ device' = written
        /\ sessions' = sessions \ SessionsOn(others \cup {q.existing})
    BY <1>3, <1>6 DEF UpdateDevice
  <2>2. ASSUME NEW s \in sessions', s.device # None PROVE Active(device'[s.device].status)
    <3>1. s \in sessions /\ s.device \notin others /\ s.device # q.existing
      BY <2>1 DEF SessionsOn
    <3>2. s.device \in Ids /\ Active(device[s.device].status)
      BY <1>4, <2>2, <3>1 DEF Session, SessionsOfTrustedDevices
    <3>3. device'[s.device] = device[s.device]
      <4> HIDE DEF others, next
      <4> QED BY <2>1, <3>1, <3>2
    <3> QED BY <3>2, <3>3
  <2> QED BY <2>2 DEF SessionsOfTrustedDevices
<1> QED BY <1>1, <1>5, <1>6

\* Approval and expulsion.
LEMMA ManagementTrust ==
  ASSUME TrustInv, SessionsOfTrustedDevices, NEW r \in Requests, Manage(r)
  PROVE  SessionsOfTrustedDevices'
<1>1. sessions \subseteq Session /\ device \in [Ids -> Device]
  BY DEF TrustInv, TablesOK
<1>2. CASE BeginManage(r) \/ ReadTarget(r) \/ SaveVaultKey(r)
  BY <1>2 DEF BeginManage, ReadTarget, SaveVaultKey, trust, access, SessionsOfTrustedDevices
<1>3. CASE ApproveDevice(r)
  <2>1. \A d \in Ids : Active(device[d].status) => Active(device'[d].status)
    BY <1>1, <1>3 DEF ApproveDevice, Active, Device
  <2>2. sessions' = sessions
    BY <1>3 DEF ApproveDevice, access
  <2> QED BY <1>1, <2>1, <2>2 DEF SessionsOfTrustedDevices, Session
<1>4. ASSUME NEW status \in Status, Expel(r, status) PROVE SessionsOfTrustedDevices'
  <2>1. ASSUME NEW s \in sessions', s.device # None PROVE Active(device'[s.device].status)
    <3>1. s \in sessions /\ s.device # req[r].target
      BY <1>4 DEF Expel, SignedOut, SessionsOn
    <3>2. s.device \in Ids /\ Active(device[s.device].status)
      BY <1>1, <2>1, <3>1 DEF Session, SessionsOfTrustedDevices
    <3>3. device'[s.device] = device[s.device]
      BY <1>1, <1>4, <3>1, <3>2 DEF Expel
    <3> QED BY <3>2, <3>3
  <2> QED BY <2>1 DEF SessionsOfTrustedDevices
<1> QED BY <1>2, <1>3, <1>4 DEF Manage, RejectDevice, RevokeDevice, Status

LEMMA TrustStep ==
  ASSUME "register" \notin Kinds, TrustInv, SessionsOfTrustedDevices, [Next]_vars
  PROVE  SessionsOfTrustedDevices'
<1>1. CASE StartLogin \/ EndSession \/ StartRecovery \/ ExpireAttempt \/ UNCHANGED vars
  BY <1>1 DEF StartLogin, EndSession, StartRecovery, ExpireAttempt, vars, trust, access,
              SessionsOfTrustedDevices
<1>2. ASSUME NEW r \in Requests, FinishLogin(r) PROVE SessionsOfTrustedDevices'
  <2>1. CASE MintSession(r)
    <3> DEFINE new == [login |-> req[r].ticket, device |-> req[r].target,
                       epoch |-> req[r].epoch]
    <3>1. sessions' \subseteq sessions \cup {new} /\ device' = device
      BY <2>1 DEF MintSession, trust
    <3>2. new \in sessions' => new \in sessions \/ MayMint(req[r])
      BY <2>1 DEF MintSession
    <3>3. MayMint(req[r]) => new.device = None \/ Active(device[new.device].status)
      BY <2>1 DEF MintSession, MayMint, TrustInv, RequestsOK, Shape
    <3> HIDE DEF new
    <3> QED BY <3>1, <3>2, <3>3 DEF SessionsOfTrustedDevices
  <2>2. CASE ~MintSession(r)
    BY <1>2, <2>2 DEF FinishLogin, BeginLogin, ConsumeLogin, CheckEpoch, LookupDevice,
                      AuthenticateDevice, trust, access, SessionsOfTrustedDevices
  <2> QED BY <2>1, <2>2
<1>3. ASSUME NEW r \in Requests, RegisterDevice(r) PROVE SessionsOfTrustedDevices'
  <2>1. CASE BeginRegister(r) \/ FindExisting(r)
    BY <2>1 DEF BeginRegister, FindExisting, trust, access, SessionsOfTrustedDevices
  <2> QED BY <1>3, <2>1, RegistrationTrust DEF RegisterDevice
<1>4. ASSUME NEW r \in Requests, Manage(r) PROVE SessionsOfTrustedDevices'
  BY <1>4, ManagementTrust
<1>5. ASSUME NEW r \in Requests, Recover(r) PROVE SessionsOfTrustedDevices'
  BY <1>5 DEF Recover, BeginRecover, FinishRecovery, BeginRotate, RotateRecovery,
              trust, access, SessionsOfTrustedDevices
<1>6. ASSUME NEW r \in Requests, Leave(r) PROVE SessionsOfTrustedDevices'
  BY <1>6 DEF Leave, trust, access, SessionsOfTrustedDevices
<1> QED BY <1>1, <1>2, <1>3, <1>4, <1>5, <1>6 DEF Next

\* A bound session's device is pending or approved, whatever logins, approvals,
\* rejections, revocations, rotations and recoveries interleave, as long as no
\* client registers through POST /devices, which writes back a status it has read
\* before its batch.
THEOREM SessionsFollowTrust ==
  ASSUME "register" \notin Kinds
  PROVE  Spec => []SessionsOfTrustedDevices
<1>1. Init => SessionsOfTrustedDevices
  <2>1. First.id \in Ids
    BY DeviceAssumption DEF Install
  <2> QED BY <2>1 DEF Init, SessionsOfTrustedDevices, Row, Active
<1>2. TrustInv /\ SessionsOfTrustedDevices /\ [Next]_vars => SessionsOfTrustedDevices'
  BY TrustStep
<1> QED BY <1>1, <1>2, InvHolds, PTL DEF Spec

----------------------------------------------------------------------------
(* One login session, one session.                                          *)

\* A request that holds a login session: it has consumed it, or is about to.
HoldsTicket(q) == q.kind \in {"login", "cookie"}
Consumer(q) == HoldsTicket(q) /\ q.pc # "consume"

\* The numbers of the login sessions, of the requests that finish one and of the
\* sessions are of logins that were started.
NumbersAreUsed ==
  /\ \A l \in logins : l.id \in 1..lastLogin
  /\ \A r \in Requests : HoldsTicket(req[r]) => req[r].ticket \in 1..lastLogin
  /\ \A s \in sessions : s.login \in 0..lastLogin

\* A login session is in one place: in its table, with the request that has
\* consumed it, or in the session minted from it.
LoginIsInOnePlace ==
  /\ \A l, m \in logins : l.id = m.id => l = m
  /\ \A r, t \in Requests :
       Consumer(req[r]) /\ Consumer(req[t]) /\ req[r].ticket = req[t].ticket => r = t
  /\ \A s, t \in sessions : s.login = t.login => s = t
  /\ \A l \in logins, r \in Requests : Consumer(req[r]) => req[r].ticket # l.id
  /\ \A l \in logins, s \in sessions : s.login # l.id
  /\ \A s \in sessions, r \in Requests : Consumer(req[r]) => req[r].ticket # s.login

\* The inductive invariant that LoginConsumedOnce follows from.
LoginInv == NumbersAreUsed /\ LoginIsInOnePlace

\* A step of a handler that takes no new login session in hand.
SameTickets ==
  \A r \in Requests : HoldsTicket(req'[r]) =>
    /\ HoldsTicket(req[r])
    /\ req'[r].ticket = req[r].ticket
    /\ req[r].pc = "consume" => req'[r].pc = "consume"

\* A step that starts no login, takes none in hand and mints nothing.
QuietStep ==
  /\ sessions' \subseteq sessions
  /\ logins' \subseteq logins
  /\ lastLogin' = lastLogin
  /\ SameTickets

\* A handler that goes on, with the same login session or without one.
LEMMA OneTicket ==
  ASSUME TrustInv, NEW r \in Requests, NEW q,
         req' = [req EXCEPT ![r] = q],
         HoldsTicket(q) => /\ HoldsTicket(req[r])
                           /\ q.ticket = req[r].ticket
                           /\ req[r].pc # "consume"
  PROVE  SameTickets
<1>1. \A s \in Requests : req'[s] = IF s = r THEN q ELSE req[s]
  BY DEF TrustInv, RequestsOK
<1> QED BY <1>1 DEF SameTickets

LEMMA ReturnTicket ==
  ASSUME TrustInv, NEW r \in Requests, Return(r) PROVE SameTickets
<1>1. ~HoldsTicket(Idle)
  BY DEF HoldsTicket, Idle
<1> QED BY <1>1, OneTicket DEF Return

LEMMA GotoTicket ==
  ASSUME TrustInv, NEW r \in Requests, NEW pc, req[r].pc # "consume", Goto(r, pc)
  PROVE  SameTickets
<1> DEFINE q == [req[r] EXCEPT !.pc = pc]
<1>1. req[r] \in Request
  BY DEF TrustInv, RequestsOK
<1>2. q.kind = req[r].kind /\ q.ticket = req[r].ticket
  BY <1>1 DEF Request
<1>3. req' = [req EXCEPT ![r] = q]
  BY DEF Goto
<1> HIDE DEF q
<1> QED BY <1>2, <1>3, OneTicket DEF HoldsTicket

\* The steps that do take a login session in hand, consume it or mint from it are
\* those of consumeLoginSession and of the two inserts of a session.
LEMMA LoginSteps ==
  ASSUME TrustInv, [Next]_vars
  PROVE  \/ StartLogin
         \/ \E r \in Requests : BeginLogin(r) \/ ConsumeLogin(r) \/ MintSession(r)
         \/ QuietStep
<1> USE DEF QuietStep
<1>1. CASE EndSession \/ StartRecovery \/ ExpireAttempt \/ UNCHANGED vars
  BY <1>1 DEF EndSession, StartRecovery, ExpireAttempt, vars, access, trust, recovery,
              SameTickets
<1>2. ASSUME NEW r \in Requests, FinishLogin(r),
             ~BeginLogin(r), ~ConsumeLogin(r), ~MintSession(r)
      PROVE  QuietStep
  <2>1. CASE CheckEpoch(r)
    BY <2>1, ReturnTicket, GotoTicket DEF CheckEpoch, access
  <2>2. CASE LookupDevice(r)
    BY <2>2, GotoTicket DEF LookupDevice, access
  <2>3. CASE AuthenticateDevice(r)
    <3>1. CASE Return(r)
      BY <2>3, <3>1, ReturnTicket DEF AuthenticateDevice, access
    <3>2. CASE ~Return(r)
      <4> DEFINE q == [req[r] EXCEPT !.pc = "mint", !.target = req[r].install.id]
      <4>1. req' = [req EXCEPT ![r] = q] /\ req[r].pc # "consume"
        BY <2>3, <3>2 DEF AuthenticateDevice
      <4>2. q.kind = req[r].kind /\ q.ticket = req[r].ticket
        BY DEF TrustInv, RequestsOK, Request
      <4> HIDE DEF q
      <4>3. SameTickets
        BY <4>1, <4>2, OneTicket DEF HoldsTicket
      <4> QED BY <2>3, <4>3 DEF AuthenticateDevice, access
    <3> QED BY <3>1, <3>2
  <2> QED BY <1>2, <2>1, <2>2, <2>3 DEF FinishLogin
<1>3. ASSUME NEW r \in Requests, RegisterDevice(r) PROVE QuietStep
  <2>1. CASE BeginRegister(r)
    <3>1. PICK i : req' = [req EXCEPT ![r] =
            [Idle EXCEPT !.pc = "find", !.kind = "register", !.install = i]]
      BY <2>1 DEF BeginRegister
    <3>2. [Idle EXCEPT !.pc = "find", !.kind = "register", !.install = i].kind = "register"
      BY DEF Idle
    <3>3. SameTickets
      BY <3>1, <3>2, OneTicket DEF HoldsTicket
    <3> QED BY <2>1, <3>3 DEF BeginRegister, access
  <2>2. CASE FindExisting(r)
    <3>1. CASE Return(r)
      BY <2>2, <3>1, ReturnTicket DEF FindExisting, access
    <3>2. ASSUME NEW d, NEW row, req' = [req EXCEPT ![r].pc = "register",
                                            ![r].existing = d, ![r].seen = row]
          PROVE  SameTickets
      <4> DEFINE q == [req[r] EXCEPT !.pc = "register", !.existing = d, !.seen = row]
      <4>1. req' = [req EXCEPT ![r] = q] /\ req[r].pc # "consume"
        BY <2>2, <3>2 DEF FindExisting
      <4>2. q.kind = req[r].kind /\ q.ticket = req[r].ticket
        BY DEF TrustInv, RequestsOK, Request
      <4> HIDE DEF q
      <4> QED BY <4>1, <4>2, OneTicket DEF HoldsTicket
    <3>3. SameTickets
      BY <2>2, <3>2, ReturnTicket DEF FindExisting
    <3> QED BY <2>2, <3>3 DEF FindExisting, access
  <2>3. ASSUME NEW d, req[r].pc = "register", Registered(r, d) PROVE SameTickets
    <3>1. CASE req[r].kind = "login"
      <4> DEFINE q == [req[r] EXCEPT !.pc = "mint", !.target = d]
      <4>1. req' = [req EXCEPT ![r] = q]
        BY <2>3, <3>1 DEF Registered
      <4>2. q.kind = req[r].kind /\ q.ticket = req[r].ticket
        BY DEF TrustInv, RequestsOK, Request
      <4> HIDE DEF q
      <4> QED BY <2>3, <4>1, <4>2, OneTicket DEF HoldsTicket
    <3>2. CASE req[r].kind # "login"
      BY <2>3, <3>2, ReturnTicket DEF Registered
    <3> QED BY <3>1, <3>2
  <2>4. CASE InsertDevice(r)
    <3>1. SameTickets
      BY <2>3, <2>4, ReturnTicket DEF InsertDevice
    <3> QED BY <2>4, <3>1 DEF InsertDevice
  <2>5. CASE UpdateDevice(r)
    <3>1. SameTickets
      BY <2>3, <2>5, ReturnTicket DEF UpdateDevice
    <3> QED BY <2>5, <3>1 DEF UpdateDevice
  <2> QED BY <1>3, <2>1, <2>2, <2>4, <2>5 DEF RegisterDevice
<1>4. ASSUME NEW r \in Requests, Manage(r) PROVE QuietStep
  <2>1. CASE BeginManage(r)
    <3>1. PICK kind \in {"approve", "reject", "revoke", "share"}, d \in Ids :
            req' = [req EXCEPT ![r] = [Idle EXCEPT !.pc = "target", !.kind = kind,
                                                   !.target = d]]
      BY <2>1 DEF BeginManage
    <3> DEFINE q == [Idle EXCEPT !.pc = "target", !.kind = kind, !.target = d]
    <3>2. ~HoldsTicket(q)
      BY DEF Idle, HoldsTicket
    <3> HIDE DEF q
    <3>3. SameTickets
      BY <3>1, <3>2, OneTicket DEF q
    <3> QED BY <2>1, <3>3 DEF BeginManage, access
  <2>2. CASE ReadTarget(r)
    <3>1. CASE Return(r)
      BY <2>2, <3>1, ReturnTicket DEF ReadTarget, access
    <3>2. CASE ~Return(r)
      <4> DEFINE q == [req[r] EXCEPT
                         !.pc = Decision(req[r].kind, device[req[r].target].status),
                         !.seen = device[req[r].target]]
      <4>1. req' = [req EXCEPT ![r] = q] /\ req[r].pc # "consume"
        BY <2>2, <3>2 DEF ReadTarget
      <4>2. q.kind = req[r].kind /\ q.ticket = req[r].ticket
        BY DEF TrustInv, RequestsOK, Request
      <4> HIDE DEF q
      <4>3. SameTickets
        BY <4>1, <4>2, OneTicket DEF HoldsTicket
      <4> QED BY <2>2, <4>3 DEF ReadTarget, access
    <3> QED BY <3>1, <3>2
  <2>3. CASE ApproveDevice(r) \/ SaveVaultKey(r)
    BY <2>3, ReturnTicket DEF ApproveDevice, SaveVaultKey, access
  <2>4. CASE RejectDevice(r) \/ RevokeDevice(r)
    BY <2>4, ReturnTicket DEF RejectDevice, RevokeDevice, Expel
  <2> QED BY <1>4, <2>1, <2>2, <2>3, <2>4 DEF Manage
<1>5. ASSUME NEW r \in Requests, Recover(r) PROVE QuietStep
  <2>1. CASE BeginRecover(r)
    <3>1. PICK a \in attempts, i \in Installs :
            req' = [req EXCEPT ![r] = [Idle EXCEPT !.pc = "recover", !.kind = "recover",
              !.ticket = a.id, !.epoch = a.epoch, !.gen = a.gen, !.install = i]]
      BY <2>1 DEF BeginRecover
    <3> DEFINE q == [Idle EXCEPT !.pc = "recover", !.kind = "recover",
                       !.ticket = a.id, !.epoch = a.epoch, !.gen = a.gen, !.install = i]
    <3>2. ~HoldsTicket(q)
      BY DEF Idle, HoldsTicket
    <3> HIDE DEF q
    <3>3. SameTickets
      BY <3>1, <3>2, OneTicket DEF q
    <3> QED BY <2>1, <3>3 DEF BeginRecover, access
  <2>3. CASE BeginRotate(r)
    <3> DEFINE q == [Idle EXCEPT !.pc = "rotate", !.kind = "rotate",
                                 !.epoch = authEpoch, !.gen = generation]
    <3>1. req' = [req EXCEPT ![r] = q]
      BY <2>3 DEF BeginRotate
    <3>2. ~HoldsTicket(q)
      BY DEF Idle, HoldsTicket
    <3> HIDE DEF q
    <3>3. SameTickets
      BY <3>1, <3>2, OneTicket
    <3> QED BY <2>3, <3>3 DEF BeginRotate, access
  <2>2. CASE FinishRecovery(r) \/ RotateRecovery(r)
    <3>1. SameTickets
      BY <2>2, ReturnTicket DEF FinishRecovery, RotateRecovery
    <3> QED BY <2>2, <3>1 DEF FinishRecovery, RotateRecovery, access
  <2> QED BY <1>5, <2>1, <2>2, <2>3 DEF Recover
<1>6. ASSUME NEW r \in Requests, Leave(r) PROVE QuietStep
  BY <1>6, ReturnTicket DEF Leave, access
<1> HIDE DEF QuietStep
<1> QED BY <1>1, <1>2, <1>3, <1>4, <1>5, <1>6 DEF Next

LEMMA InitLogin == Init => LoginInv
  BY DEF Init, LoginInv, NumbersAreUsed, LoginIsInOnePlace, HoldsTicket, Consumer, Idle

\* A login session has a number nothing else has.
LEMMA StartLoginKeeps == ASSUME TrustInv, LoginInv, StartLogin PROVE LoginInv'
<1> DEFINE new == [id |-> lastLogin + 1, epoch |-> authEpoch]
<1>1. /\ lastLogin \in Nat
      /\ lastLogin' = lastLogin + 1
      /\ logins' = logins \cup {new}
      /\ sessions' = sessions
      /\ req' = req
  BY DEF StartLogin, TrustInv, TablesOK
<1>2. new.id = lastLogin + 1
  OBVIOUS
<1> HIDE DEF new
<1>3. NumbersAreUsed'
  BY <1>1, <1>2 DEF LoginInv, NumbersAreUsed
<1>4. LoginIsInOnePlace'
  <2>1. \A l \in logins : l.id # lastLogin + 1
    BY <1>1 DEF LoginInv, NumbersAreUsed
  <2>2. \A r \in Requests : Consumer(req[r]) => req[r].ticket # lastLogin + 1
    BY <1>1 DEF LoginInv, NumbersAreUsed, Consumer
  <2>3. \A s \in sessions : s.login # lastLogin + 1
    BY <1>1 DEF LoginInv, NumbersAreUsed
  <2> QED BY <1>1, <1>2, <2>1, <2>2, <2>3 DEF LoginInv, LoginIsInOnePlace
<1> QED BY <1>3, <1>4 DEF LoginInv

\* A request that has read a login session holds it only when it has deleted it.
LEMMA BeginLoginKeeps ==
  ASSUME TrustInv, LoginInv, NEW r \in Requests, BeginLogin(r) PROVE LoginInv'
<1>1. PICK l \in logins, kind \in Kinds \cap {"login", "cookie"}, i \in Installs :
        req' = [req EXCEPT ![r] = [Idle EXCEPT !.pc = "consume", !.kind = kind,
                  !.ticket = l.id, !.epoch = l.epoch,
                  !.install = IF kind = "login" THEN i ELSE NoInstall]]
  BY DEF BeginLogin
<1> DEFINE q == [Idle EXCEPT !.pc = "consume", !.kind = kind,
                   !.ticket = l.id, !.epoch = l.epoch,
                   !.install = IF kind = "login" THEN i ELSE NoInstall]
<1>2. q.ticket = l.id /\ ~Consumer(q)
  BY DEF Idle, Consumer
<1> HIDE DEF q
<1>3. \A s \in Requests : req'[s] = IF s = r THEN q ELSE req[s]
  BY <1>1 DEF TrustInv, RequestsOK, q
<1>4. sessions' = sessions /\ logins' = logins /\ lastLogin' = lastLogin
  BY DEF BeginLogin, access
<1>5. NumbersAreUsed'
  BY <1>2, <1>3, <1>4 DEF LoginInv, NumbersAreUsed
<1>6. LoginIsInOnePlace'
  BY <1>2, <1>3, <1>4 DEF LoginInv, LoginIsInOnePlace
<1> QED BY <1>5, <1>6 DEF LoginInv

\* DELETE tells the request that took the row from its twin.
LEMMA ConsumeLoginKeeps ==
  ASSUME TrustInv, LoginInv, NEW r \in Requests, ConsumeLogin(r) PROVE LoginInv'
<1> DEFINE l == [id |-> req[r].ticket, epoch |-> req[r].epoch]
           q == IF Consumed(l) THEN [req[r] EXCEPT !.pc = "epoch"] ELSE Idle
<1>1. /\ logins' = logins \ {l}
      /\ sessions' = sessions
      /\ lastLogin' = lastLogin
      /\ req' = [req EXCEPT ![r] = q]
      /\ req[r].pc = "consume"
  BY DEF ConsumeLogin, Goto, Return
<1>2. l.id = req[r].ticket
  OBVIOUS
<1>3. /\ Consumer(q) => l \in logins /\ q.ticket = req[r].ticket
      /\ HoldsTicket(q) => HoldsTicket(req[r]) /\ q.ticket = req[r].ticket
  <2>1. CASE Consumed(l)
    <3>1. q.kind = req[r].kind /\ q.ticket = req[r].ticket
      BY <2>1 DEF TrustInv, RequestsOK, Request
    <3> HIDE DEF q, l
    <3> QED BY <2>1, <3>1 DEF Consumed, HoldsTicket
  <2>2. CASE ~Consumed(l)
    BY <2>2 DEF Idle, HoldsTicket, Consumer
  <2> QED BY <2>1, <2>2
<1> HIDE DEF l, q
<1>4. \A s \in Requests : req'[s] = IF s = r THEN q ELSE req[s]
  BY <1>1 DEF TrustInv, RequestsOK
<1>5. NumbersAreUsed'
  BY <1>1, <1>3, <1>4 DEF LoginInv, NumbersAreUsed
<1>6. LoginIsInOnePlace'
  BY <1>1, <1>2, <1>3, <1>4 DEF LoginInv, LoginIsInOnePlace
<1> QED BY <1>5, <1>6 DEF LoginInv

\* The request that mints has returned: its login session is with the session.
LEMMA MintKeeps ==
  ASSUME TrustInv, LoginInv, NEW r \in Requests, MintSession(r) PROVE LoginInv'
<1> DEFINE new == [login |-> req[r].ticket, device |-> req[r].target,
                   epoch |-> req[r].epoch]
<1>1. /\ sessions' \subseteq sessions \cup {new}
      /\ logins' = logins
      /\ lastLogin' = lastLogin
      /\ req' = [req EXCEPT ![r] = Idle]
  BY DEF MintSession, Return
<1>2. new.login = req[r].ticket
  OBVIOUS
<1> HIDE DEF new
<1>3. \A s \in Requests : req'[s] = IF s = r THEN Idle ELSE req[s]
  BY <1>1 DEF TrustInv, RequestsOK
<1>4. ~HoldsTicket(Idle) /\ ~Consumer(Idle)
  BY DEF HoldsTicket, Consumer, Idle
<1>5. Consumer(req[r]) /\ HoldsTicket(req[r])
  BY DEF MintSession, TrustInv, RequestsOK, Shape, Consumer, HoldsTicket
<1>6. NumbersAreUsed'
  <2>1. new.login \in 0..lastLogin
    BY <1>2, <1>5 DEF LoginInv, NumbersAreUsed
  <2> QED BY <1>1, <1>3, <1>4, <2>1 DEF LoginInv, NumbersAreUsed
<1>7. LoginIsInOnePlace'
  BY <1>1, <1>2, <1>3, <1>4, <1>5 DEF LoginInv, LoginIsInOnePlace
<1> QED BY <1>6, <1>7 DEF LoginInv

LEMMA LoginStep == ASSUME TrustInv, LoginInv, [Next]_vars PROVE LoginInv'
<1>1. CASE QuietStep
  <2>1. \A r \in Requests : Consumer(req'[r]) => Consumer(req[r])
    BY <1>1 DEF QuietStep, SameTickets, Consumer
  <2>2. \A r \in Requests : HoldsTicket(req'[r]) =>
          HoldsTicket(req[r]) /\ req'[r].ticket = req[r].ticket
    BY <1>1 DEF QuietStep, SameTickets
  <2>3. \A r \in Requests : Consumer(req'[r]) => req'[r].ticket = req[r].ticket
    BY <2>2 DEF Consumer
  <2>4. NumbersAreUsed'
    BY <1>1, <2>2 DEF QuietStep, LoginInv, NumbersAreUsed
  <2>5. LoginIsInOnePlace'
    BY <1>1, <2>1, <2>3 DEF QuietStep, LoginInv, LoginIsInOnePlace
  <2> QED BY <2>4, <2>5 DEF LoginInv
<1> QED BY <1>1, LoginSteps, StartLoginKeeps, BeginLoginKeeps, ConsumeLoginKeeps, MintKeeps

\* A set of which any two members are equal is empty or a singleton.
LEMMA AtMostOne ==
  ASSUME NEW S, \A x, y \in S : x = y
  PROVE  \/ S = {} /\ Cardinality(S) = 0
         \/ S # {} /\ Cardinality(S) = 1
<1>1. CASE S = {}
  BY <1>1, FS_EmptySet
<1>2. ASSUME NEW x \in S PROVE S # {} /\ Cardinality(S) = 1
  <2>1. S = {x}
    BY <1>2
  <2> QED BY <2>1, FS_Singleton
<1> QED BY <1>1, <1>2

LEMMA LoginInvSuffices == LoginInv => LoginConsumedOnce
<1> SUFFICES ASSUME LoginInv, NEW n \in 1..lastLogin
             PROVE  /\ Cardinality(Finishing(n))
                         + Cardinality({s \in sessions : s.login = n}) <= 1
                    /\ Finishing(n) # {} => \A l \in logins : l.id # n
  BY DEF LoginConsumedOnce
<1> DEFINE minted == {s \in sessions : s.login = n}
<1>1. \A r \in Requests : r \in Finishing(n) <=> Consumer(req[r]) /\ req[r].ticket = n
  BY DEF Finishing, Consumer, HoldsTicket
<1>2. Finishing(n) \subseteq Requests
  BY DEF Finishing
<1>3. \A r, t \in Finishing(n) : r = t
  BY <1>1, <1>2 DEF LoginInv, LoginIsInOnePlace
<1>4. \A s, t \in minted : s = t
  BY DEF LoginInv, LoginIsInOnePlace
<1>5. Finishing(n) = {} \/ minted = {}
  BY <1>1, <1>2 DEF LoginInv, LoginIsInOnePlace
<1>6. Finishing(n) # {} => \A l \in logins : l.id # n
  BY <1>1, <1>2 DEF LoginInv, LoginIsInOnePlace
<1> HIDE DEF minted
<1>7. Cardinality(Finishing(n)) + Cardinality(minted) <= 1
  BY <1>3, <1>4, <1>5, AtMostOne
<1> QED BY <1>6, <1>7 DEF minted

\* One proof of the password makes at most one session, however many finish
\* requests of the login race, and whatever recovery or expiry happens between
\* their steps (consumeLoginSession, rotateDeviceSession, createSession).
THEOREM PasswordProvesOnce == Spec => []LoginConsumedOnce
<1>1. TrustInv /\ LoginInv /\ [Next]_vars => LoginInv'
  BY LoginStep
<1> QED BY <1>1, InitLogin, InvHolds, LoginInvSuffices, PTL DEF Spec

----------------------------------------------------------------------------
(* One recovery code, one recovery.                                         *)

\* What was begun with a recovery code: an attempt has its own number, no claim is
\* of an attempt that was never begun, and the code of a claimed attempt has been
\* replaced.
CodesMoveOn ==
  /\ claims \subseteq 1..lastAttempt
  /\ \A a \in attempts : a.id \in 1..lastAttempt /\ a.gen <= generation
  /\ \A a, b \in attempts : a.id = b.id => a = b
  /\ \A a \in attempts : a.id \in claims => a.gen < generation

\* The inductive invariant of RecoveryCodeUsedOnce.
CodeInv == CodesMoveOn /\ RecoveryCodeUsedOnce

LEMMA InitCode == Init => CodeInv
  BY DEF Init, CodeInv, CodesMoveOn, RecoveryCodeUsedOnce

LEMMA StartRecoveryKeeps == ASSUME TrustInv, CodeInv, StartRecovery PROVE CodeInv'
<1> DEFINE new == [id |-> lastAttempt + 1, epoch |-> authEpoch, gen |-> generation,
                   open |-> TRUE]
<1>1. /\ lastAttempt \in Nat /\ generation \in Nat
      /\ lastAttempt' = lastAttempt + 1
      /\ attempts' = attempts \cup {new}
      /\ claims' = claims
      /\ generation' = generation
  BY DEF StartRecovery, TrustInv, TablesOK, trust
<1>2. new.id = lastAttempt + 1 /\ new.gen = generation
  OBVIOUS
<1> HIDE DEF new
<1>3. /\ \A a \in attempts : a.id # new.id
      /\ new.id \notin claims
  BY <1>1, <1>2 DEF CodeInv, CodesMoveOn
<1>4. CodesMoveOn'
  BY <1>1, <1>2, <1>3 DEF CodeInv, CodesMoveOn
<1>5. RecoveryCodeUsedOnce'
  BY <1>1, <1>3 DEF CodeInv, RecoveryCodeUsedOnce
<1> QED BY <1>4, <1>5 DEF CodeInv

\* The attempt that is claimed is of the code in force: no earlier claim is, and
\* the batch puts the next code in its place.
LEMMA FinishRecoveryKeeps ==
  ASSUME TrustInv, CodeInv, NEW r \in Requests, FinishRecovery(r), Eligible(req[r])
  PROVE  CodeInv'
<1> DEFINE q == req[r]
           Closed(a) == [a EXCEPT !.open = FALSE]
<1>1. /\ generation \in Nat /\ lastAttempt \in Nat
      /\ generation' = generation + 1
      /\ lastAttempt' = lastAttempt
      /\ claims' = claims \cup {q.ticket}
      /\ attempts' = {Closed(a) : a \in attempts}
      /\ attempts \subseteq Attempt
  BY DEF FinishRecovery, TrustInv, TablesOK
<1>2. PICK own \in attempts : own.id = q.ticket /\ own.gen = generation
  BY DEF Eligible
<1>3. \A a \in attempts : Closed(a).id = a.id /\ Closed(a).gen = a.gen
  BY <1>1 DEF Attempt
<1> HIDE DEF Closed, q
<1>4. CodesMoveOn'
  <2>1. claims' \subseteq 1..lastAttempt'
    BY <1>1, <1>2 DEF CodeInv, CodesMoveOn
  <2>2. \A a \in attempts' : a.id \in 1..lastAttempt' /\ a.gen <= generation
    BY <1>1, <1>3 DEF CodeInv, CodesMoveOn
  <2>3. \A a \in attempts' : a.gen \in Nat
    BY <1>1, <1>3 DEF Attempt
  <2>4. \A a, b \in attempts' : a.id = b.id => a = b
    BY <1>1, <1>3 DEF CodeInv, CodesMoveOn
  <2>5. \A a \in attempts' : a.gen <= generation' /\ a.gen < generation'
    BY <1>1, <2>2, <2>3
  <2> QED BY <2>1, <2>2, <2>4, <2>5 DEF CodesMoveOn
<1>5. RecoveryCodeUsedOnce'
  <2>1. ASSUME NEW a \in attempts, NEW b \in attempts,
               a.id \in claims', b.id \in claims', a.gen = b.gen
        PROVE  a = b
    <3>1. CASE a.id \in claims /\ b.id \in claims
      BY <2>1, <3>1 DEF CodeInv, RecoveryCodeUsedOnce
    <3>2. CASE a.id = q.ticket /\ b.id = q.ticket
      BY <3>2 DEF CodeInv, CodesMoveOn
    <3>3. \A c \in attempts : c.id = q.ticket => c.gen = generation
      BY <1>2 DEF CodeInv, CodesMoveOn
    <3>4. \A c \in attempts : c.id \in claims => c.gen < generation
      BY DEF CodeInv, CodesMoveOn
    <3>5. a.gen \in Nat /\ b.gen \in Nat
      BY <1>1 DEF Attempt
    <3> QED BY <1>1, <2>1, <3>1, <3>2, <3>3, <3>4, <3>5
  <2> QED BY <1>1, <1>3, <2>1 DEF RecoveryCodeUsedOnce
<1> QED BY <1>4, <1>5 DEF CodeInv

LEMMA ExpireAttemptKeeps == ASSUME TrustInv, CodeInv, ExpireAttempt PROVE CodeInv'
<1>1. /\ attempts' \subseteq attempts /\ claims' \subseteq claims
      /\ lastAttempt' = lastAttempt /\ generation' = generation
  BY DEF ExpireAttempt, trust
<1> QED BY <1>1 DEF CodeInv, CodesMoveOn, RecoveryCodeUsedOnce

\* The other steps leave the attempts alone, and the code moves only forward.
LEMMA CodeSteps ==
  ASSUME TrustInv, [Next]_vars
  PROVE  \/ StartRecovery
         \/ ExpireAttempt
         \/ \E r \in Requests : FinishRecovery(r) /\ Eligible(req[r])
         \/ UNCHANGED recovery /\ generation' \in {generation, generation + 1}
<1> DEFINE Other == UNCHANGED recovery /\ generation' = generation
<1>1. CASE StartLogin \/ EndSession \/ UNCHANGED vars
  BY <1>1 DEF StartLogin, EndSession, vars, trust
<1>2. ASSUME NEW r \in Requests, FinishLogin(r) PROVE Other
  BY <1>2 DEF FinishLogin, BeginLogin, ConsumeLogin, CheckEpoch, LookupDevice,
              AuthenticateDevice, MintSession, trust
<1>3. ASSUME NEW r \in Requests, RegisterDevice(r) PROVE Other
  <2>1. CASE BeginRegister(r) \/ FindExisting(r)
    BY <2>1 DEF BeginRegister, FindExisting, trust
  <2>2. CASE InsertDevice(r)
    BY <2>2 DEF InsertDevice
  <2>3. CASE UpdateDevice(r)
    BY <2>3 DEF UpdateDevice
  <2> QED BY <1>3, <2>1, <2>2, <2>3 DEF RegisterDevice
<1>4. ASSUME NEW r \in Requests, Manage(r) PROVE Other
  BY <1>4 DEF Manage, BeginManage, ReadTarget, ApproveDevice, SaveVaultKey, RejectDevice,
              RevokeDevice, Expel, trust
<1>5. ASSUME NEW r \in Requests, Recover(r), ~(FinishRecovery(r) /\ Eligible(req[r]))
      PROVE  UNCHANGED recovery /\ generation' \in {generation, generation + 1}
  <2>1. CASE FinishRecovery(r)
    BY <1>5, <2>1 DEF FinishRecovery, trust, recovery
  <2>2. CASE ~FinishRecovery(r)
    BY <1>5, <2>2 DEF Recover, BeginRecover, BeginRotate, RotateRecovery, trust, recovery
  <2> QED BY <2>1, <2>2
<1>6. ASSUME NEW r \in Requests, Leave(r) PROVE Other
  BY <1>6 DEF Leave, trust
<1> QED BY <1>1, <1>2, <1>3, <1>4, <1>5, <1>6 DEF Next

LEMMA CodeStep == ASSUME TrustInv, CodeInv, [Next]_vars PROVE CodeInv'
<1>1. CASE UNCHANGED recovery /\ generation' \in {generation, generation + 1}
  <2>1. generation \in Nat /\ attempts \subseteq Attempt
    BY DEF TrustInv, TablesOK
  <2>2. \A a \in attempts : a.gen \in Nat
    BY <2>1 DEF Attempt
  <2>3. CodesMoveOn'
    BY <1>1, <2>1, <2>2 DEF CodeInv, CodesMoveOn, recovery
  <2>4. RecoveryCodeUsedOnce'
    BY <1>1 DEF CodeInv, RecoveryCodeUsedOnce, recovery
  <2> QED BY <2>3, <2>4 DEF CodeInv
<1> QED BY <1>1, CodeSteps, StartRecoveryKeeps, FinishRecoveryKeeps, ExpireAttemptKeeps

\* However recoveries, rotations and expiries interleave, one recovery code recovers
\* the account once (finishRecoveryV2, rotateRecoveryV2, cleanupExpiredSessions).
THEOREM RecoveriesUseTheirCode == Spec => []RecoveryCodeUsedOnce
<1>1. TrustInv /\ CodeInv /\ [Next]_vars => CodeInv'
  BY CodeStep
<1>2. CodeInv => RecoveryCodeUsedOnce
  BY DEF CodeInv
<1> QED BY <1>1, <1>2, InitCode, InvHolds, PTL DEF Spec

----------------------------------------------------------------------------
(* Vault keys and trust.                                                    *)

\* The installations that can have a row when nothing is registered through POST
\* /devices: the first one and those that log in or recover.
Known == Installs \cup {First}

\* k is the public key of an installation whose device id is d.
Owns(d, k) == \E i \in Known : i.id = d /\ i.key = k

\* An installation makes its device id and its key pair together and stores them
\* together, so that an id that comes back comes back with its key.
OneKeyPerId == \A i, j \in Known : i.id = j.id => i.key = j.key

\* What a request about a device's key rests on: it brings one of the installations,
\* or has read the key of the device it approves.
Keyed(q) ==
  /\ q.kind = "login" \/ q.pc = "recover" => q.install \in Installs
  /\ q.pc = "approve" => Owns(q.target, q.seen.key)
  /\ q.pc # "save"

\* A row has the key of its id, and so has a packet, even one that a row which is
\* gone or has been asked for again has left.
KeysAreOwned ==
  /\ \A d \in Ids : device[d].status # "none" => Owns(d, device[d].key)
  /\ \A d \in Ids : vaultKey[d] # NoPacket => Owns(d, vaultKey[d].key)

\* A row is approved with a packet, and rejected or revoked without one.
PacketsFollowStatus ==
  \A d \in Ids :
    /\ device[d].status = "approved" => vaultKey[d] # NoPacket
    /\ device[d].status \in {"rejected", "revoked"} => vaultKey[d] = NoPacket

TablesKeyed == KeysAreOwned /\ PacketsFollowStatus
RequestsKeyed == \A r \in Requests : Keyed(req[r])

\* The inductive invariant that VaultKeysFollowTrust follows from.
KeyInv == TablesKeyed /\ RequestsKeyed

LEMMA OwnersKeys == \A d, k : Owns(d, k) => d \in Ids /\ k \in Keys /\ k # None
<1>1. \A i \in Known : i.id \in Ids /\ i.key \in Keys /\ i.key # None
  BY DeviceAssumption DEF Known, Install
<1> QED BY <1>1 DEF Owns

LEMMA KeyInvSuffices ==
  ASSUME OneKeyPerId, TrustInv, KeyInv PROVE VaultKeysFollowTrust
<1> SUFFICES ASSUME NEW d \in Ids
             PROVE  /\ device[d].status = "approved" =>
                         vaultKey[d] # NoPacket /\ vaultKey[d].key = device[d].key
                    /\ device[d].status \in {"rejected", "revoked"} => vaultKey[d] = NoPacket
  BY DEF VaultKeysFollowTrust
<1>1. ASSUME device[d].status = "approved" PROVE vaultKey[d].key = device[d].key
  <2>1. vaultKey[d] # NoPacket
    BY <1>1 DEF KeyInv, TablesKeyed, PacketsFollowStatus
  <2>2. Owns(d, device[d].key) /\ Owns(d, vaultKey[d].key)
    BY <1>1, <2>1 DEF KeyInv, TablesKeyed, KeysAreOwned
  <2> QED BY <2>2 DEF Owns, OneKeyPerId
<1> QED BY <1>1 DEF KeyInv, TablesKeyed, PacketsFollowStatus

LEMMA InitKeys == Init => KeyInv
<1> SUFFICES ASSUME Init PROVE KeyInv
  OBVIOUS
<1>1. First \in Known /\ First.key # None
  BY DeviceAssumption DEF Known, Install
<1>2. Owns(First.id, First.key)
  BY <1>1 DEF Owns
<1>3. OwnPacket(First) # NoPacket /\ OwnPacket(First).key = First.key
  BY <1>1 DEF OwnPacket, NoPacket
<1>4. /\ Row("approved", First).status = "approved"
      /\ Row("approved", First).key = First.key
      /\ NoRow.status = "none"
  BY DEF Row, NoRow
<1>5. \A d \in Ids :
        /\ device[d] = IF d = First.id THEN Row("approved", First) ELSE NoRow
        /\ vaultKey[d] = IF d = First.id THEN OwnPacket(First) ELSE NoPacket
  BY DEF Init
<1>6. KeysAreOwned
  BY <1>2, <1>3, <1>4, <1>5 DEF KeysAreOwned
<1>7. PacketsFollowStatus
  BY <1>3, <1>4, <1>5 DEF PacketsFollowStatus
<1>8. Keyed(Idle)
  BY DEF Keyed, Idle
<1>9. RequestsKeyed
  BY <1>8 DEF Init, RequestsKeyed
<1> QED BY <1>6, <1>7, <1>9 DEF KeyInv, TablesKeyed

LEMMA OneKeyed ==
  ASSUME TrustInv, RequestsKeyed, NEW r \in Requests, NEW q, Keyed(q),
         req' = [req EXCEPT ![r] = q]
  PROVE  RequestsKeyed'
<1>1. \A s \in Requests : req'[s] = IF s = r THEN q ELSE req[s]
  BY DEF TrustInv, RequestsOK
<1> QED BY <1>1 DEF RequestsKeyed, Keyed

LEMMA ReturnKeyed ==
  ASSUME TrustInv, RequestsKeyed, NEW r \in Requests, Return(r) PROVE RequestsKeyed'
<1>1. Keyed(Idle)
  BY DEF Keyed, Idle
<1> QED BY <1>1, OneKeyed DEF Return

LEMMA GotoKeyed ==
  ASSUME TrustInv, RequestsKeyed, NEW r \in Requests, NEW pc \in PC \ {"approve", "save", "recover"},
         Goto(r, pc)
  PROVE  RequestsKeyed'
<1> DEFINE q == [req[r] EXCEPT !.pc = pc]
<1>1. q.kind = req[r].kind /\ q.install = req[r].install /\ q.pc = pc
  BY DEF TrustInv, RequestsOK, Request
<1>2. req' = [req EXCEPT ![r] = q]
  BY DEF Goto
<1> HIDE DEF q
<1>3. Keyed(q)
  BY <1>1 DEF RequestsKeyed, Keyed
<1> QED BY <1>2, <1>3, OneKeyed

\* Logging in changes no row and no packet.
LEMMA LoginKeyed ==
  ASSUME TrustInv, KeyInv, NEW r \in Requests, FinishLogin(r) PROVE KeyInv'
<1>1. device' = device /\ vaultKey' = vaultKey
  BY DEF FinishLogin, BeginLogin, ConsumeLogin, CheckEpoch, LookupDevice,
         AuthenticateDevice, MintSession, trust
<1>2. TablesKeyed'
  BY <1>1 DEF KeyInv, TablesKeyed, KeysAreOwned, PacketsFollowStatus
<1>3. RequestsKeyed'
  <2>1. CASE BeginLogin(r)
    <3>1. PICK l \in logins, kind \in Kinds \cap {"login", "cookie"}, i \in Installs :
            req' = [req EXCEPT ![r] = [Idle EXCEPT !.pc = "consume", !.kind = kind,
                      !.ticket = l.id, !.epoch = l.epoch,
                      !.install = IF kind = "login" THEN i ELSE NoInstall]]
      BY <2>1 DEF BeginLogin
    <3> DEFINE q == [Idle EXCEPT !.pc = "consume", !.kind = kind,
                       !.ticket = l.id, !.epoch = l.epoch,
                       !.install = IF kind = "login" THEN i ELSE NoInstall]
    <3>2. Keyed(q)
      BY DEF Idle, Keyed
    <3> HIDE DEF q
    <3> QED BY <3>1, <3>2, OneKeyed DEF q, KeyInv
  <2>2. CASE ConsumeLogin(r)
    BY <2>2, ReturnKeyed, GotoKeyed DEF ConsumeLogin, KeyInv, PC
  <2>3. CASE CheckEpoch(r)
    BY <2>3, ReturnKeyed, GotoKeyed DEF CheckEpoch, KeyInv, PC
  <2>4. CASE LookupDevice(r)
    BY <2>4, GotoKeyed DEF LookupDevice, KeyInv, PC
  <2>5. CASE AuthenticateDevice(r)
    <3>1. CASE Return(r)
      BY <3>1, ReturnKeyed DEF KeyInv
    <3>2. CASE ~Return(r)
      <4> DEFINE q == [req[r] EXCEPT !.pc = "mint", !.target = req[r].install.id]
      <4>1. req' = [req EXCEPT ![r] = q]
        BY <2>5, <3>2 DEF AuthenticateDevice
      <4>2. q.kind = req[r].kind /\ q.install = req[r].install /\ q.pc = "mint"
        BY DEF TrustInv, RequestsOK, Request
      <4> HIDE DEF q
      <4>3. Keyed(q)
        BY <4>2 DEF KeyInv, RequestsKeyed, Keyed
      <4> QED BY <4>1, <4>3, OneKeyed DEF KeyInv
    <3> QED BY <3>1, <3>2
  <2>6. CASE MintSession(r)
    BY <2>6, ReturnKeyed DEF MintSession, KeyInv
  <2> QED BY <2>1, <2>2, <2>3, <2>4, <2>5, <2>6 DEF FinishLogin
<1> QED BY <1>2, <1>3 DEF KeyInv

\* After the batch of registerDevice.
LEMMA RegisteredKeyed ==
  ASSUME TrustInv, RequestsKeyed, NEW r \in Requests, NEW d, Registered(r, d)
  PROVE  RequestsKeyed'
<1>1. CASE req[r].kind = "login"
  <2> DEFINE q == [req[r] EXCEPT !.pc = "mint", !.target = d]
  <2>1. req' = [req EXCEPT ![r] = q]
    BY <1>1 DEF Registered
  <2>2. q.kind = req[r].kind /\ q.install = req[r].install /\ q.pc = "mint"
    BY DEF TrustInv, RequestsOK, Request
  <2> HIDE DEF q
  <2>3. Keyed(q)
    BY <2>2 DEF RequestsKeyed, Keyed
  <2> QED BY <2>1, <2>3, OneKeyed
<1>2. CASE req[r].kind # "login"
  BY <1>2, ReturnKeyed DEF Registered
<1> QED BY <1>1, <1>2

\* The row an installation inserts has the key of its id; rows it replaces are gone
\* with their packets.
LEMMA InsertKeyed ==
  ASSUME "register" \notin Kinds, TrustInv, KeyInv, NEW r \in Requests, InsertDevice(r)
  PROVE  KeyInv'
<1> DEFINE q == req[r]
           old == IF q.existing = None THEN {} ELSE {q.existing}
           cleared == [d \in Ids |-> IF d \in old THEN NoRow ELSE device[d]]
           written == [cleared EXCEPT ![q.install.id] = Row("pending", q.install)]
<1>1. q \in Request /\ Shape(q) /\ Keyed(q) /\ q.pc = "register"
  BY DEF InsertDevice, TrustInv, RequestsOK, KeyInv, RequestsKeyed
<1>2. q.install \in Installs
  BY <1>1 DEF Shape, Request, Keyed
<1>3. CASE Return(r) /\ UNCHANGED <<device, vaultKey, sessions>>
  BY <1>3, ReturnKeyed DEF KeyInv, TablesKeyed, KeysAreOwned, PacketsFollowStatus
<1>4. CASE /\ device' = written
           /\ vaultKey' = [d \in Ids |-> IF d \in old THEN NoPacket ELSE vaultKey[d]]
           /\ Registered(r, q.install.id)
  <2> DEFINE row == Row("pending", q.install)
  <2>1. /\ row.status = "pending" /\ row.key = q.install.key
        /\ NoRow.status = "none"
    BY DEF Row, NoRow
  <2>2. Owns(q.install.id, row.key)
    BY <1>2, <2>1 DEF Owns, Known
  <2>3. ASSUME NEW d \in Ids
        PROVE  /\ device'[d] = IF d = q.install.id THEN row
                               ELSE IF d \in old THEN NoRow ELSE device[d]
               /\ vaultKey'[d] = IF d \in old THEN NoPacket ELSE vaultKey[d]
    BY <1>4
  <2>4. \A d \in Ids : vaultKey'[d] # NoPacket => vaultKey'[d] = vaultKey[d]
    BY <2>3
  <2> HIDE DEF row, old
  <2>5. KeysAreOwned'
    BY <2>1, <2>2, <2>3, <2>4 DEF KeyInv, TablesKeyed, KeysAreOwned
  <2>6. PacketsFollowStatus'
    BY <2>1, <2>3 DEF KeyInv, TablesKeyed, PacketsFollowStatus
  <2>7. RequestsKeyed'
    BY <1>4, RegisteredKeyed DEF KeyInv
  <2> QED BY <2>5, <2>6, <2>7 DEF KeyInv, TablesKeyed
<1> QED BY <1>3, <1>4 DEF InsertDevice

\* The row that an installation finds under its own id is asked for again, without
\* the packet; of the other rows that go the packets stay, and stay of their id.
LEMMA UpdateKeyed ==
  ASSUME "register" \notin Kinds, TrustInv, KeyInv, NEW r \in Requests, UpdateDevice(r)
  PROVE  KeyInv'
<1> DEFINE q == req[r]
           others == Matches(q.install) \ {q.existing}
           row == device[q.existing]
           next == [status |-> NextStatus(q), print |-> q.install.print,
                    key |-> q.install.key,
                    cred |-> IF Mobile(q) THEN q.install.cred ELSE row.cred]
           written == [d \in Ids |->
             IF d \in others THEN NoRow
             ELSE IF d = q.existing /\ row.status # "none" THEN next ELSE device[d]]
<1>1. q \in Request /\ Shape(q) /\ Keyed(q) /\ q.pc = "register"
  BY DEF UpdateDevice, TrustInv, RequestsOK, KeyInv, RequestsKeyed
<1>2. q.install \in Installs /\ Mobile(q)
  BY <1>1, DeviceAssumption DEF Shape, Request, Keyed, Mobile
<1>3. q.existing = q.install.id
  BY <1>2 DEF UpdateDevice
<1>4. CASE Return(r) /\ UNCHANGED <<device, vaultKey, sessions>>
  BY <1>4, ReturnKeyed DEF KeyInv, TablesKeyed, KeysAreOwned, PacketsFollowStatus
<1>5. CASE /\ device' = written
           /\ vaultKey' = [d \in Ids |-> IF d = q.existing THEN NoPacket ELSE vaultKey[d]]
           /\ Registered(r, q.existing)
  <2>1. /\ next.status = "pending" /\ next.key = q.install.key
        /\ NoRow.status = "none"
    BY <1>2 DEF NextStatus, NoRow
  <2>2. Owns(q.existing, next.key)
    BY <1>2, <1>3, <2>1 DEF Owns, Known
  <2>3. ASSUME NEW d \in Ids
        PROVE  /\ device'[d] = IF d \in others THEN NoRow
                               ELSE IF d = q.existing /\ row.status # "none" THEN next
                               ELSE device[d]
               /\ vaultKey'[d] = IF d = q.existing THEN NoPacket ELSE vaultKey[d]
    BY <1>5
  <2>4. \A d \in Ids : vaultKey'[d] # NoPacket => vaultKey'[d] = vaultKey[d]
    BY <2>3
  <2>5. row = device[q.existing]
    OBVIOUS
  <2> HIDE DEF next, others, row
  <2>6. KeysAreOwned'
    BY <2>1, <2>2, <2>3, <2>4 DEF KeyInv, TablesKeyed, KeysAreOwned
  <2>7. PacketsFollowStatus'
    BY <2>1, <2>3, <2>5 DEF KeyInv, TablesKeyed, PacketsFollowStatus
  <2>8. RequestsKeyed'
    BY <1>5, RegisteredKeyed DEF KeyInv
  <2> QED BY <2>6, <2>7, <2>8 DEF KeyInv, TablesKeyed
<1> QED BY <1>2, <1>4, <1>5 DEF UpdateDevice

\* A packet is written for the key the row has, and its device is approved with it.
LEMMA ApproveKeyed ==
  ASSUME TrustInv, KeyInv, NEW r \in Requests, ApproveDevice(r) PROVE KeyInv'
<1> DEFINE packet == PacketOf(r)
<1>1. packet # NoPacket /\ packet.key = req[r].seen.key
  BY DeviceAssumption DEF PacketOf, NoPacket
<1>2. Owns(req[r].target, packet.key)
  BY <1>1 DEF ApproveDevice, KeyInv, RequestsKeyed, Keyed
<1>3. ASSUME NEW d \in Ids
      PROVE  /\ vaultKey'[d] = IF d \in KeyTarget(r) THEN packet ELSE vaultKey[d]
             /\ device'[d].key = device[d].key
             /\ device'[d].status =
                  IF d = req[r].target /\ device[d].status = "pending" /\ vaultKey'[d] = packet
                  THEN "approved" ELSE device[d].status
  <2>1. device[d] \in Device
    BY DEF TrustInv, TablesOK
  <2>2. vaultKey'[d] = IF d \in KeyTarget(r) THEN packet ELSE vaultKey[d]
    BY DEF ApproveDevice
  <2>3. device'[d] =
          IF d = req[r].target /\ device[d].status = "pending" /\ vaultKey'[d] = packet
          THEN [device[d] EXCEPT !.status = "approved"] ELSE device[d]
    BY DEF ApproveDevice
  <2> HIDE DEF packet
  <2> QED BY <2>1, <2>2, <2>3 DEF Device
<1>4. \A d \in KeyTarget(r) : d = req[r].target /\ device[d].status = "pending"
  BY DEF KeyTarget
<1> HIDE DEF packet
<1>5. KeysAreOwned'
  BY <1>1, <1>2, <1>3, <1>4 DEF KeyInv, TablesKeyed, KeysAreOwned
<1>6. PacketsFollowStatus'
  BY <1>1, <1>3, <1>4 DEF KeyInv, TablesKeyed, PacketsFollowStatus
<1>7. RequestsKeyed'
  BY ReturnKeyed DEF ApproveDevice, KeyInv
<1> QED BY <1>5, <1>6, <1>7 DEF KeyInv, TablesKeyed

LEMMA ExpelKeyed ==
  ASSUME TrustInv, KeyInv, NEW r \in Requests, NEW status \in {"rejected", "revoked"},
         Expel(r, status)
  PROVE  KeyInv'
<1> DEFINE t == req[r].target
<1>1. ASSUME NEW d \in Ids
      PROVE  /\ vaultKey'[d] = IF d = t THEN NoPacket ELSE vaultKey[d]
             /\ device'[d].key = device[d].key
             /\ device'[d].status = IF d = t /\ device[d].status # "none" THEN status
                                    ELSE device[d].status
  <2>1. device \in [Ids -> Device] /\ vaultKey \in [Ids -> Packet]
    BY DEF TrustInv, TablesOK
  <2>2. vaultKey'[d] = IF d = t THEN NoPacket ELSE vaultKey[d]
    BY <2>1 DEF Expel
  <2>3. device'[d] = IF d = t /\ device[d].status # "none"
                     THEN [device[d] EXCEPT !.status = status] ELSE device[d]
    BY <2>1 DEF Expel
  <2> QED BY <2>1, <2>2, <2>3 DEF Device
<1> HIDE DEF t
<1>2. KeysAreOwned'
  BY <1>1 DEF KeyInv, TablesKeyed, KeysAreOwned
<1>3. PacketsFollowStatus'
  BY <1>1 DEF KeyInv, TablesKeyed, PacketsFollowStatus
<1>4. RequestsKeyed'
  BY ReturnKeyed DEF Expel, KeyInv
<1> QED BY <1>2, <1>3, <1>4 DEF KeyInv, TablesKeyed

LEMMA ManageKeyed ==
  ASSUME "share" \notin Kinds, TrustInv, KeyInv, NEW r \in Requests, Manage(r)
  PROVE  KeyInv'
<1>1. CASE BeginManage(r)
  <2>1. PICK kind \in {"approve", "reject", "revoke", "share"}, d \in Ids :
          req' = [req EXCEPT ![r] = [Idle EXCEPT !.pc = "target", !.kind = kind,
                                                 !.target = d]]
    BY <1>1 DEF BeginManage
  <2> DEFINE q == [Idle EXCEPT !.pc = "target", !.kind = kind, !.target = d]
  <2>2. Keyed(q)
    BY DEF Idle, Keyed
  <2> HIDE DEF q
  <2>3. RequestsKeyed'
    BY <2>1, <2>2, OneKeyed DEF q, KeyInv
  <2> QED BY <1>1, <2>3 DEF BeginManage, trust, KeyInv, TablesKeyed, KeysAreOwned,
                            PacketsFollowStatus
<1>2. CASE ReadTarget(r)
  <2>1. CASE Return(r)
    BY <1>2, <2>1, ReturnKeyed DEF ReadTarget, trust, KeyInv, TablesKeyed, KeysAreOwned,
                                   PacketsFollowStatus
  <2>2. CASE ~Return(r)
    <3> DEFINE row == device[req[r].target]
               next == Decision(req[r].kind, row.status)
               q == [req[r] EXCEPT !.pc = next, !.seen = row]
    <3>1. req[r] \in Request /\ Shape(req[r]) /\ req[r].pc = "target" /\ Keyed(req[r])
      BY <1>2 DEF ReadTarget, TrustInv, RequestsOK, KeyInv, RequestsKeyed
    <3>2. req[r].target \in Ids /\ req[r].kind # "share"
      BY <3>1 DEF Shape, Request
    <3>3. next = "approve" => row.status = "pending"
      BY DEF Decision
    <3>4. next \notin {"save", "recover"}
      BY <3>2 DEF Decision
    <3>5. next = "approve" => Owns(req[r].target, row.key)
      BY <3>2, <3>3 DEF KeyInv, TablesKeyed, KeysAreOwned
    <3>6. req' = [req EXCEPT ![r] = q]
      BY <1>2, <2>2 DEF ReadTarget
    <3> HIDE DEF next, row
    <3>7. /\ q.kind = req[r].kind /\ q.install = req[r].install
          /\ q.target = req[r].target /\ q.pc = next /\ q.seen = row
      BY <3>1 DEF Request
    <3> HIDE DEF q
    <3>8. Keyed(q)
      BY <3>1, <3>4, <3>5, <3>7 DEF Keyed
    <3>9. RequestsKeyed'
      BY <3>6, <3>8, OneKeyed DEF KeyInv
    <3> QED BY <1>2, <3>9 DEF ReadTarget, trust, KeyInv, TablesKeyed, KeysAreOwned,
                              PacketsFollowStatus
  <2> QED BY <2>1, <2>2
<1>3. ~SaveVaultKey(r)
  BY DEF SaveVaultKey, KeyInv, RequestsKeyed, Keyed
<1> QED BY <1>1, <1>2, <1>3, ApproveKeyed, ExpelKeyed DEF Manage, RejectDevice, RevokeDevice

\* Recovery withdraws every packet and approves its device with its own.
LEMMA RecoverKeyed ==
  ASSUME TrustInv, KeyInv, NEW r \in Requests, Recover(r) PROVE KeyInv'
<1>1. CASE BeginRecover(r)
  <2>1. PICK a \in attempts, i \in Installs :
          req' = [req EXCEPT ![r] = [Idle EXCEPT !.pc = "recover", !.kind = "recover",
            !.ticket = a.id, !.epoch = a.epoch, !.gen = a.gen, !.install = i]]
    BY <1>1 DEF BeginRecover
  <2> DEFINE q == [Idle EXCEPT !.pc = "recover", !.kind = "recover",
                     !.ticket = a.id, !.epoch = a.epoch, !.gen = a.gen, !.install = i]
  <2>2. Keyed(q)
    BY DEF Idle, Keyed
  <2> HIDE DEF q
  <2>3. RequestsKeyed'
    BY <2>1, <2>2, OneKeyed DEF q, KeyInv
  <2> QED BY <1>1, <2>3 DEF BeginRecover, trust, KeyInv, TablesKeyed, KeysAreOwned,
                            PacketsFollowStatus
<1>2. CASE BeginRotate(r)
  <2> DEFINE q == [Idle EXCEPT !.pc = "rotate", !.kind = "rotate",
                               !.epoch = authEpoch, !.gen = generation]
  <2>1. req' = [req EXCEPT ![r] = q]
    BY <1>2 DEF BeginRotate
  <2>2. Keyed(q)
    BY DEF Idle, Keyed
  <2> HIDE DEF q
  <2>3. RequestsKeyed'
    BY <2>1, <2>2, OneKeyed DEF KeyInv
  <2> QED BY <1>2, <2>3 DEF BeginRotate, trust, KeyInv, TablesKeyed, KeysAreOwned,
                            PacketsFollowStatus
<1>3. CASE RotateRecovery(r)
  BY <1>3, ReturnKeyed DEF RotateRecovery, KeyInv, TablesKeyed, KeysAreOwned,
                           PacketsFollowStatus
<1>4. CASE FinishRecovery(r) /\ ~Eligible(req[r])
  BY <1>4, ReturnKeyed DEF FinishRecovery, trust, KeyInv, TablesKeyed, KeysAreOwned,
                           PacketsFollowStatus
<1>5. CASE FinishRecovery(r) /\ Eligible(req[r])
  <2> DEFINE i == req[r].install
             gone(d) == [device[d] EXCEPT !.status = "revoked", !.cred = None]
  <2>1. req[r] \in Request /\ req[r].pc = "recover" /\ Shape(req[r]) /\ Keyed(req[r])
    BY <1>5 DEF FinishRecovery, TrustInv, RequestsOK, KeyInv, RequestsKeyed
  <2>2. i \in Installs
    BY <2>1 DEF Keyed
  <2>3. ASSUME NEW d \in Ids
        PROVE  /\ vaultKey'[d] = IF d = i.id THEN OwnPacket(i) ELSE NoPacket
               /\ device'[d] = IF d = i.id THEN Row("approved", i)
                               ELSE IF device[d].status = "none" THEN NoRow ELSE gone(d)
    BY <1>5 DEF FinishRecovery
  <2>4. \A d \in Ids : gone(d).status = "revoked" /\ gone(d).key = device[d].key
    BY DEF TrustInv, TablesOK, Device
  <2>5. /\ Row("approved", i).status = "approved" /\ Row("approved", i).key = i.key
        /\ NoRow.status = "none" /\ OwnPacket(i).key = i.key
    BY DEF Row, NoRow, OwnPacket
  <2>6. OwnPacket(i) # NoPacket /\ Owns(i.id, i.key)
    BY <2>2, DeviceAssumption DEF OwnPacket, NoPacket, Owns, Known, Install
  <2> HIDE DEF gone, i
  <2>7. KeysAreOwned'
    BY <2>3, <2>4, <2>5, <2>6 DEF KeyInv, TablesKeyed, KeysAreOwned
  <2>8. PacketsFollowStatus'
    BY <2>3, <2>4, <2>5, <2>6 DEF PacketsFollowStatus
  <2>9. RequestsKeyed'
    BY <1>5, ReturnKeyed DEF FinishRecovery, KeyInv
  <2> QED BY <2>7, <2>8, <2>9 DEF KeyInv, TablesKeyed
<1> QED BY <1>1, <1>2, <1>3, <1>4, <1>5 DEF Recover

LEMMA KeyStep ==
  ASSUME "register" \notin Kinds, "share" \notin Kinds, TrustInv, KeyInv, [Next]_vars
  PROVE  KeyInv'
<1>1. CASE StartLogin \/ EndSession \/ StartRecovery \/ ExpireAttempt \/ UNCHANGED vars
  <2>1. device' = device /\ vaultKey' = vaultKey /\ req' = req
    BY <1>1 DEF StartLogin, EndSession, StartRecovery, ExpireAttempt, vars, trust
  <2> QED BY <2>1 DEF KeyInv, TablesKeyed, KeysAreOwned, PacketsFollowStatus, RequestsKeyed
<1>2. ASSUME NEW r \in Requests, RegisterDevice(r) PROVE KeyInv'
  <2>1. CASE FindExisting(r)
    <3>1. RequestsKeyed'
      <4>1. ASSUME NEW d, NEW row, req' = [req EXCEPT ![r].pc = "register",
                                              ![r].existing = d, ![r].seen = row]
            PROVE  RequestsKeyed'
        <5> DEFINE q == [req[r] EXCEPT !.pc = "register", !.existing = d, !.seen = row]
        <5>1. req' = [req EXCEPT ![r] = q]
          BY <4>1
        <5>2. q.kind = req[r].kind /\ q.install = req[r].install /\ q.pc = "register"
          BY DEF TrustInv, RequestsOK, Request
        <5> HIDE DEF q
        <5>3. Keyed(q)
          BY <5>2 DEF KeyInv, RequestsKeyed, Keyed
        <5> QED BY <5>1, <5>3, OneKeyed DEF KeyInv
      <4> QED BY <2>1, <4>1, ReturnKeyed DEF FindExisting, KeyInv
    <3> QED BY <2>1, <3>1 DEF FindExisting, trust, KeyInv, TablesKeyed, KeysAreOwned,
                              PacketsFollowStatus
  <2>2. ~BeginRegister(r)
    BY DEF BeginRegister
  <2> QED BY <1>2, <2>1, <2>2, InsertKeyed, UpdateKeyed DEF RegisterDevice
<1>3. ASSUME NEW r \in Requests, Leave(r) PROVE KeyInv'
  BY <1>3, ReturnKeyed DEF Leave, trust, KeyInv, TablesKeyed, KeysAreOwned,
                           PacketsFollowStatus
<1> QED BY <1>1, <1>2, <1>3, LoginKeyed, ManageKeyed, RecoverKeyed DEF Next

\* An approved device has a packet for the key it has, and a rejected or revoked
\* one has none, whatever logins, approvals, rejections, revocations and recoveries
\* interleave (approveDeviceWithVaultKey, rejectDevice, revokeDevice,
\* finishRecoveryV2).  Not with POST /devices, which writes back a status without its
\* packet, nor with share-key, which writes a packet without looking at the status.
THEOREM KeysFollowTrust ==
  ASSUME "register" \notin Kinds, "share" \notin Kinds, OneKeyPerId
  PROVE  Spec => []VaultKeysFollowTrust
<1>1. TrustInv /\ KeyInv /\ [Next]_vars => KeyInv'
  BY KeyStep
<1>2. TrustInv /\ KeyInv => VaultKeysFollowTrust
  BY KeyInvSuffices
<1> QED BY <1>1, <1>2, InitKeys, InvHolds, PTL DEF Spec

=============================================================================
