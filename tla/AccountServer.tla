--------------------------- MODULE AccountServer ---------------------------
(***************************************************************************)
(* The account half of the sync server for one account: devices, sessions, *)
(* revocation, pairing, recovery re-root and the device directory.         *)
(*                                                                         *)
(* The store has one SQLite connection, so every statement or transaction  *)
(* is atomic; the sessionStore is atomic under its mutex.  A handler makes *)
(* several such accesses and holds nothing between them: a request r is a  *)
(* record in req[r], one action per access that another request can come   *)
(* between.  Accesses nothing can disturb (an account or recovery row,     *)
(* once there, stays; a check repeated by the next access) share a step.   *)
(* Signatures and keys are abstracted to who made them.                    *)
(***************************************************************************)
EXTENDS Naturals, Sequences, FiniteSets

CONSTANTS
  Device,         \* device ids
  Slot,           \* pairing session ids
  Request,        \* requests the server works on at one time
  Nobody,         \* no device
  MaxChallenges   \* bound: challenges issued

ASSUME AccountAssumption ==
  /\ Nobody \notin Device
  /\ MaxChallenges \in Nat

VARIABLES
  root,           \* account.root_statement: the device it names
  row,            \* row[d]: the device table
  statement,      \* the devices with a row in the revocation table
  recovery,       \* a recovery blob with its rootproof key is stored
  pairing,        \* pairing[s]: the pairing_session table
  challenge,      \* challenge[d]: authChallenges[d], a challenge number or 0
  rootChallenge,  \* rootChallenges[account], a challenge number or 0
  sessions,       \* the devices that hold a live token
  issued,         \* history: issued[c], whom challenge c was handed to
  req,            \* req[r]: the request r between two of its accesses
  used,           \* history: used[c], sessions and re-roots c was good for
  delivered       \* history: delivered[s], payloads handed out for slot s

database == <<root, row, statement, recovery, pairing>>
memory == <<challenge, rootChallenge, sessions>>
history == <<issued, used, delivered>>
vars == <<database, memory, history, req>>

NoRow == [there |-> FALSE, chain |-> <<>>, revoked |-> FALSE]
Fresh(chain) == [there |-> TRUE, chain |-> chain, revoked |-> FALSE]
Unused == [begun |-> FALSE, expired |-> FALSE, claimed |-> FALSE,
           device |-> Nobody, chain |-> <<>>, root |-> Nobody]
Idle == [op |-> "idle"]

Registered == {d \in Device : row[d].there}

\* activeDevice: the device is registered and not revoked.
Active(d) == row[d].there /\ ~row[d].revoked

\* Authenticate: the token is known, and the device is still active.
Authenticated(d) == d \in sessions /\ Active(d)

\* The chain starts at certificates issued by the root.
LeadsToRoot(d) == IF row[d].chain = <<>> THEN d = root ELSE Head(row[d].chain) = root

Begin(r, record) == req[r] = Idle /\ req' = [req EXCEPT ![r] = record]
At(r, op, step) == req[r].op = op /\ req[r].step = step
Continue(r, record) == req' = [req EXCEPT ![r] = record]
Done(r) == req' = [req EXCEPT ![r] = Idle]

Init ==
  /\ root = Nobody
  /\ row = [d \in Device |-> NoRow]
  /\ statement = {}
  /\ recovery = FALSE
  /\ pairing = [s \in Slot |-> Unused]
  /\ challenge = [d \in Device |-> 0]
  /\ rootChallenge = 0
  /\ sessions = {}
  /\ issued = <<>>
  /\ req = [r \in Request |-> Idle]
  /\ used = [c \in 1..MaxChallenges |-> 0]
  /\ delivered = [s \in Slot |-> 0]

\* CreateAccount: one transaction for the account and its first device.  The
\* account id is fresh; this is the one account the module follows.
CreateAccount(d) ==
  /\ root = Nobody
  /\ root' = d
  /\ row' = [row EXCEPT ![d] = Fresh(<<>>)]
  /\ UNCHANGED <<statement, recovery, pairing, memory, history, req>>

----------------------------------------------------------------------------
\* Sessions (POST /v1/auth/challenge, POST /v1/auth/session).

IssueChallenge(r, d) ==
  /\ Active(d) /\ Len(issued) < MaxChallenges
  /\ Begin(r, [op |-> "challenge", step |-> "put", device |-> d])
  /\ UNCHANGED <<database, memory, history>>

\* Issuing replaces the challenge that is outstanding for the device.
PutAuthChallenge(r) ==
  /\ At(r, "challenge", "put")
  /\ Len(issued) < MaxChallenges
  /\ issued' = Append(issued, req[r].device)
  /\ challenge' = [challenge EXCEPT ![req[r].device] = Len(issued) + 1]
  /\ Done(r)
  /\ UNCHANGED <<database, rootChallenge, sessions, used, delivered>>

\* Mutant of BurnChallenge: the challenge is read, not removed.
KeepChallenge(d) == challenge' = challenge

\* takeAuthChallenge removes the challenge whatever happens next.
BurnChallenge(d) == challenge' = [challenge EXCEPT ![d] = 0]

\* CreateSession, signed by device d over challenge c that d was handed.
TakeAuthChallenge(r, d, c) ==
  /\ challenge[d] # 0
  /\ issued[c] = d
  /\ Begin(r, [op |-> "session", step |-> "verify", device |-> d,
               value |-> challenge[d], signed |-> c])
  /\ BurnChallenge(d)
  /\ UNCHANGED <<database, rootChallenge, sessions, history>>

VerifyChallenge(r) ==
  /\ At(r, "session", "verify")
  /\ IF Active(req[r].device) /\ req[r].value = req[r].signed
       THEN Continue(r, [op |-> "session", step |-> "mint", device |-> req[r].device,
                         value |-> req[r].value])
       ELSE Done(r)
  /\ UNCHANGED <<database, memory, history>>

MintSession(r) ==
  /\ At(r, "session", "mint")
  /\ sessions' = sessions \cup {req[r].device}
  /\ used' = [used EXCEPT ![req[r].value] = @ + 1]
  /\ Done(r)
  /\ UNCHANGED <<database, challenge, rootChallenge, issued, delivered>>

\* now.After(expiresAt): an expired entry is answered like a missing one.
ExpireSession(d) ==
  /\ d \in sessions
  /\ sessions' = sessions \ {d}
  /\ UNCHANGED <<database, challenge, rootChallenge, history, req>>

ExpireChallenge(d) ==
  /\ challenge[d] # 0
  /\ challenge' = [challenge EXCEPT ![d] = 0]
  /\ UNCHANGED <<database, rootChallenge, sessions, history, req>>

ExpireRootChallenge ==
  /\ rootChallenge # 0
  /\ rootChallenge' = 0
  /\ UNCHANGED <<database, challenge, sessions, history, req>>

\* Challenges and tokens live in memory only; the requests die with the
\* process, each where it stands.
Restart ==
  /\ challenge' = [d \in Device |-> 0]
  /\ rootChallenge' = 0
  /\ sessions' = {}
  /\ req' = [r \in Request |-> Idle]
  /\ UNCHANGED <<database, history>>

----------------------------------------------------------------------------
\* Revocation (POST /v1/devices/{id}/revoke).

RevokeDevice(r, d, target) ==
  /\ Authenticated(d)
  /\ Begin(r, [op |-> "revoke", step |-> "check", device |-> d, target |-> target])
  /\ UNCHANGED <<database, memory, history>>

\* Mutant of CheckRevocation: the target is not looked up.
CheckIssuerOnly(r) ==
  /\ At(r, "revoke", "check")
  /\ IF Active(req[r].device)
       THEN Continue(r, [op |-> "revoke", step |-> "store", target |-> req[r].target])
       ELSE Done(r)
  /\ UNCHANGED <<database, memory, history>>

\* The issuer is checked again and the target looked up.
CheckRevocation(r) ==
  /\ At(r, "revoke", "check")
  /\ IF Active(req[r].device) /\ row[req[r].target].there
       THEN Continue(r, [op |-> "revoke", step |-> "store", target |-> req[r].target])
       ELSE Done(r)
  /\ UNCHANGED <<database, memory, history>>

\* Mutant of MarkRevoked: the statement is not part of the transaction.
MarkOnly(target) ==
  /\ row' = [row EXCEPT ![target].revoked = TRUE]
  /\ statement' = statement

\* AddRevocation: the mark and the statement in one transaction.
MarkRevoked(target) ==
  /\ row' = [row EXCEPT ![target].revoked = TRUE]
  /\ statement' = statement \cup {target}

AddRevocation(r) ==
  /\ At(r, "revoke", "store")
  /\ ~row[req[r].target].revoked
  /\ MarkRevoked(req[r].target)
  /\ Continue(r, [op |-> "revoke", step |-> "drop", target |-> req[r].target])
  /\ UNCHANGED <<root, recovery, pairing, memory, history>>

AlreadyRevoked(r) ==
  /\ At(r, "revoke", "store")
  /\ row[req[r].target].revoked
  /\ Done(r)
  /\ UNCHANGED <<database, memory, history>>

DropDevice(r) ==
  /\ At(r, "revoke", "drop")
  /\ challenge' = [challenge EXCEPT ![req[r].target] = 0]
  /\ sessions' = sessions \ {req[r].target}
  /\ Done(r)
  /\ UNCHANGED <<database, rootChallenge, history>>

----------------------------------------------------------------------------
\* Recovery (PUT /v1/recovery, POST /v1/root).

PutRecoveryBlob(r, d) ==
  /\ Authenticated(d)
  /\ Begin(r, [op |-> "recovery", step |-> "put"])
  /\ UNCHANGED <<database, memory, history>>

UpsertRecoveryBlob(r) ==
  /\ At(r, "recovery", "put")
  /\ recovery' = TRUE
  /\ Done(r)
  /\ UNCHANGED <<root, row, statement, pairing, memory, history>>

\* The recovery row is never deleted: reading it and storing the challenge
\* are one step.
IssueRootChallenge ==
  /\ recovery
  /\ Len(issued) < MaxChallenges
  /\ issued' = Append(issued, Nobody)
  /\ rootChallenge' = Len(issued) + 1
  /\ UNCHANGED <<database, challenge, sessions, used, delivered, req>>

\* ReRoot with a proof over challenge c.  A proof over another challenge
\* burns the outstanding one and ends there.
TakeRootChallenge(r, new, c) ==
  /\ rootChallenge # 0
  /\ issued[c] = Nobody
  /\ rootChallenge' = 0
  /\ req[r] = Idle
  /\ IF c = rootChallenge
       THEN Continue(r, [op |-> "reroot", step |-> "list", device |-> new, value |-> c])
       ELSE UNCHANGED req
  /\ UNCHANGED <<database, challenge, sessions, history>>

ListForReRoot(r) ==
  /\ At(r, "reroot", "list")
  /\ Continue(r, [op |-> "reroot", step |-> "replace", device |-> req[r].device,
                  value |-> req[r].value, listed |-> Registered])
  /\ UNCHANGED <<database, memory, history>>

\* Mutant of Replaceable: the insert of the new root device replaces a row.
AnyReplaceable(new) == TRUE

\* The primary key of device: a taken id rolls the transaction back.
Replaceable(new) == ~row[new].there

\* ReRoot of the store: new root, every device revoked, root device inserted.
ReplaceRoot(r) ==
  /\ At(r, "reroot", "replace")
  /\ Replaceable(req[r].device)
  /\ root' = req[r].device
  /\ row' = [d \in Device |->
               IF d = req[r].device THEN Fresh(<<>>)
               ELSE [row[d] EXCEPT !.revoked = row[d].there]]
  /\ used' = [used EXCEPT ![req[r].value] = @ + 1]
  /\ Continue(r, [op |-> "reroot", step |-> "drop", listed |-> req[r].listed])
  /\ UNCHANGED <<statement, recovery, pairing, memory, issued, delivered>>

ReRootRefused(r) ==
  /\ At(r, "reroot", "replace")
  /\ ~Replaceable(req[r].device)
  /\ Done(r)
  /\ UNCHANGED <<database, memory, history>>

DropAccount(r) ==
  /\ At(r, "reroot", "drop")
  /\ rootChallenge' = 0
  /\ challenge' = [d \in Device |-> IF d \in req[r].listed THEN 0 ELSE challenge[d]]
  /\ sessions' = {}
  /\ Done(r)
  /\ UNCHANGED <<database, history>>

----------------------------------------------------------------------------
\* Pairing (POST /v1/pair/begin, .../offer, .../claim).

BeginPairing(s) ==
  /\ root # Nobody
  /\ ~pairing[s].begun
  /\ pairing' = [pairing EXCEPT ![s].begun = TRUE]
  /\ UNCHANGED <<root, row, statement, recovery, memory, history, req>>

\* Time passes expires_at: a request that looks now finds no session.
ExpirePairing(s) ==
  /\ pairing[s].begun
  /\ ~pairing[s].expired
  /\ pairing' = [pairing EXCEPT ![s].expired = TRUE]
  /\ UNCHANGED <<root, row, statement, recovery, memory, history, req>>

\* pairingSessionInState
Available(s) == pairing[s].begun /\ ~pairing[s].expired /\ ~pairing[s].claimed

PostPairingOffer(r, d, s, new) ==
  /\ Authenticated(d)
  /\ Begin(r, [op |-> "offer", step |-> "session", device |-> d, slot |-> s, new |-> new])
  /\ UNCHANGED <<database, memory, history>>

LoadPairing(r) ==
  /\ At(r, "offer", "session")
  /\ IF Available(req[r].slot)
       THEN Continue(r, [op |-> "offer", step |-> "issuer", device |-> req[r].device,
                         slot |-> req[r].slot, new |-> req[r].new])
       ELSE Done(r)
  /\ UNCHANGED <<database, memory, history>>

\* activeDevice(issuer) and appendCertToChain over the chain just read.
LoadIssuer(r) ==
  /\ At(r, "offer", "issuer")
  /\ IF Active(req[r].device)
       THEN Continue(r, [op |-> "offer", step |-> "account", device |-> req[r].device,
                         slot |-> req[r].slot, new |-> req[r].new,
                         chain |-> Append(row[req[r].device].chain, req[r].device)])
       ELSE Done(r)
  /\ UNCHANGED <<database, memory, history>>

LoadAccount(r) ==
  /\ At(r, "offer", "account")
  /\ Continue(r, [op |-> "offer", step |-> "store", device |-> req[r].device,
                  slot |-> req[r].slot, new |-> req[r].new, chain |-> req[r].chain,
                  root |-> root])
  /\ UNCHANGED <<database, memory, history>>

\* Mutant of OfferFits: a second offer overwrites the first.
OfferAgain(r) == ~row[req[r].new].there

\* Mutant of OfferFits: the device row is written over one that exists.
OfferUpsert(r) == pairing[req[r].slot].device = Nobody

\* UPDATE ... WHERE offer IS NULL, then the insert of the device: the one-shot
\* guard and the primary key each roll both back.
OfferFits(r) == pairing[req[r].slot].device = Nobody /\ ~row[req[r].new].there

SetPairingOfferWithDevice(r) ==
  /\ At(r, "offer", "store")
  /\ IF OfferFits(r)
       THEN /\ pairing' = [pairing EXCEPT ![req[r].slot] =
                  [@ EXCEPT !.device = req[r].new, !.chain = req[r].chain, !.root = req[r].root]]
            /\ row' = [row EXCEPT ![req[r].new] = Fresh(req[r].chain)]
       ELSE UNCHANGED <<pairing, row>>
  /\ Done(r)
  /\ UNCHANGED <<root, statement, recovery, memory, history>>

\* The payload is the one read here, before the claim.
ClaimPairing(r, s) ==
  /\ Available(s)
  /\ pairing[s].device # Nobody
  /\ Begin(r, [op |-> "claim", step |-> "claim", slot |-> s])
  /\ UNCHANGED <<database, memory, history>>

\* UPDATE ... WHERE claimed_at IS NULL
Claimable(s) == ~pairing[s].claimed

ClaimPairingSession(r) ==
  /\ At(r, "claim", "claim")
  /\ IF Claimable(req[r].slot)
       THEN /\ pairing' = [pairing EXCEPT ![req[r].slot].claimed = TRUE]
            /\ delivered' = [delivered EXCEPT ![req[r].slot] = @ + 1]
       ELSE UNCHANGED <<pairing, delivered>>
  /\ Done(r)
  /\ UNCHANGED <<root, row, statement, recovery, memory, issued, used>>

----------------------------------------------------------------------------
\* The device directory (GET /v1/devices): three queries, no transaction.

DeviceDirectory(r, d) ==
  /\ Authenticated(d)
  /\ Begin(r, [op |-> "directory", step |-> "account"])
  /\ UNCHANGED <<database, memory, history>>

ShowAccount(r) ==
  /\ At(r, "directory", "account")
  /\ Continue(r, [op |-> "directory", step |-> "devices", root |-> root])
  /\ UNCHANGED <<database, memory, history>>

ListDevices(r) ==
  /\ At(r, "directory", "devices")
  /\ Continue(r, [op |-> "directory", step |-> "revocations", root |-> req[r].root,
                  revoked |-> {d \in Device : row[d].revoked}])
  /\ UNCHANGED <<database, memory, history>>

ListRevocations(r) ==
  /\ At(r, "directory", "revocations")
  /\ Continue(r, [op |-> "directory", step |-> "reply", root |-> req[r].root,
                  revoked |-> req[r].revoked, stated |-> statement])
  /\ UNCHANGED <<database, memory, history>>

Reply(r) ==
  /\ At(r, "directory", "reply")
  /\ Done(r)
  /\ UNCHANGED <<database, memory, history>>

----------------------------------------------------------------------------
SessionStep(r) ==
  \/ PutAuthChallenge(r) \/ VerifyChallenge(r) \/ MintSession(r)
  \/ \E d \in Device : IssueChallenge(r, d)
  \/ \E d \in Device, c \in DOMAIN issued : TakeAuthChallenge(r, d, c)

RevocationStep(r) ==
  \/ \E d, t \in Device : RevokeDevice(r, d, t)
  \/ CheckRevocation(r) \/ AddRevocation(r) \/ AlreadyRevoked(r) \/ DropDevice(r)

RecoveryStep(r) ==
  \/ \E d \in Device : PutRecoveryBlob(r, d)
  \/ \E d \in Device, c \in DOMAIN issued : TakeRootChallenge(r, d, c)
  \/ UpsertRecoveryBlob(r) \/ ListForReRoot(r) \/ ReplaceRoot(r) \/ ReRootRefused(r)
  \/ DropAccount(r)

PairingStep(r) ==
  \/ \E d, n \in Device, s \in Slot : PostPairingOffer(r, d, s, n)
  \/ \E s \in Slot : ClaimPairing(r, s)
  \/ LoadPairing(r) \/ LoadIssuer(r) \/ LoadAccount(r) \/ SetPairingOfferWithDevice(r)
  \/ ClaimPairingSession(r)

DirectoryStep(r) ==
  \/ \E d \in Device : DeviceDirectory(r, d)
  \/ ShowAccount(r) \/ ListDevices(r) \/ ListRevocations(r) \/ Reply(r)

Next ==
  \/ \E d \in Device : CreateAccount(d) \/ ExpireSession(d) \/ ExpireChallenge(d)
  \/ \E s \in Slot : BeginPairing(s) \/ ExpirePairing(s)
  \/ IssueRootChallenge \/ ExpireRootChallenge \/ Restart
  \/ \E r \in Request :
       \/ SessionStep(r) \/ RevocationStep(r) \/ RecoveryStep(r)
       \/ PairingStep(r) \/ DirectoryStep(r)

Spec == Init /\ [][Next]_vars

----------------------------------------------------------------------------
Row == [there : BOOLEAN, chain : Seq(Device), revoked : BOOLEAN]
Pairing == [begun : BOOLEAN, expired : BOOLEAN, claimed : BOOLEAN,
            device : Device \cup {Nobody}, chain : Seq(Device), root : Device \cup {Nobody}]

\* The tables and maps hold what their columns allow, and requests carry an
\* operation the server has.
TypeOK ==
  /\ root \in Device \cup {Nobody}
  /\ row \in [Device -> Row]
  /\ statement \subseteq Registered
  /\ recovery \in BOOLEAN
  /\ pairing \in [Slot -> Pairing]
  /\ challenge \in [Device -> 0..Len(issued)]
  /\ rootChallenge \in 0..Len(issued)
  /\ sessions \subseteq Registered
  /\ issued \in Seq(Device \cup {Nobody})
  /\ \A r \in Request : req[r].op \in {"idle", "challenge", "session", "revoke", "recovery",
                                      "reroot", "offer", "claim", "directory"}

\* The root's device is registered and certified by nobody, and no other
\* device that is certified by nobody is active: two recoveries that race
\* leave one root.
OneRoot ==
  /\ root # Nobody => row[root].there /\ row[root].chain = <<>>
  /\ \A d \in Device : Active(d) /\ row[d].chain = <<>> => d = root

\* Every certificate of a stored chain is the chain of a registered issuer.
ChainsLink ==
  \A d \in Device : row[d].there /\ row[d].chain # <<>> =>
    LET n == Len(row[d].chain)
        issuer == row[d].chain[n]
    IN row[issuer].there /\ row[issuer].chain = SubSeq(row[d].chain, 1, n - 1)

\* The mark on a device row is only a mirror of a statement that a client can
\* check; the devices a re-root marks have none, and need none, because their
\* chains do not lead to the new root.
RevokedIsProvable ==
  /\ \A d \in statement : row[d].revoked
  /\ \A d \in Device : row[d].revoked /\ LeadsToRoot(d) => d \in statement

TrustAnchored == OneRoot /\ ChainsLink /\ RevokedIsProvable

\* The same of the directory a client is shown: its three queries may straddle
\* revocations and a re-root, yet a row shown as revoked without a statement
\* belongs to a device of a root that has been replaced since.
DirectoryProvable ==
  \A r \in Request : At(r, "directory", "reply") =>
    \A d \in req[r].revoked \ req[r].stated : ~LeadsToRoot(d)

\* A pairing session admits one device, together with its offer, and hands
\* its payload out once; a payload whose chain does not start at the root it
\* carries has a device on that chain that was revoked meanwhile.
PairingOnce ==
  /\ \A d \in Registered : row[d].chain # <<>> => \E s \in Slot : pairing[s].device = d
  /\ \A s \in Slot :
       /\ delivered[s] = IF pairing[s].claimed THEN 1 ELSE 0
       /\ pairing[s].claimed => pairing[s].device # Nobody
       /\ pairing[s].device # Nobody =>
            /\ row[pairing[s].device].there
            /\ row[pairing[s].device].chain = pairing[s].chain
            /\ Head(pairing[s].chain) # pairing[s].root =>
                 \E i \in DOMAIN pairing[s].chain : row[pairing[s].chain[i]].revoked
            /\ \A t \in Slot \ {s} : pairing[t].device # pairing[s].device

\* A challenge is burned on use: however requests race and repeat, it makes
\* at most one session or one re-root.
ChallengeOnce == \A c \in 1..MaxChallenges : used[c] <= 1

\* What the server hands out for one use serves one use.
SingleUse == PairingOnce /\ ChallengeOnce

\* No step removes a device, rewrites its chain or lifts its revocation, and
\* revocation statements and posted offers stand: directories a client
\* fetches one after the other never take anything back.
DevicesPermanent ==
  [][/\ \A d \in Registered :
          /\ row'[d].there
          /\ row'[d].chain = row[d].chain
          /\ row[d].revoked => row'[d].revoked
     /\ statement \subseteq statement'
     /\ \A s \in Slot : pairing[s].device # Nobody => pairing'[s].chain = pairing[s].chain]_vars

=============================================================================
