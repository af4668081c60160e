--------------------------- MODULE KeyGenerations ---------------------------
(***************************************************************************)
(* Generations of the sync key: pairing hands them out, rotation mints and *)
(* distributes new ones through the server's key-update relay, rounds      *)
(* install them and open the records sealed under them.                    *)
(*                                                                         *)
(* A device runs one command or round at a time (the host's sync mutex),   *)
(* one action per request, secure-store write or transaction; a crash can  *)
(* come between any two.  Keys are numbered as they are minted: two keys   *)
(* of one generation are two numbers.  Recovery, versions and merges are   *)
(* in other modules: every record is of an entity of its own.              *)
(***************************************************************************)
EXTENDS Naturals, Sequences, FiniteSets, FiniteSetsExt

CONSTANTS
  Device,      \* device ids
  First,       \* the device that created the account
  Writer,      \* bound: the devices whose user writes
  MaxRecords,  \* bound: records written
  MaxBusy,     \* bound: devices busy at one time, fewer by what was cut off
  MaxTrouble,  \* bound: rotations, vault grants, crashes and failed requests
  MaxBarred    \* bound: what revocations cut off, and the last ends the trouble

ASSUME KeysAssumption ==
  /\ First \in Device /\ Writer \subseteq Device
  /\ {MaxRecords, MaxBusy, MaxTrouble, MaxBarred} \subseteq Nat

VARIABLES
  minted,      \* minted[k]: the generation key k was minted as
  held,        \* held[d][g]: the secure store's key of generation g, or 0
  config,      \* config[d]: sync_config, whether active and its three cursors
  vault,       \* the devices that have a vault
  sealer,      \* sealer[d]: what the registered OutboxSealer seals under
  parked,      \* parked[d]: records that wait for their generation
  registered,  \* the server's device table
  revoked,     \* those of them with revoked_at
  barred,      \* what was stamped at or after the revocation of its device
  offer,       \* offer[d]: the unclaimed pairing offer for d
  relay,       \* relay[d]: every key_update ever stored for d
  log,         \* the server's records
  task,        \* task[d]: what device d is doing
  failures     \* crashes and failed requests so far

library == <<config, vault, parked>>
server == <<registered, revoked, barred, offer, relay, log>>
vars == <<minted, held, sealer, library, server, task, failures>>

Generation == 1 .. MaxTrouble + 1
Idle == [op |-> "idle"]
NoKeys == [g \in Generation |-> 0]
NoOffer == [made |-> FALSE]
Nothing == [gen |-> 0, key |-> 0]

At(d, op, step) == task[d].op = op /\ task[d].step = step
Stop(d) == task' = [task EXCEPT ![d] = Idle]

CutOffs ==
  Cardinality(barred.devices) + Cardinality(barred.records) + Cardinality(barred.updates)

Free(d) ==
  /\ task[d] = Idle
  /\ Cardinality({e \in Device : task[e] # Idle}) + CutOffs < MaxBusy

\* The server answers this device: with_auth gets a token.
Served(d) == d \in registered \ revoked

Grants == {g \in Device \X UNION {relay[d] : d \in Device} : g[2] \in relay[g[1]] /\ g[2].mk}
MoreTrouble ==
  /\ Len(minted) - 1 + Cardinality(Grants) + failures < MaxTrouble
  /\ CutOffs > 0 => CutOffs < MaxBarred

\* A request is refused, or fails on the way.
Fails(d, accepted) ==
  IF Served(d) /\ accepted
    THEN MoreTrouble /\ failures' = failures + 1
    ELSE UNCHANGED failures

Newest(keys) == Max({g \in Generation : keys[g] # 0})

\* SyncKeys::load: generations up to the configured one, gaps are legal.
Loaded(keys, current) == [g \in Generation |-> IF g <= current THEN keys[g] ELSE 0]

\* build_key_bundle: every generation held, up to the current one.
Bundle(d) == Loaded(held[d], config[d].current)

\* install_sync_generations: what the bundle has replaces what is there.
Installed(keys, bundle) == [g \in Generation |-> IF bundle[g] # 0 THEN bundle[g] ELSE keys[g]]

CurrentSealer(d) == [gen |-> config[d].current, key |-> held[d][config[d].current]]

Init ==
  /\ minted = <<1>>
  /\ held = [d \in Device |-> IF d = First THEN [NoKeys EXCEPT ![1] = 1] ELSE NoKeys]
  /\ config = [d \in Device |->
       [active |-> d = First, current |-> IF d = First THEN 1 ELSE 0, cursor |-> 0, watermark |-> 0]]
  /\ vault = {First}
  /\ sealer = [d \in Device |-> IF d = First THEN [gen |-> 1, key |-> 1] ELSE Nothing]
  /\ parked = [d \in Device |-> {}]
  /\ registered = {First}
  /\ revoked = {}
  /\ barred = [devices |-> {}, records |-> {}, updates |-> {}]
  /\ offer = [d \in Device |-> NoOffer]
  /\ relay = [d \in Device |-> {}]
  /\ log = <<>>
  /\ task = [d \in Device |-> Idle]
  /\ failures = 0

\* TrustState of a directory fetched now: the devices whose chain verifies, and
\* the records and key updates a revocation cuts off.
Directory == [known |-> registered \ barred.devices,
              records |-> barred.records, updates |-> barred.updates]

\* The rows after the cursor; those up to it are deleted and never listed again.
ListKeyUpdates(d) == {m \in relay[d] : m.seq > config[d].cursor}

\* open_update_bundle: the sender verifies, and was not revoked by the time the
\* message was stored.
Opens(trust, d, m) == m.from \in trust.known /\ <<d, m.seq>> \notin trust.updates

----------------------------------------------------------------------------
\* Pairing: the trusted device posts an offer with its generations, the new
\* device claims it, installs the keys and activates.

ApprovePairing(d, new) ==
  /\ Free(d) /\ config[d].active /\ Served(d)
  /\ d \in Directory.known /\ new \notin registered
  /\ registered' = registered \cup {new}
  /\ offer' = [offer EXCEPT ![new] = [made |-> TRUE, keys |-> Bundle(d)]]
  /\ UNCHANGED <<minted, held, sealer, library, revoked, barred, relay, log, task, failures>>

\* The claim burns the offer, and after the user has compared the codes the
\* keys are installed: a crash from here on loses the offer for good.
ClaimPairing(d) ==
  /\ Free(d)
  /\ offer[d].made
  /\ offer' = [offer EXCEPT ![d] = NoOffer]
  /\ held' = [held EXCEPT ![d] = Installed(@, offer[d].keys)]
  /\ task' = [task EXCEPT ![d] = [op |-> "pair", step |-> "activate", keys |-> offer[d].keys]]
  /\ UNCHANGED <<minted, sealer, library, registered, revoked, barred, relay, log, failures>>

FinalizePairing(d) ==
  /\ At(d, "pair", "activate")
  /\ LET current == Newest(task[d].keys)
     IN /\ config' = [config EXCEPT ![d] = [active |-> TRUE, current |-> current,
                                            cursor |-> 0, watermark |-> 0]]
        /\ sealer' = [sealer EXCEPT ![d] = [gen |-> current, key |-> held[d][current]]]
  /\ Stop(d)
  /\ UNCHANGED <<minted, held, vault, parked, server, failures>>

----------------------------------------------------------------------------
\* Rotation, on its own or forced by a revocation.

Written(target) == {n \in DOMAIN log : log[n].author = target}
Sent(target) ==
  UNION {{<<e, m.seq>> : m \in {u \in ListKeyUpdates(e) : u.from = target}} : e \in Device}

\* The revocation time is the revoking device's clock, that of a record or a
\* certificate its author's, that of a key update the server's: any of those
\* that are of the revoked device may count as later.  Who stands below it in a
\* certificate chain is not kept: any device but the first may.
Bar(target) ==
  \E devices \in SUBSET (registered \ {First, target}),
     records \in SUBSET Written(target), updates \in SUBSET Sent(target) :
    /\ barred' = [devices |-> barred.devices \cup devices,
                  records |-> barred.records \cup records,
                  updates |-> barred.updates \cup updates]
    /\ CutOffs' <= MaxBarred

RevokeDevice(d, target) ==
  /\ Free(d) /\ config[d].active /\ Served(d)
  /\ target \in registered \ (revoked \cup {d})
  /\ MoreTrouble
  /\ revoked' = revoked \cup {target}
  /\ Bar(target)
  /\ task' = [task EXCEPT ![d] = [op |-> "rotate", step |-> "mint"]]
  /\ UNCHANGED <<minted, held, sealer, library, registered, offer, relay, log, failures>>

\* A rotation of its own starts here.
Rotates(d) ==
  \/ At(d, "rotate", "mint")
  \/ Free(d) /\ config[d].active /\ MoreTrouble

Committing(d) == task' = [task EXCEPT ![d] = [op |-> "rotate", step |-> "commit"]]

\* Mutant of RotateLocal: the configuration names the generation first.
RotateConfigFirst(d) ==
  /\ Rotates(d)
  /\ minted' = Append(minted, config[d].current + 1)
  /\ config' = [config EXCEPT ![d].current = @ + 1]
  /\ Committing(d)
  /\ UNCHANGED <<held, sealer, vault, parked, server, failures>>

\* rotate_local installs the key of the next generation in the secure store.
RotateLocal(d) ==
  /\ Rotates(d)
  /\ minted' = Append(minted, config[d].current + 1)
  /\ held' = [held EXCEPT ![d][config[d].current + 1] = Len(minted) + 1]
  /\ Committing(d)
  /\ UNCHANGED <<sealer, library, server, failures>>

\* The sends still to do; after the last the host registers a sealer for the
\* new generation.
Distributing(d, targets) ==
  /\ task' = [task EXCEPT ![d] =
       IF targets = {} THEN Idle ELSE [op |-> "rotate", step |-> "send", targets |-> targets]]
  /\ sealer' = IF targets = {}
                 THEN [sealer EXCEPT ![d] = [gen |-> config'[d].current,
                                             key |-> held[d][config'[d].current]]]
                 ELSE sealer

\* Then the configuration advances, and the directory names the targets, of
\* which those that do not verify get nothing: who is refused the directory
\* distributes nothing and keeps its sealer.
CommitRotation(d) ==
  /\ At(d, "rotate", "commit")
  /\ config' = [config EXCEPT ![d].current = @ + 1]
  /\ IF Served(d) THEN Distributing(d, Directory.known \ (revoked \cup {d}))
                  ELSE Stop(d) /\ UNCHANGED sealer
  /\ UNCHANGED <<minted, held, vault, parked, server, failures>>

\* AUTOINCREMENT: above every seq ever given; only the order of the rows of
\* one target is ever read, so each target's rows are numbered on their own.
NextSeq(target) == Cardinality(relay[target]) + 1

\* AddKeyUpdate, for a target that is active.
PutKeyUpdate(d, target, mk) ==
  relay' = [relay EXCEPT ![target] =
    @ \cup {[seq |-> NextSeq(target), from |-> d, keys |-> Bundle(d), mk |-> mk]}]

SendGenerations(d, target) ==
  /\ At(d, "rotate", "send")
  /\ target \in task[d].targets
  /\ Served(d) /\ Served(target)
  /\ PutKeyUpdate(d, target, FALSE)
  /\ UNCHANGED library
  /\ Distributing(d, task[d].targets \ {target})
  /\ UNCHANGED <<minted, held, registered, revoked, barred, offer, log, failures>>

\* A request of the distribution fails, for one because the target or the
\* device itself was revoked: the command ends, the sealer is left alone.
FailRotation(d) ==
  /\ At(d, "rotate", "send")
  /\ Fails(d, \A target \in task[d].targets : Served(target))
  /\ Stop(d)
  /\ UNCHANGED <<minted, held, sealer, library, server>>

----------------------------------------------------------------------------
\* Vault grants travel through the same relay, with the generations.

GrantVaultAccess(d, target) ==
  /\ Free(d) /\ config[d].active /\ d \in vault /\ Served(d)
  /\ target \in Directory.known \ (revoked \cup {d})
  /\ MoreTrouble
  /\ PutKeyUpdate(d, target, TRUE)
  /\ UNCHANGED <<minted, held, sealer, library, registered, revoked, barred, offer, log,
                 task, failures>>

\* Of the grants after the cursor the newest that opens is installed.
InstallGrant(d) ==
  /\ Free(d) /\ config[d].active /\ d \notin vault /\ Served(d)
  /\ LET grants == {m \in ListKeyUpdates(d) : m.mk /\ Opens(Directory, d, m)}
         newest == (CHOOSE m \in grants : \A n \in grants : n.seq <= m.seq).keys
     IN /\ grants # {}
        /\ held' = [held EXCEPT ![d] = Installed(@, newest)]
        /\ task' = [task EXCEPT ![d] = [op |-> "adopt", step |-> "commit", keys |-> newest]]
  /\ UNCHANGED <<minted, sealer, library, server, failures>>

AdoptVaultGrant(d) ==
  /\ At(d, "adopt", "commit")
  /\ vault' = vault \cup {d}
  /\ config' = [config EXCEPT ![d].current =
                  IF Newest(task[d].keys) > @ THEN Newest(task[d].keys) ELSE @]
  /\ Stop(d)
  /\ UNCHANGED <<minted, held, sealer, parked, server, failures>>

----------------------------------------------------------------------------
\* A round.

\* SyncKeys::load fails without the current key; otherwise the queue is
\* pushed and the directory fetched.
BeginRound(d, written) ==
  /\ Free(d) /\ config[d].active /\ Served(d)
  /\ held[d][config[d].current] # 0
  /\ written => d \in Writer /\ Len(log) < MaxRecords
  /\ log' = IF written THEN Append(log, [author |-> d, gen |-> sealer[d].gen, key |-> sealer[d].key])
                       ELSE log
  /\ task' = [task EXCEPT ![d] = [op |-> "sync", step |-> "updates", trust |-> Directory,
                                  keys |-> Loaded(held[d], config[d].current)]]
  /\ UNCHANGED <<minted, held, sealer, library, registered, revoked, barred, offer, relay,
                 failures>>

Pulling(d, keys) == [op |-> "sync", step |-> "pull", trust |-> task[d].trust, keys |-> keys]

\* The messages that open with the directory in hand.
Opened(d, updates) == {m \in updates : Opens(task[d].trust, d, m)}

\* has_key: a generation that is held stays, another comes from the first
\* message that brings it.
AddedFrom(d, updates) == [g \in Generation |->
  LET bringing == {m \in updates : m.keys[g] # 0}
  IN IF held[d][g] # 0 \/ bringing = {} THEN held[d][g]
     ELSE (CHOOSE m \in bringing : \A n \in bringing : m.seq <= n.seq).keys[g]]

InstallUpdates(d) ==
  /\ At(d, "sync", "updates")
  /\ Served(d)
  /\ LET updates == ListKeyUpdates(d)
     IN /\ held' = [held EXCEPT ![d] = AddedFrom(d, Opened(d, updates))]
        /\ task' = [task EXCEPT ![d] =
             IF updates = {} THEN Pulling(d, task[d].keys)
             ELSE [op |-> "sync", step |-> "advance", trust |-> task[d].trust, updates |-> updates]]
  /\ UNCHANGED <<minted, sealer, library, server, failures>>

\* Mutant of Consumes: a grant is done with once its generations are installed.
ConsumesOpened(d, m) == m \in Opened(d, {m})

\* A message that does not open, or a grant without a vault, holds the cursor.
Consumes(d, m) == m \in Opened(d, {m}) /\ (m.mk => d \in vault)

\* Mutant of ReloadedKeys: the round goes on with the keys it started with.
KeptKeys(d, current) == Loaded(held[d], config[d].current)

\* The keys are loaded again, up to the generation now configured.
ReloadedKeys(d, current) == Loaded(held[d], current)

\* The leading run of consumed messages
Leading(d) == {m \in task[d].updates :
  \A n \in task[d].updates : n.seq <= m.seq => Consumes(d, n)}

\* Mutant of Acknowledged: the cursor names the next message wanted.
NextWanted(d) == Max({config[d].cursor} \cup {m.seq + 1 : m \in Leading(d)})

Acknowledged(d) == Max({config[d].cursor} \cup {m.seq : m \in Leading(d)})

\* The cursor passes that run, the generation becomes the highest opened.
AdvanceConfig(d) ==
  /\ At(d, "sync", "advance")
  /\ LET current == Max({config[d].current} \cup {Newest(m.keys) : m \in Opened(d, task[d].updates)})
     IN /\ config' = [config EXCEPT ![d] = [@ EXCEPT !.current = current, !.cursor = Acknowledged(d)]]
        /\ task' = [task EXCEPT ![d] = Pulling(d, ReloadedKeys(d, current))]
  /\ UNCHANGED <<minted, held, sealer, vault, parked, server, failures>>

\* Mutant of Verifies: a revocation cuts off its device's whole history.
VerifiesActive(d, n) == log[n].author \in task[d].trust.known \ revoked

\* resolve_signer: the author's chain verifies, and the record is not stamped at
\* or after the author's revocation.
Verifies(d, n) == log[n].author \in task[d].trust.known /\ n \notin task[d].trust.records

\* verify_and_open
Readable(d, n) == Verifies(d, n) /\ task[d].keys[log[n].gen] = log[n].key

\* Mutant of Blocked: a record of an unknown generation is skipped.
NeverBlocked(d, n) == FALSE

\* RecordError::UnknownKeyId
Blocked(d, n) == Verifies(d, n) /\ task[d].keys[log[n].gen] = 0

\* The records of a page that are not the device's own
Foreign(d) == {n \in config[d].watermark + 1 .. Len(log) : log[n].author # d}

\* What cannot be opened is parked when only its generation is missing, and
\* skipped for good otherwise.  Of the parked records those that open now are
\* applied, the others stay.
Pull(d) ==
  /\ At(d, "sync", "pull")
  /\ Served(d)
  /\ parked' = [parked EXCEPT ![d] =
       {n \in @ \cup {n \in Foreign(d) : Blocked(d, n)} : ~Readable(d, n)}]
  /\ config' = [config EXCEPT ![d].watermark = Len(log)]
  /\ Stop(d)
  /\ UNCHANGED <<minted, held, sealer, vault, server, failures>>

FailRound(d) ==
  /\ task[d].op = "sync"
  /\ Fails(d, TRUE)
  /\ Stop(d)
  /\ UNCHANGED <<minted, held, sealer, library, server>>

\* The process dies and is started again: the sealer is registered anew.
Restart(d) ==
  /\ task[d] = Idle => config[d].active /\ sealer[d] # CurrentSealer(d)
  /\ MoreTrouble
  /\ failures' = failures + 1
  /\ task' = [task EXCEPT ![d] = Idle]
  /\ sealer' = [sealer EXCEPT ![d] = IF config[d].active THEN CurrentSealer(d) ELSE Nothing]
  /\ UNCHANGED <<minted, held, library, server>>

----------------------------------------------------------------------------
Pairing(d) ==
  \/ \E new \in Device : ApprovePairing(d, new)
  \/ ClaimPairing(d) \/ FinalizePairing(d)

Rotation(d) ==
  \/ RotateLocal(d) \/ CommitRotation(d) \/ FailRotation(d)
  \/ \E target \in Device : RevokeDevice(d, target) \/ SendGenerations(d, target)

Granting(d) ==
  \/ \E target \in Device : GrantVaultAccess(d, target)
  \/ InstallGrant(d) \/ AdoptVaultGrant(d)

Round(d) ==
  \/ \E written \in BOOLEAN : BeginRound(d, written)
  \/ InstallUpdates(d)
  \/ AdvanceConfig(d) \/ Pull(d) \/ FailRound(d)

Next == \E d \in Device :
  \/ Pairing(d) \/ Rotation(d) \/ Granting(d) \/ Round(d) \/ Restart(d)

Spec == Init /\ [][Next]_vars

----------------------------------------------------------------------------
Keys == [Generation -> 0..Len(minted)]

TypeOK ==
  /\ minted \in Seq(Generation)
  /\ held \in [Device -> Keys]
  /\ config \in [Device -> [active : BOOLEAN, current : 0..MaxTrouble + 1,
                            cursor : Nat, watermark : 0..Len(log)]]
  /\ vault \subseteq registered /\ revoked \subseteq registered
  /\ barred \in [devices : SUBSET registered, records : SUBSET (DOMAIN log),
                 updates : SUBSET (Device \X Nat)]
  /\ \A d \in Device :
       /\ parked[d] \subseteq DOMAIN log
       /\ config[d].cursor <= Cardinality(relay[d])
       /\ \A m \in relay[d] : m.keys \in Keys

\* A crash between any two writes leaves the configuration naming a
\* generation whose key is in the secure store, and a device seals under a
\* key that exists: no crash locks a device out of its own rounds.
CurrentKeyHeld ==
  \A d \in Device : config[d].active =>
    /\ held[d][config[d].current] # 0
    /\ sealer[d] # Nothing /\ minted[sealer[d].key] = sealer[d].gen
    /\ sealer[d].gen <= config[d].current

\* The cursor doubles as the acknowledgement the relay deletes by: a message
\* is gone only when its device holds every generation in it and, for a
\* grant, has a vault; and no message ever hides behind the cursor.
UpdatesNotLost ==
  \A d \in Device :
      /\ \A m \in relay[d] : m.seq <= config[d].cursor =>
         /\ \A g \in Generation : m.keys[g] # 0 => held[d][g] # 0
         /\ m.mk => d \in vault

\* No key is lost: neither the one a device seals with nor one it was sent.
KeysNotLost == CurrentKeyHeld /\ UpdatesNotLost

\* A round that runs to its end leaves nothing parked that the device has the
\* key of, unless a revocation has cut off the record since, or the message that
\* would have configured its generation.  What it skips for good is by an author
\* that the directory it fetched does not verify, or past the author's
\* revocation, or sealed under the rival of a key it holds: waiting for keys
\* costs no record.
Rivals(g) == Cardinality({k \in DOMAIN minted : minted[k] = g}) > 1
CutOff(n) == n \in barred.records \/ log[n].author \in barred.devices
Withheld(d, g) == \E m \in relay[d] : m.keys[g] # 0 /\ ~Opens(Directory, d, m)
RecordsAwaitKeys ==
  [][\A d \in Device : Pull(d) =>
       /\ \A n \in parked'[d] :
            held[d][log[n].gen] # log[n].key \/ CutOff(n) \/ Withheld(d, log[n].gen)
       /\ \A n \in Foreign(d) :
            \/ n \in parked'[d] \/ Readable(d, n)
            \/ Rivals(log[n].gen) \/ CutOff(n) \/ log[n].author \notin task[d].trust.known]_vars

=============================================================================
