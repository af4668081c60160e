---------------------- MODULE KeyGenerations_proofs ----------------------
(***************************************************************************)
(* KeyGenerations: no key is lost between relay, secure store and          *)
(* configuration, and no record is given up for a key that arrives later,  *)
(* for any devices, writers, rotations, grants and crashes.                *)
(***************************************************************************)
EXTENDS KeyGenerations, FiniteSetTheorems, SequenceTheorems, WellFoundedInduction, TLAPS

\* Every key is where its generation is.
KeysIn(keys, mint) ==
  /\ keys \in [Generation -> Nat]
  /\ \A g \in Generation : keys[g] # 0 => keys[g] \in 1..Len(mint) /\ mint[keys[g]] = g

Some(keys) == \E g \in Generation : keys[g] # 0

\* The store has every generation of the bundle.
Covers(store, keys) == \A g \in Generation : keys[g] # 0 => store[g] # 0

GoodBundle(keys, mint) == KeysIn(keys, mint) /\ Some(keys)

ConfigOK(d) ==
  /\ KeysIn(held[d], minted)
  /\ config[d].current <= MaxTrouble + 1 /\ config[d].watermark <= Len(log)
  /\ parked[d] \subseteq 1..Len(log)
  /\ config[d].active =>
       /\ config[d].current \in Generation /\ held[d][config[d].current] # 0
       /\ sealer[d].key \in 1..Len(minted) /\ minted[sealer[d].key] = sealer[d].gen
       /\ sealer[d].gen <= config[d].current

\* A mailbox is numbered without a gap; what is behind the cursor is in use.
RelayOK(d) ==
  /\ IsFiniteSet(relay[d]) /\ config[d].cursor <= Cardinality(relay[d])
  /\ \A m \in relay[d] :
       /\ m.seq \in 1..Cardinality(relay[d]) /\ GoodBundle(m.keys, minted)
       /\ m.seq <= config[d].cursor => Covers(held[d], m.keys) /\ (m.mk => d \in vault)

OfferOK(d) == offer[d].made => GoodBundle(offer[d].keys, minted)

\* What a task has done so far, and still relies on: the keys of a bundle are
\* installed before they are configured, and a listing of the mailbox is its
\* front, whatever arrives behind it.
TaskOK(d) ==
  /\ task[d].op \in {"idle", "pair", "rotate", "adopt", "sync"}
  /\ task[d].op = "pair" =>
       task[d].step = "activate" /\ GoodBundle(task[d].keys, minted) /\ Covers(held[d], task[d].keys)
  /\ task[d].op = "rotate" =>
       /\ task[d].step \in {"mint", "commit", "send"} /\ config[d].active
       /\ task[d].step = "mint" => config[d].current <= MaxTrouble
       /\ task[d].step = "commit" =>
            config[d].current + 1 \in Generation /\ held[d][config[d].current + 1] # 0
  /\ task[d].op = "adopt" =>
       /\ task[d].step = "commit" /\ d \in registered
       /\ GoodBundle(task[d].keys, minted) /\ Covers(held[d], task[d].keys)
  /\ task[d].op = "sync" =>
       /\ task[d].step \in {"updates", "advance", "pull"}
       /\ task[d].step = "advance" =>
            /\ task[d].updates \subseteq relay[d]
            /\ \A m \in relay[d] : m.seq > config[d].cursor /\ m \notin task[d].updates =>
                 \A u \in task[d].updates : u.seq < m.seq
            /\ \A m \in task[d].updates : Opens(task[d].trust, d, m) => Covers(held[d], m.keys)

DeviceInv(d) == ConfigOK(d) /\ RelayOK(d) /\ OfferOK(d) /\ TaskOK(d)

Config == [active : BOOLEAN, current : Nat, cursor : Nat, watermark : Nat]

MintOK == minted \in Seq(Generation) /\ \A k \in 1..Len(minted) : minted[k] <= k

Shapes ==
  /\ MintOK
  /\ held \in [Device -> [Generation -> Nat]]
  /\ config \in [Device -> Config]
  /\ sealer \in [Device -> [gen : Nat, key : Nat]]
  /\ DOMAIN parked = Device /\ DOMAIN relay = Device
  /\ DOMAIN offer = Device /\ DOMAIN task = Device
  /\ log \in Seq([author : Device, gen : Nat, key : Nat])
  /\ vault \subseteq registered /\ revoked \subseteq registered
  /\ barred \in [devices : SUBSET registered, records : SUBSET (DOMAIN log),
                 updates : SUBSET (Device \X Nat)]
  /\ IsFiniteSet(Grants) /\ failures \in Nat

Inv == Shapes /\ \A d \in Device : DeviceInv(d)

-----------------------------------------------------------------------------
\* The largest member of a bounded set of numbers.
LEMMA MaxOf ==
  ASSUME NEW n \in Nat, NEW T \in SUBSET (0..n), T # {}
  PROVE  Max(T) \in T /\ \A y \in T : Max(T) >= y
<1> DEFINE Distance == {n - x : x \in T}
<1>1. Distance \subseteq Nat /\ Distance # {}
  <2>1. \A x \in T : x \in 0..n /\ n - x \in Nat
    OBVIOUS
  <2> QED BY <2>1
<1>2. PICK c \in Distance : \A k \in Distance : ~(<<k, c>> \in OpToRel(<, Nat))
  BY <1>1, WFMin, NatLessThanWellFounded
<1>3. PICK x \in T : c = n - x
  OBVIOUS
<1>4. ASSUME NEW y \in T PROVE x >= y
  <2>1. n - y \in Distance /\ ~(<<n - y, c>> \in OpToRel(<, Nat))
    BY <1>2
  <2>2. ~(n - y < c)
    BY <1>1, <2>1 DEF OpToRel
  <2> QED BY <1>3, <2>2
<1> QED BY <1>4 DEF Max

LEMMA Bounds == /\ MaxTrouble \in Nat /\ Generation = 1..(MaxTrouble + 1)
                /\ Generation \subseteq Nat
  BY KeysAssumption DEF Generation

\* The newest generation of a bundle is one of its own.
LEMMA NewestIn ==
  ASSUME NEW keys, Some(keys)
  PROVE  Newest(keys) \in Generation /\ keys[Newest(keys)] # 0
<1> DEFINE G == {g \in Generation : keys[g] # 0}
<1>1. G \in SUBSET (0..(MaxTrouble + 1)) /\ G # {} /\ MaxTrouble + 1 \in Nat
  BY Bounds DEF Some
<1>2. Max(G) \in G
  BY <1>1, MaxOf
<1> QED BY <1>2 DEF Newest

\* A key minted later moves no other key.
LEMMA MintKeeps ==
  ASSUME NEW mint \in Seq(Generation), NEW g \in Generation,
         NEW more, more = mint \/ more = Append(mint, g)
  PROVE  /\ more \in Seq(Generation) /\ Len(mint) \in Nat /\ Len(more) \in Nat
         /\ Len(more) >= Len(mint)
         /\ \A k \in 1..Len(mint) : k \in 1..Len(more) /\ more[k] = mint[k]
         /\ \A keys : KeysIn(keys, mint) => KeysIn(keys, more)
         /\ \A keys : GoodBundle(keys, mint) => GoodBundle(keys, more)
<1>1. /\ more \in Seq(Generation) /\ Len(mint) \in Nat /\ Len(more) \in Nat
      /\ Len(more) >= Len(mint)
      /\ \A k \in 1..Len(mint) : k \in 1..Len(more) /\ more[k] = mint[k]
  OBVIOUS
<1>2. ASSUME NEW keys, KeysIn(keys, mint) PROVE KeysIn(keys, more)
  BY <1>1, <1>2 DEF KeysIn
<1> QED BY <1>1, <1>2 DEF GoodBundle

\* The number of the current generation is that of a key minted for it.
LEMMA CurrentMinted ==
  ASSUME Inv, NEW d \in Device, config[d].active
  PROVE  config[d].current <= Len(minted) /\ config[d].current \in Nat
<1>1. /\ config[d].current \in Generation /\ held[d][config[d].current] # 0
      /\ KeysIn(held[d], minted) /\ MintOK
  BY DEF Inv, DeviceInv, ConfigOK, Shapes
<1>2. LET k == held[d][config[d].current]
      IN  k \in 1..Len(minted) /\ minted[k] = config[d].current /\ minted[k] <= k
  BY <1>1 DEF KeysIn, MintOK
<1> QED BY <1>1, <1>2, Bounds DEF MintOK

LEMMA TroubleLeft == Inv /\ MoreTrouble => Len(minted) <= MaxTrouble
<1> SUFFICES ASSUME Inv, MoreTrouble PROVE Len(minted) <= MaxTrouble
  OBVIOUS
<1>1. Cardinality(Grants) \in Nat /\ failures \in Nat /\ Len(minted) \in Nat
  BY FS_CardinalityType DEF Inv, Shapes, MintOK
<1> QED BY <1>1, Bounds DEF MoreTrouble

-----------------------------------------------------------------------------
\* What a step of one device leaves to the others: more keys minted, more
\* records, more members, one more message or offer.
MintGrows == minted' = minted \/ \E g \in Generation : minted' = Append(minted, g)

RelayGrows(e) ==
  \/ relay'[e] = relay[e]
  \/ \E m : /\ relay'[e] = relay[e] \cup {m} /\ m.seq = Cardinality(relay[e]) + 1
            /\ GoodBundle(m.keys, minted)

OfferGrows(e) ==
  \/ offer'[e] = offer[e]
  \/ offer'[e].made => GoodBundle(offer'[e].keys, minted)

Grows ==
  /\ MintGrows
  /\ Len(log)' \in Nat /\ Len(log)' >= Len(log)
  /\ vault \subseteq vault' /\ registered \subseteq registered'

Same(e) ==
  /\ held'[e] = held[e] /\ config'[e] = config[e] /\ sealer'[e] = sealer[e]
  /\ parked'[e] = parked[e] /\ task'[e] = task[e]

LEMMA GrowsKeeps ==
  ASSUME Inv, Grows
  PROVE  /\ Len(minted) \in Nat /\ Len(minted') \in Nat /\ Len(log) \in Nat
         /\ minted' \in Seq(Generation)
         /\ \A k \in 1..Len(minted) : k \in 1..Len(minted') /\ minted'[k] = minted[k]
         /\ \A keys : KeysIn(keys, minted) => KeysIn(keys, minted')
         /\ \A keys : GoodBundle(keys, minted) => GoodBundle(keys, minted')
<1>1. minted \in Seq(Generation) /\ Len(log) \in Nat
  BY DEF Inv, Shapes, MintOK
<1>2. PICK g \in Generation : minted' = minted \/ minted' = Append(minted, g)
  <2>1. 1 \in Generation
    BY Bounds
  <2> QED BY <2>1 DEF Grows, MintGrows
<1> QED BY <1>1, <1>2, MintKeeps

LEMMA ConfigKept ==
  ASSUME Inv, Grows, NEW e \in Device,
         config'[e] = config[e], sealer'[e] = sealer[e], parked'[e] = parked[e],
         KeysIn(held'[e], minted'), Covers(held'[e], held[e])
  PROVE  ConfigOK(e)'
<1>1. ConfigOK(e)
  BY DEF Inv, DeviceInv
<1>2. /\ Len(minted) \in Nat /\ Len(minted') \in Nat /\ Len(log) \in Nat
      /\ \A k \in 1..Len(minted) : k \in 1..Len(minted') /\ minted'[k] = minted[k]
  BY GrowsKeeps
<1>3. config[e] \in Config
  BY DEF Inv, Shapes
<1>4. parked'[e] \subseteq 1..Len(log')
  BY <1>1, <1>2 DEF ConfigOK, Grows
<1>5. config'[e].current <= MaxTrouble + 1 /\ config'[e].watermark <= Len(log')
  BY <1>1, <1>2, <1>3 DEF ConfigOK, Grows, Config
<1>6. ASSUME config'[e].active
      PROVE  /\ config'[e].current \in Generation /\ held'[e][config'[e].current] # 0
             /\ sealer'[e].key \in 1..Len(minted') /\ minted'[sealer'[e].key] = sealer'[e].gen
             /\ sealer'[e].gen <= config'[e].current
  BY <1>1, <1>2, <1>6 DEF ConfigOK, Covers
<1> QED BY <1>4, <1>5, <1>6 DEF ConfigOK

LEMMA RelayKept ==
  ASSUME Inv, Grows, NEW e \in Device, RelayGrows(e),
         config'[e].cursor = config[e].cursor, Covers(held'[e], held[e])
  PROVE  RelayOK(e)'
<1>1. RelayOK(e) /\ config[e].cursor \in Nat /\ Cardinality(relay[e]) \in Nat
  BY FS_CardinalityType DEF Inv, DeviceInv, Shapes, Config, RelayOK
<1>2. \A keys : GoodBundle(keys, minted) => GoodBundle(keys, minted')
  BY GrowsKeeps
<1>3. \A keys : Covers(held[e], keys) => Covers(held'[e], keys)
  BY DEF Covers
<1>4. CASE relay'[e] = relay[e]
  BY <1>1, <1>2, <1>3, <1>4 DEF RelayOK, Grows
<1>5. CASE relay'[e] # relay[e]
  <2>1. PICK m : /\ relay'[e] = relay[e] \cup {m} /\ m.seq = Cardinality(relay[e]) + 1
                 /\ GoodBundle(m.keys, minted)
    BY <1>5 DEF RelayGrows
  <2>2. m \notin relay[e]
    BY <1>1, <2>1 DEF RelayOK
  <2>3. IsFiniteSet(relay'[e]) /\ Cardinality(relay'[e]) = Cardinality(relay[e]) + 1
    <3>1. IsFiniteSet(relay[e])
      BY <1>1 DEF RelayOK
    <3>2. /\ IsFiniteSet(relay[e] \cup {m})
          /\ Cardinality(relay[e] \cup {m}) = Cardinality(relay[e]) + 1
      BY <2>2, <3>1, FS_AddElement
    <3> QED BY <2>1, <3>2
  <2>4. ~(m.seq <= config[e].cursor)
    BY <1>1, <2>1 DEF RelayOK
  <2>5. ASSUME NEW n \in relay'[e]
        PROVE  /\ n.seq \in 1..Cardinality(relay'[e]) /\ GoodBundle(n.keys, minted')
               /\ n.seq <= config'[e].cursor => Covers(held'[e], n.keys) /\ (n.mk => e \in vault')
    <3>1. CASE n = m
      BY <1>1, <1>2, <2>1, <2>3, <2>4, <3>1
    <3>2. CASE n \in relay[e]
      BY <1>1, <1>2, <1>3, <2>3, <3>2 DEF RelayOK, Grows
    <3> QED BY <2>1, <3>1, <3>2
  <2>6. config'[e].cursor <= Cardinality(relay'[e])
    BY <1>1, <2>3 DEF RelayOK
  <2> QED BY <2>3, <2>5, <2>6 DEF RelayOK
<1> QED BY <1>4, <1>5

LEMMA OfferKept ==
  ASSUME Inv, Grows, NEW e \in Device, OfferGrows(e)
  PROVE  OfferOK(e)'
BY GrowsKeeps DEF Inv, DeviceInv, OfferOK, OfferGrows

LEMMA OthersKept ==
  ASSUME Inv, Grows, NEW e \in Device, Same(e), RelayGrows(e), OfferGrows(e)
  PROVE  DeviceInv(e)'
<1>1. DeviceInv(e) /\ Covers(held'[e], held[e]) /\ KeysIn(held'[e], minted')
  BY GrowsKeeps DEF Inv, DeviceInv, ConfigOK, Same, Covers
<1>2. ConfigOK(e)' /\ RelayOK(e)' /\ OfferOK(e)'
  BY <1>1, ConfigKept, RelayKept, OfferKept DEF Same
<1>3. TaskOK(e)'
  <2>1. /\ task'[e] = task[e] /\ config'[e] = config[e] /\ held'[e] = held[e]
        /\ e \in registered => e \in registered'
        /\ \A keys : GoodBundle(keys, minted) => GoodBundle(keys, minted')
        /\ TaskOK(e)
    BY <1>1, GrowsKeeps DEF Same, Grows, DeviceInv
  <2>2. ASSUME task[e].op = "sync", task[e].step = "advance"
        PROVE  /\ task[e].updates \subseteq relay'[e]
               /\ \A m \in relay'[e] : m.seq > config[e].cursor /\ m \notin task[e].updates =>
                    \A u \in task[e].updates : u.seq < m.seq
    <3>1. CASE relay'[e] = relay[e]
      BY <2>1, <2>2, <3>1 DEF TaskOK
    <3>2. CASE relay'[e] # relay[e]
      <4>1. PICK m : relay'[e] = relay[e] \cup {m} /\ m.seq = Cardinality(relay[e]) + 1
        BY <3>2 DEF RelayGrows
      <4>2. \A u \in relay[e] : u.seq < m.seq
        <5>1. RelayOK(e) /\ Cardinality(relay[e]) \in Nat
          BY <1>1, FS_CardinalityType DEF DeviceInv, RelayOK
        <5> QED BY <4>1, <5>1 DEF RelayOK
      <4> QED BY <2>1, <2>2, <4>1, <4>2 DEF TaskOK
    <3> QED BY <3>1, <3>2
  <2> QED BY <2>1, <2>2 DEF TaskOK
<1> QED BY <1>2, <1>3 DEF DeviceInv

-----------------------------------------------------------------------------
\* The steps.  What one does to the tables comes first, then the device that
\* takes it; the others are OthersKept.
OnlyActs(d) == Grows /\ \A e \in Device \ {d} : Same(e) /\ RelayGrows(e) /\ OfferGrows(e)

LEMMA ActorDecides ==
  ASSUME Inv, NEW d \in Device, OnlyActs(d), Shapes', DeviceInv(d)'
  PROVE  Inv'
BY OthersKept DEF OnlyActs, Inv

LEMMA BundleGood ==
  ASSUME Inv, NEW d \in Device, config[d].active
  PROVE  GoodBundle(Bundle(d), minted)
<1>1. /\ KeysIn(held[d], minted) /\ config[d].current \in Generation
      /\ held[d][config[d].current] # 0
  BY DEF Inv, DeviceInv, ConfigOK
<1>2. KeysIn(Bundle(d), minted)
  BY <1>1 DEF KeysIn, Bundle, Loaded
<1>3. config[d].current <= config[d].current
  BY <1>1, Bounds
<1>4. Bundle(d)[config[d].current] # 0
  BY <1>1, <1>3 DEF Bundle, Loaded
<1> QED BY <1>1, <1>2, <1>4 DEF GoodBundle, Some

LEMMA ApprovePairingPreserves ==
  ASSUME Inv, NEW d \in Device, NEW new \in Device, ApprovePairing(d, new)
  PROVE  Inv'
<1>1. /\ minted' = minted /\ held' = held /\ sealer' = sealer /\ config' = config
      /\ vault' = vault /\ parked' = parked /\ revoked' = revoked /\ barred' = barred /\ relay' = relay
      /\ log' = log /\ task' = task /\ failures' = failures
      /\ registered' = registered \cup {new}
      /\ offer' = [offer EXCEPT ![new] = [made |-> TRUE, keys |-> Bundle(d)]]
      /\ config[d].active
  BY DEF ApprovePairing, library
<1>2. Shapes'
  <2>1. barred \in [devices : SUBSET registered', records : SUBSET (DOMAIN log),
                    updates : SUBSET (Device \X Nat)]
    BY <1>1 DEF Inv, Shapes
  <2> QED BY <1>1, <2>1 DEF Inv, Shapes, MintOK, Grants
<1>3. Grows
  BY <1>1 DEF Grows, MintGrows, Inv, Shapes
<1>4. \A e \in Device : Same(e) /\ RelayGrows(e) /\ OfferGrows(e)
  <2>1. offer'[new].keys = Bundle(d) /\ \A e \in Device \ {new} : offer'[e] = offer[e]
    BY <1>1 DEF Inv, Shapes
  <2> QED BY <1>1, <2>1, BundleGood DEF Same, RelayGrows, OfferGrows
<1> QED BY <1>2, <1>3, <1>4, OthersKept DEF Inv

LEMMA ClaimPairingPreserves ==
  ASSUME Inv, NEW d \in Device, ClaimPairing(d)
  PROVE  Inv'
<1> DEFINE keys == offer[d].keys
<1>1. /\ minted' = minted /\ sealer' = sealer /\ config' = config
      /\ vault' = vault /\ parked' = parked /\ revoked' = revoked /\ barred' = barred /\ relay' = relay
      /\ log' = log /\ failures' = failures /\ registered' = registered
      /\ offer[d].made /\ offer' = [offer EXCEPT ![d] = NoOffer]
      /\ held' = [held EXCEPT ![d] = Installed(held[d], keys)]
      /\ task' = [task EXCEPT ![d] = [op |-> "pair", step |-> "activate", keys |-> keys]]
  BY DEF ClaimPairing, library
<1>2. KeysIn(held[d], minted) /\ GoodBundle(keys, minted)
  BY <1>1 DEF Inv, DeviceInv, ConfigOK, OfferOK
<1>3. /\ KeysIn(Installed(held[d], keys), minted)
      /\ Covers(Installed(held[d], keys), keys) /\ Covers(Installed(held[d], keys), held[d])
  BY <1>2 DEF GoodBundle, KeysIn, Installed, Covers
<1>4. /\ held'[d] = Installed(held[d], keys) /\ offer'[d] = NoOffer
      /\ task'[d] = [op |-> "pair", step |-> "activate", keys |-> keys]
  BY <1>1 DEF Inv, Shapes
<1>5. Shapes'
  BY <1>1, <1>3 DEF Inv, Shapes, MintOK, Grants, KeysIn
<1>6. OnlyActs(d)
  BY <1>1 DEF OnlyActs, Grows, MintGrows, Same, RelayGrows, OfferGrows, Inv, Shapes
<1>7. DeviceInv(d)'
  <2>1. Grows /\ OfferGrows(d) /\ RelayGrows(d)
    BY <1>1, <1>4, <1>6 DEF OnlyActs, OfferGrows, RelayGrows, NoOffer
  <2>2. ConfigOK(d)' /\ RelayOK(d)' /\ OfferOK(d)'
    BY <1>1, <1>3, <1>4, <2>1, ConfigKept, RelayKept, OfferKept
  <2>3. TaskOK(d)'
    BY <1>1, <1>2, <1>3, <1>4 DEF TaskOK
  <2> QED BY <2>2, <2>3 DEF DeviceInv
<1> QED BY <1>5, <1>6, <1>7, ActorDecides

LEMMA FinalizePairingPreserves ==
  ASSUME Inv, NEW d \in Device, FinalizePairing(d)
  PROVE  Inv'
<1> DEFINE current == Newest(task[d].keys)
<1>1. /\ minted' = minted /\ held' = held /\ vault' = vault /\ parked' = parked
      /\ registered' = registered /\ revoked' = revoked /\ offer' = offer /\ relay' = relay
      /\ log' = log /\ failures' = failures /\ barred' = barred
      /\ config' = [config EXCEPT ![d] = [active |-> TRUE, current |-> current,
                                          cursor |-> 0, watermark |-> 0]]
      /\ sealer' = [sealer EXCEPT ![d] = [gen |-> current, key |-> held[d][current]]]
      /\ task' = [task EXCEPT ![d] = Idle]
      /\ task[d].op = "pair"
  BY DEF FinalizePairing, At, Stop, server
<1>2. GoodBundle(task[d].keys, minted) /\ Covers(held[d], task[d].keys) /\ KeysIn(held[d], minted)
  BY <1>1 DEF Inv, DeviceInv, TaskOK, ConfigOK
<1>3. current \in Generation /\ held[d][current] # 0
  BY <1>2, NewestIn DEF GoodBundle, Covers
<1>4. held[d][current] \in 1..Len(minted) /\ minted[held[d][current]] = current
  BY <1>2, <1>3 DEF KeysIn
<1> HIDE DEF current
<1>5. Shapes'
  <2>1. [active |-> TRUE, current |-> current, cursor |-> 0, watermark |-> 0] \in Config
    BY <1>3, Bounds DEF Config
  <2>2. [gen |-> current, key |-> held[d][current]] \in [gen : Nat, key : Nat]
    BY <1>3, <1>4, Bounds DEF Inv, Shapes, MintOK
  <2>3. config' \in [Device -> Config] /\ sealer' \in [Device -> [gen : Nat, key : Nat]]
    BY <1>1, <2>1, <2>2 DEF Inv, Shapes
  <2> QED BY <1>1, <2>3 DEF Inv, Shapes, MintOK, Grants
<1>6. OnlyActs(d)
  BY <1>1 DEF OnlyActs, Grows, MintGrows, Same, RelayGrows, OfferGrows, Inv, Shapes
<1>7. /\ config'[d] = [active |-> TRUE, current |-> current, cursor |-> 0, watermark |-> 0]
      /\ sealer'[d] = [gen |-> current, key |-> held[d][current]]
      /\ task'[d] = Idle
  BY <1>1 DEF Inv, Shapes
<1>8. DeviceInv(d)'
  <2>1. Len(log) \in Nat /\ parked[d] \subseteq 1..Len(log) /\ RelayOK(d) /\ OfferOK(d)
    BY DEF Inv, Shapes, DeviceInv, ConfigOK
  <2>2. ConfigOK(d)'
    BY <1>1, <1>2, <1>3, <1>4, <1>7, <2>1, Bounds DEF ConfigOK
  <2>3. RelayOK(d)'
    <3>1. Cardinality(relay[d]) \in Nat
      BY <2>1, FS_CardinalityType DEF RelayOK
    <3> QED BY <1>1, <1>7, <2>1, <3>1 DEF RelayOK
  <2>4. OfferOK(d)' /\ TaskOK(d)'
    BY <1>1, <1>7, <2>1 DEF OfferOK, TaskOK, Idle
  <2> QED BY <2>2, <2>3, <2>4 DEF DeviceInv
<1> QED BY <1>5, <1>6, <1>8, ActorDecides

\* A step that only moves its own device's task to one that is in order, and
\* may count a failure or a revocation.
LEMMA TaskMoves ==
  ASSUME Inv, NEW d \in Device,
         UNCHANGED <<minted, held, config, vault, sealer, parked, registered, offer, relay, log>>,
         DOMAIN task' = Device, \A e \in Device \ {d} : task'[e] = task[e],
         revoked' \subseteq registered, failures' \in Nat,
         barred' \in [devices : SUBSET registered, records : SUBSET (DOMAIN log),
                     updates : SUBSET (Device \X Nat)],
         TaskOK(d)'
  PROVE  Inv'
<1>1. Shapes'
  BY DEF Inv, Shapes, MintOK, Grants
<1>2. OnlyActs(d)
  BY DEF OnlyActs, Grows, MintGrows, Same, RelayGrows, OfferGrows, Inv, Shapes
<1>3. ConfigOK(d)' /\ RelayOK(d)' /\ OfferOK(d)'
  BY DEF Inv, DeviceInv, ConfigOK, RelayOK, OfferOK
<1> QED BY <1>1, <1>2, <1>3, ActorDecides DEF DeviceInv

\* What a revocation cuts off is of the log and the mailboxes.
LEMMA BarTyped ==
  ASSUME Inv, NEW target \in Device, Bar(target)
  PROVE  barred' \in [devices : SUBSET registered, records : SUBSET (DOMAIN log),
                     updates : SUBSET (Device \X Nat)]
<1>1. Sent(target) \subseteq Device \X Nat
  <2>1. SUFFICES ASSUME NEW e \in Device, NEW m \in relay[e] PROVE m.seq \in Nat
    BY DEF Sent, ListKeyUpdates
  <2>2. RelayOK(e) /\ Cardinality(relay[e]) \in Nat
    BY FS_CardinalityType DEF Inv, DeviceInv, RelayOK
  <2> QED BY <2>2 DEF RelayOK
<1>2. Written(target) \subseteq DOMAIN log
  BY DEF Written
<1>3. PICK devices \in SUBSET (registered \ {First, target}),
           records \in SUBSET Written(target), updates \in SUBSET Sent(target) :
        barred' = [devices |-> barred.devices \cup devices,
                   records |-> barred.records \cup records,
                   updates |-> barred.updates \cup updates]
  BY DEF Bar
<1> QED BY <1>1, <1>2, <1>3 DEF Inv, Shapes

LEMMA RevokeDevicePreserves ==
  ASSUME Inv, NEW d \in Device, NEW target \in Device, RevokeDevice(d, target)
  PROVE  Inv'
<1>1. /\ UNCHANGED <<minted, held, config, vault, sealer, parked, registered, offer, relay, log>>
      /\ failures' = failures /\ revoked' = revoked \cup {target}
      /\ target \in registered /\ config[d].active /\ MoreTrouble /\ Bar(target)
      /\ task' = [task EXCEPT ![d] = [op |-> "rotate", step |-> "mint"]]
  BY DEF RevokeDevice, library
<1>2. config[d].current <= MaxTrouble
  <2>1. Len(minted) <= MaxTrouble /\ Len(minted) \in Nat
    BY <1>1, TroubleLeft DEF Inv, Shapes, MintOK
  <2> QED BY <1>1, <2>1, CurrentMinted, Bounds
<1>3. task'[d] = [op |-> "rotate", step |-> "mint"]
  BY <1>1 DEF Inv, Shapes
<1>4. TaskOK(d)'
  BY <1>1, <1>2, <1>3 DEF TaskOK
<1>5. /\ revoked' \subseteq registered /\ failures' \in Nat
      /\ DOMAIN task' = Device /\ \A e \in Device \ {d} : task'[e] = task[e]
  BY <1>1 DEF Inv, Shapes
<1>6. barred' \in [devices : SUBSET registered, records : SUBSET (DOMAIN log),
                  updates : SUBSET (Device \X Nat)]
  BY <1>1, BarTyped
<1> QED BY <1>1, <1>4, <1>5, <1>6, TaskMoves

LEMMA RotateLocalPreserves ==
  ASSUME Inv, NEW d \in Device, RotateLocal(d)
  PROVE  Inv'
<1> DEFINE next == config[d].current + 1
           key == Len(minted) + 1
<1>1. /\ UNCHANGED <<sealer, config, vault, parked, registered, revoked, barred, offer, relay,
                     log, failures>>
      /\ minted' = Append(minted, next)
      /\ held' = [held EXCEPT ![d] = [held[d] EXCEPT ![next] = key]]
      /\ task' = [task EXCEPT ![d] = [op |-> "rotate", step |-> "commit"]]
      /\ Rotates(d)
  BY DEF RotateLocal, Committing, library, server
<1>2. config[d].active /\ config[d].current <= MaxTrouble /\ config[d].current <= Len(minted)
  <2>1. CASE At(d, "rotate", "mint")
    BY <2>1, CurrentMinted DEF At, Inv, DeviceInv, TaskOK
  <2>2. CASE config[d].active /\ MoreTrouble
    <3>1. Len(minted) <= MaxTrouble /\ Len(minted) \in Nat
      BY <2>2, TroubleLeft DEF Inv, Shapes, MintOK
    <3> QED BY <2>2, <3>1, CurrentMinted, Bounds
  <2> QED BY <1>1, <2>1, <2>2 DEF Rotates
<1>3. next \in Generation /\ next <= key /\ config[d].current \in Nat /\ Len(minted) \in Nat
  <2>1. config[d].current \in Nat /\ Len(minted) \in Nat
    BY <1>2, CurrentMinted DEF Inv, Shapes, MintOK
  <2> QED BY <1>2, <2>1, Bounds
<1>4. MintOK'
  <2>1. minted \in Seq(Generation) /\ \A k \in 1..Len(minted) : minted[k] <= k
    BY DEF Inv, Shapes, MintOK
  <2>2. /\ minted' \in Seq(Generation) /\ Len(minted') = key /\ minted'[key] = next
        /\ \A k \in 1..Len(minted) : minted'[k] = minted[k]
    BY <1>1, <1>3, <2>1
  <2>3. \A k \in 1..key : k = key \/ k \in 1..Len(minted)
    BY <1>3
  <2> QED BY <1>3, <2>1, <2>2, <2>3 DEF MintOK
<1>5. Grows
  BY <1>1, <1>3 DEF Grows, MintGrows, Inv, Shapes
<1>6. /\ held'[d] = [held[d] EXCEPT ![next] = key]
      /\ task'[d] = [op |-> "rotate", step |-> "commit"]
      /\ KeysIn(held[d], minted) /\ held[d] \in [Generation -> Nat]
  BY <1>1 DEF Inv, Shapes, DeviceInv, ConfigOK
<1>7. KeysIn(held'[d], minted') /\ Covers(held'[d], held[d]) /\ held'[d][next] # 0
  <2>1. /\ KeysIn(held[d], minted') /\ key \in 1..Len(minted') /\ minted'[key] = next
        /\ key \in Nat /\ key # 0
    <3>1. minted \in Seq(Generation)
      BY DEF Inv, Shapes, MintOK
    <3> QED BY <1>1, <1>3, <1>5, <1>6, <3>1, GrowsKeeps
  <2> HIDE DEF next, key
  <2> QED BY <1>3, <1>6, <2>1 DEF KeysIn, Covers
<1>8. Shapes'
  BY <1>1, <1>4, <1>6, <1>7 DEF Inv, Shapes, Grants, KeysIn
<1>9. OnlyActs(d)
  BY <1>1, <1>5 DEF OnlyActs, Same, RelayGrows, OfferGrows, Inv, Shapes
<1>10. DeviceInv(d)'
  <2>1. ConfigOK(d)' /\ RelayOK(d)' /\ OfferOK(d)'
    BY <1>1, <1>5, <1>7, ConfigKept, RelayKept, OfferKept DEF RelayGrows, OfferGrows
  <2>2. TaskOK(d)'
    BY <1>1, <1>2, <1>3, <1>6, <1>7 DEF TaskOK
  <2> QED BY <2>1, <2>2 DEF DeviceInv
<1> QED BY <1>8, <1>9, <1>10, ActorDecides

LEMMA CommitRotationPreserves ==
  ASSUME Inv, NEW d \in Device, CommitRotation(d)
  PROVE  Inv'
<1> DEFINE next == config[d].current + 1
<1>1. /\ UNCHANGED <<minted, held, vault, parked, registered, revoked, barred, offer, relay, log,
                     failures>>
      /\ task[d].op = "rotate" /\ task[d].step = "commit"
      /\ config' = [config EXCEPT ![d] = [config[d] EXCEPT !.current = next]]
  BY DEF CommitRotation, At, server
<1>2. /\ config'[d] = [config[d] EXCEPT !.current = next] /\ config[d] \in Config
      /\ \A e \in Device \ {d} : config'[e] = config[e]
  BY <1>1 DEF Inv, Shapes
<1>3. /\ config[d].active /\ next \in Generation /\ held[d][next] # 0 /\ next \in Nat
      /\ KeysIn(held[d], minted) /\ config[d].current \in Nat
  BY <1>1, <1>2, Bounds DEF Inv, DeviceInv, TaskOK, ConfigOK, Config
<1>4. /\ config'[d].current = next /\ config'[d] \in Config /\ config'[d].active
      /\ config'[d].cursor = config[d].cursor /\ config'[d].watermark = config[d].watermark
  BY <1>2, <1>3 DEF Config
<1>5. /\ \/ sealer' = sealer
         \/ sealer' = [sealer EXCEPT ![d] = [gen |-> next, key |-> held[d][next]]]
      /\ \/ task' = [task EXCEPT ![d] = Idle]
         \/ \E targets : task' =
              [task EXCEPT ![d] = [op |-> "rotate", step |-> "send", targets |-> targets]]
  <2>1. CASE Served(d)
    BY <1>1, <1>4, <2>1 DEF CommitRotation, Distributing
  <2>2. CASE ~Served(d)
    BY <2>2 DEF CommitRotation, Stop
  <2> QED BY <2>1, <2>2
<1>6. held[d][next] \in 1..Len(minted) /\ minted[held[d][next]] = next /\ Len(minted) \in Nat
  BY <1>3 DEF KeysIn, Inv, Shapes, MintOK
<1> HIDE DEF next
<1>7. /\ sealer' \in [Device -> [gen : Nat, key : Nat]] /\ DOMAIN task' = Device
      /\ \A e \in Device \ {d} : sealer'[e] = sealer[e] /\ task'[e] = task[e]
  <2>1. [gen |-> next, key |-> held[d][next]] \in [gen : Nat, key : Nat]
    BY <1>3, <1>6
  <2>2. /\ sealer' \in [Device -> [gen : Nat, key : Nat]]
        /\ \A e \in Device \ {d} : sealer'[e] = sealer[e]
    <3>1. sealer \in [Device -> [gen : Nat, key : Nat]]
      BY DEF Inv, Shapes
    <3>2. CASE sealer' = sealer
      BY <3>1, <3>2
    <3>3. CASE sealer' = [sealer EXCEPT ![d] = [gen |-> next, key |-> held[d][next]]]
      BY <2>1, <3>1, <3>3
    <3> QED BY <1>5, <3>2, <3>3
  <2>3. DOMAIN task' = Device /\ \A e \in Device \ {d} : task'[e] = task[e]
    <3>1. DOMAIN task = Device
      BY DEF Inv, Shapes
    <3> QED BY <1>5, <3>1
  <2> QED BY <2>2, <2>3
<1>8. Shapes'
  <2>1. config' \in [Device -> Config]
    BY <1>1, <1>2, <1>4 DEF Inv, Shapes
  <2> QED BY <1>1, <1>7, <2>1 DEF Inv, Shapes, MintOK, Grants
<1>9. OnlyActs(d)
  BY <1>1, <1>2, <1>7 DEF OnlyActs, Grows, MintGrows, Same, RelayGrows, OfferGrows, Inv, Shapes
<1>10. DeviceInv(d)'
  <2>1. ConfigOK(d) /\ RelayOK(d) /\ OfferOK(d)
    BY DEF Inv, DeviceInv
  <2>2. ConfigOK(d)'
    <3>1. CASE sealer' = sealer
      <4>1. sealer[d].gen <= next /\ sealer[d] \in [gen : Nat, key : Nat]
        BY <1>3, <2>1 DEF ConfigOK, Inv, Shapes, next
      <4> QED BY <1>1, <1>3, <1>4, <2>1, <3>1, <4>1, Bounds DEF ConfigOK
    <3>2. CASE sealer' = [sealer EXCEPT ![d] = [gen |-> next, key |-> held[d][next]]]
      <4>1. sealer'[d] = [gen |-> next, key |-> held[d][next]]
        BY <3>2 DEF Inv, Shapes
      <4> QED BY <1>1, <1>3, <1>4, <1>6, <2>1, <4>1, Bounds DEF ConfigOK
    <3> QED BY <1>5, <3>1, <3>2
  <2>3. RelayOK(d)' /\ OfferOK(d)'
    BY <1>1, <1>4, <2>1 DEF RelayOK, OfferOK
  <2>4. TaskOK(d)'
    <3>1. task'[d] = Idle \/ (task'[d].op = "rotate" /\ task'[d].step = "send")
      <4>1. DOMAIN task = Device
        BY DEF Inv, Shapes
      <4>2. CASE task' = [task EXCEPT ![d] = Idle]
        BY <4>1, <4>2 DEF Idle
      <4>3. CASE \E targets : task' =
                   [task EXCEPT ![d] = [op |-> "rotate", step |-> "send", targets |-> targets]]
        BY <4>1, <4>3
      <4> QED BY <1>5, <4>2, <4>3
    <3> QED BY <1>4, <3>1 DEF TaskOK, Idle
  <2> QED BY <2>2, <2>3, <2>4 DEF DeviceInv
<1> QED BY <1>8, <1>9, <1>10, ActorDecides

\* One more message makes one more grant at most.
LEMMA GrantsGrow ==
  ASSUME Inv, NEW target \in Device, NEW m, relay' = [relay EXCEPT ![target] = relay[target] \cup {m}]
  PROVE  IsFiniteSet(Grants')
<1>1. /\ relay'[target] = relay[target] \cup {m}
      /\ \A e \in Device : e # target => relay'[e] = relay[e]
  BY DEF Inv, Shapes
<1>2. Grants' \subseteq Grants \cup {<<target, m>>}
  <2>1. SUFFICES ASSUME NEW g \in Grants', g # <<target, m>> PROVE g \in Grants
    OBVIOUS
  <2>2. PICK e \in Device, n \in UNION {relay'[x] : x \in Device} : g = <<e, n>>
    BY <2>1 DEF Grants
  <2>3. n \in relay'[e] /\ n.mk
    BY <2>1, <2>2 DEF Grants
  <2>4. n \in relay[e]
    BY <1>1, <2>1, <2>2, <2>3
  <2>5. g \in Device \X UNION {relay[x] : x \in Device}
    BY <2>2, <2>4
  <2> QED BY <2>2, <2>3, <2>4, <2>5 DEF Grants
<1>3. IsFiniteSet(Grants \cup {<<target, m>>})
  BY FS_AddElement DEF Inv, Shapes
<1> QED BY <1>2, <1>3, FS_Subset

\* What a message does to the mailboxes.
LEMMA MessageSent ==
  ASSUME Inv, NEW d \in Device, NEW target \in Device, NEW mk, config[d].active,
         PutKeyUpdate(d, target, mk), minted' = minted
  PROVE  /\ IsFiniteSet(Grants') /\ DOMAIN relay' = Device
         /\ \A e \in Device : RelayGrows(e)
<1> DEFINE m == [seq |-> NextSeq(target), from |-> d, keys |-> Bundle(d), mk |-> mk]
<1>1. relay' = [relay EXCEPT ![target] = relay[target] \cup {m}]
  BY DEF PutKeyUpdate
<1>2. m.seq = Cardinality(relay[target]) + 1 /\ GoodBundle(m.keys, minted)
  BY BundleGood DEF NextSeq
<1> HIDE DEF m
<1>3. DOMAIN relay' = Device
  BY <1>1 DEF Inv, Shapes
<1>4. ASSUME NEW e \in Device PROVE RelayGrows(e)
  <2>1. CASE e = target
    BY <1>1, <1>2, <2>1 DEF RelayGrows, Inv, Shapes
  <2>2. CASE e # target
    BY <1>1, <2>2 DEF RelayGrows, Inv, Shapes
  <2> QED BY <2>1, <2>2
<1> QED BY <1>1, <1>3, <1>4, GrantsGrow

LEMMA SendGenerationsPreserves ==
  ASSUME Inv, NEW d \in Device, NEW target \in Device, SendGenerations(d, target)
  PROVE  Inv'
<1> DEFINE current == config[d].current
<1>1. /\ UNCHANGED <<minted, held, config, vault, parked, registered, revoked, barred, offer, log,
                     failures>>
      /\ task[d].op = "rotate" /\ task[d].step = "send"
      /\ PutKeyUpdate(d, target, FALSE)
  BY DEF SendGenerations, At, library
<1>2. /\ config[d].active /\ KeysIn(held[d], minted) /\ current \in Generation
      /\ held[d][current] # 0 /\ current <= MaxTrouble + 1
  BY <1>1 DEF Inv, DeviceInv, TaskOK, ConfigOK
<1>3. /\ IsFiniteSet(Grants') /\ DOMAIN relay' = Device
      /\ \A e \in Device : RelayGrows(e)
  BY <1>1, <1>2, MessageSent
<1>4. /\ \/ sealer' = sealer
         \/ sealer' = [sealer EXCEPT ![d] = [gen |-> current, key |-> held[d][current]]]
      /\ \/ task' = [task EXCEPT ![d] = Idle]
         \/ \E targets : task' =
              [task EXCEPT ![d] = [op |-> "rotate", step |-> "send", targets |-> targets]]
  BY <1>1 DEF SendGenerations, Distributing
<1>5. held[d][current] \in 1..Len(minted) /\ minted[held[d][current]] = current /\ Len(minted) \in Nat
  BY <1>2 DEF KeysIn, Inv, Shapes, MintOK
<1> HIDE DEF current
<1>6. /\ sealer' \in [Device -> [gen : Nat, key : Nat]]
      /\ \A e \in Device \ {d} : sealer'[e] = sealer[e]
      /\ sealer' # sealer => sealer'[d] = [gen |-> current, key |-> held[d][current]]
  <2>1. [gen |-> current, key |-> held[d][current]] \in [gen : Nat, key : Nat]
    BY <1>2, <1>5, Bounds
  <2>2. sealer \in [Device -> [gen : Nat, key : Nat]]
    BY DEF Inv, Shapes
  <2>3. CASE sealer' = sealer
    BY <2>2, <2>3
  <2>4. CASE sealer' = [sealer EXCEPT ![d] = [gen |-> current, key |-> held[d][current]]]
    BY <2>1, <2>2, <2>4
  <2> QED BY <1>4, <2>3, <2>4
<1>7. /\ DOMAIN task' = Device /\ \A e \in Device \ {d} : task'[e] = task[e]
      /\ task'[d] = Idle \/ (task'[d].op = "rotate" /\ task'[d].step = "send")
  <2>1. DOMAIN task = Device
    BY DEF Inv, Shapes
  <2>2. CASE task' = [task EXCEPT ![d] = Idle]
    BY <2>1, <2>2 DEF Idle
  <2>3. CASE \E targets : task' =
               [task EXCEPT ![d] = [op |-> "rotate", step |-> "send", targets |-> targets]]
    BY <2>1, <2>3
  <2> QED BY <1>4, <2>2, <2>3
<1>8. Shapes'
  BY <1>1, <1>3, <1>6, <1>7 DEF Inv, Shapes, MintOK
<1>9. Grows
  BY <1>1 DEF Grows, MintGrows, Inv, Shapes
<1>10. OnlyActs(d)
  BY <1>1, <1>3, <1>6, <1>7, <1>9 DEF OnlyActs, Same, OfferGrows
<1>11. DeviceInv(d)'
  <2>1. ConfigOK(d)'
    <3>1. ConfigOK(d)
      BY DEF Inv, DeviceInv
    <3>2. CASE sealer' = sealer
      BY <1>1, <3>1, <3>2 DEF ConfigOK
    <3>3. CASE sealer' # sealer
      <4>1. sealer'[d].key \in 1..Len(minted) /\ minted[sealer'[d].key] = sealer'[d].gen
        BY <1>5, <1>6, <3>3
      <4>2. sealer'[d].gen <= config[d].current
        BY <1>2, <1>6, <3>3, Bounds DEF current
      <4> QED BY <1>1, <3>1, <4>1, <4>2 DEF ConfigOK
    <3> QED BY <3>2, <3>3
  <2>2. RelayOK(d)' /\ OfferOK(d)'
    <3>1. Covers(held'[d], held[d])
      BY <1>1 DEF Covers
    <3> QED BY <1>1, <1>3, <1>9, <3>1, RelayKept, OfferKept DEF OfferGrows
  <2>3. TaskOK(d)'
    BY <1>1, <1>2, <1>7 DEF TaskOK, Idle
  <2> QED BY <2>1, <2>2, <2>3 DEF DeviceInv
<1> QED BY <1>8, <1>10, <1>11, ActorDecides

LEMMA IdleTask ==
  ASSUME Inv, NEW d \in Device, Stop(d)
  PROVE  /\ DOMAIN task' = Device /\ \A e \in Device \ {d} : task'[e] = task[e]
         /\ TaskOK(d)'
BY DEF Inv, Shapes, Stop, TaskOK, Idle

LEMMA FailingPreserves ==
  ASSUME Inv, NEW d \in Device, FailRotation(d) \/ FailRound(d)
  PROVE  Inv'
<1>1. /\ UNCHANGED <<minted, held, config, vault, sealer, parked, registered, barred, offer,
                     relay, log>>
      /\ revoked' = revoked /\ Stop(d)
  BY DEF FailRotation, FailRound, library, server
<1>2. failures' \in Nat
  BY DEF FailRotation, FailRound, Fails, Inv, Shapes
<1>3. /\ revoked' \subseteq registered
      /\ barred' \in [devices : SUBSET registered, records : SUBSET (DOMAIN log),
                     updates : SUBSET (Device \X Nat)]
  BY <1>1 DEF Inv, Shapes
<1> QED BY <1>1, <1>2, <1>3, IdleTask, TaskMoves

LEMMA GrantVaultAccessPreserves ==
  ASSUME Inv, NEW d \in Device, NEW target \in Device, GrantVaultAccess(d, target)
  PROVE  Inv'
<1>1. /\ UNCHANGED <<minted, held, config, vault, sealer, parked, registered, revoked, barred,
                     offer, log,
                     task, failures>>
      /\ config[d].active /\ PutKeyUpdate(d, target, TRUE)
  BY DEF GrantVaultAccess, library
<1>2. /\ IsFiniteSet(Grants') /\ DOMAIN relay' = Device
      /\ \A e \in Device : RelayGrows(e)
  BY <1>1, MessageSent
<1>3. Shapes'
  BY <1>1, <1>2 DEF Inv, Shapes, MintOK
<1>4. Grows
  BY <1>1 DEF Grows, MintGrows, Inv, Shapes
<1>5. \A e \in Device : Same(e) /\ OfferGrows(e)
  BY <1>1 DEF Same, OfferGrows
<1> QED BY <1>2, <1>3, <1>4, <1>5, OthersKept DEF Inv

\* The grant that is installed is one that waits behind the cursor.
LEMMA GrantInstalled ==
  ASSUME Inv, NEW d \in Device, InstallGrant(d)
  PROVE  \E m \in relay[d] :
           /\ m.seq > config[d].cursor
           /\ held' = [held EXCEPT ![d] = Installed(held[d], m.keys)]
           /\ task' = [task EXCEPT ![d] = [op |-> "adopt", step |-> "commit", keys |-> m.keys]]
<1> DEFINE grants == {m \in ListKeyUpdates(d) : m.mk /\ Opens(Directory, d, m)}
           newest == CHOOSE m \in grants : \A n \in grants : n.seq <= m.seq
<1>1. /\ grants # {}
      /\ held' = [held EXCEPT ![d] = Installed(held[d], newest.keys)]
      /\ task' = [task EXCEPT ![d] = [op |-> "adopt", step |-> "commit", keys |-> newest.keys]]
  BY DEF InstallGrant
<1>2. \A m \in grants : m \in relay[d] /\ m.seq > config[d].cursor
  BY DEF ListKeyUpdates
<1> HIDE DEF grants
<1>3. newest \in grants
  <2>1. Cardinality(relay[d]) \in Nat /\ \A m \in relay[d] : m.seq \in 1..Cardinality(relay[d])
    BY FS_CardinalityType DEF Inv, DeviceInv, RelayOK
  <2> DEFINE S == {m.seq : m \in grants}
  <2>2. S \in SUBSET (0..Cardinality(relay[d])) /\ S # {}
    BY <1>1, <1>2, <2>1
  <2>3. Max(S) \in S /\ \A y \in S : Max(S) >= y
    BY <2>1, <2>2, MaxOf
  <2>4. PICK m \in grants : m.seq = Max(S)
    BY <2>3
  <2>5. \A n \in grants : n.seq <= m.seq
    <3>1. SUFFICES ASSUME NEW n \in grants PROVE n.seq <= m.seq
      OBVIOUS
    <3>2. n.seq \in S /\ n.seq \in Nat /\ m.seq \in Nat
      BY <1>2, <2>1
    <3>3. Max(S) >= n.seq
      BY <2>3, <3>2
    <3> HIDE DEF S
    <3> QED BY <2>4, <3>2, <3>3
  <2> QED BY <2>5
<1> QED BY <1>1, <1>2, <1>3

LEMMA InstallGrantPreserves ==
  ASSUME Inv, NEW d \in Device, InstallGrant(d)
  PROVE  Inv'
<1>1. PICK m \in relay[d] :
        /\ held' = [held EXCEPT ![d] = Installed(held[d], m.keys)]
        /\ task' = [task EXCEPT ![d] = [op |-> "adopt", step |-> "commit", keys |-> m.keys]]
  BY GrantInstalled
<1>2. /\ UNCHANGED <<minted, sealer, config, vault, parked, registered, revoked, barred, offer,
                     relay, log,
                     failures>>
      /\ d \in registered
  BY DEF InstallGrant, library, server, Served
<1>3. KeysIn(held[d], minted) /\ GoodBundle(m.keys, minted)
  BY DEF Inv, DeviceInv, ConfigOK, RelayOK
<1>4. /\ KeysIn(Installed(held[d], m.keys), minted)
      /\ Covers(Installed(held[d], m.keys), m.keys) /\ Covers(Installed(held[d], m.keys), held[d])
  BY <1>3 DEF GoodBundle, KeysIn, Installed, Covers
<1>5. /\ held'[d] = Installed(held[d], m.keys)
      /\ task'[d] = [op |-> "adopt", step |-> "commit", keys |-> m.keys]
  BY <1>1 DEF Inv, Shapes
<1>6. Shapes'
  BY <1>1, <1>2, <1>4 DEF Inv, Shapes, MintOK, Grants, KeysIn
<1>7. OnlyActs(d)
  BY <1>1, <1>2 DEF OnlyActs, Grows, MintGrows, Same, RelayGrows, OfferGrows, Inv, Shapes
<1>8. DeviceInv(d)'
  <2>1. Grows /\ OfferGrows(d) /\ RelayGrows(d)
    BY <1>2, <1>7 DEF OnlyActs, OfferGrows, RelayGrows
  <2>2. ConfigOK(d)' /\ RelayOK(d)' /\ OfferOK(d)'
    BY <1>2, <1>4, <1>5, <2>1, ConfigKept, RelayKept, OfferKept
  <2>3. TaskOK(d)'
    BY <1>2, <1>3, <1>4, <1>5 DEF TaskOK
  <2> QED BY <2>2, <2>3 DEF DeviceInv
<1> QED BY <1>6, <1>7, <1>8, ActorDecides

\* A generation that is held may become the current one, and the cursor may
\* pass messages that are in use.
LEMMA ConfigMoves ==
  ASSUME Inv, NEW d \in Device, NEW current \in Nat, NEW cursor \in Nat,
         UNCHANGED <<minted, held, sealer, parked, registered, revoked, barred, offer, relay, log,
                     failures>>,
         config' = [config EXCEPT ![d] = [config[d] EXCEPT !.current = current, !.cursor = cursor]],
         DOMAIN task' = Device, \A e \in Device \ {d} : task'[e] = task[e], TaskOK(d)',
         vault' \in {vault, vault \cup {d}}, d \in vault' => d \in registered,
         current >= config[d].current, current <= MaxTrouble + 1,
         config[d].active => current \in Generation /\ held[d][current] # 0,
         cursor <= Cardinality(relay[d]),
         \A m \in relay[d] : m.seq <= cursor => Covers(held[d], m.keys) /\ (m.mk => d \in vault')
  PROVE  Inv'
<1>1. /\ config'[d] = [config[d] EXCEPT !.current = current, !.cursor = cursor]
      /\ config[d] \in Config /\ \A e \in Device \ {d} : config'[e] = config[e]
  BY DEF Inv, Shapes
<1>2. /\ config'[d].current = current /\ config'[d].cursor = cursor /\ config'[d] \in Config
      /\ config'[d].active = config[d].active /\ config'[d].watermark = config[d].watermark
      /\ config[d].current \in Nat
  <2> DEFINE r == [config[d] EXCEPT !.current = current, !.cursor = cursor]
  <2>1. /\ config[d].active \in BOOLEAN /\ config[d].current \in Nat
        /\ config[d].cursor \in Nat /\ config[d].watermark \in Nat
    BY <1>1 DEF Config
  <2>2. r = [active |-> config[d].active, current |-> current,
             cursor |-> cursor, watermark |-> config[d].watermark]
    <3> DEFINE c == [config[d] EXCEPT !.current = current]
    <3>1. c = [active |-> config[d].active, current |-> current,
               cursor |-> config[d].cursor, watermark |-> config[d].watermark]
      BY <1>1 DEF Config
    <3> HIDE DEF c
    <3>2. [c EXCEPT !.cursor = cursor] = [active |-> config[d].active, current |-> current,
             cursor |-> cursor, watermark |-> config[d].watermark]
      BY <3>1
    <3>3. r = [c EXCEPT !.cursor = cursor]
      BY DEF c
    <3> QED BY <3>2, <3>3
  <2> HIDE DEF r
  <2>3. r \in Config
    BY <2>1, <2>2 DEF Config
  <2>4. /\ r.current = current /\ r.cursor = cursor
        /\ r.active = config[d].active /\ r.watermark = config[d].watermark
    BY <2>2
  <2>5. config'[d] = r
    BY <1>1 DEF r
  <2> QED BY <2>1, <2>3, <2>4, <2>5
<1>3. Shapes'
  <2>1. config' \in [Device -> Config]
    BY <1>1, <1>2 DEF Inv, Shapes
  <2>2. vault' \subseteq registered'
    BY DEF Inv, Shapes
  <2> QED BY <2>1, <2>2 DEF Inv, Shapes, MintOK, Grants
<1>4. OnlyActs(d)
  BY <1>1 DEF OnlyActs, Grows, MintGrows, Same, RelayGrows, OfferGrows, Inv, Shapes
<1>5. ConfigOK(d)'
  <2>1. ConfigOK(d) /\ sealer[d].gen \in Nat
    BY DEF Inv, DeviceInv, Shapes
  <2>2. sealer[d].gen <= config[d].current => sealer[d].gen <= current
    BY <1>2, <2>1
  <2> QED BY <1>2, <2>1, <2>2 DEF ConfigOK
<1>6. RelayOK(d)' /\ OfferOK(d)'
  BY <1>2 DEF Inv, DeviceInv, RelayOK, OfferOK
<1> QED BY <1>3, <1>4, <1>5, <1>6, ActorDecides DEF DeviceInv

LEMMA AdoptVaultGrantPreserves ==
  ASSUME Inv, NEW d \in Device, AdoptVaultGrant(d)
  PROVE  Inv'
<1> DEFINE newest == Newest(task[d].keys)
           current == IF newest > config[d].current THEN newest ELSE config[d].current
<1>1. /\ UNCHANGED <<minted, held, sealer, parked, registered, revoked, barred, offer, relay, log,
                     failures>>
      /\ task[d].op = "adopt" /\ vault' = vault \cup {d} /\ Stop(d)
      /\ config' = [config EXCEPT ![d] = [config[d] EXCEPT !.current = current]]
  BY DEF AdoptVaultGrant, At, server
<1>2. /\ GoodBundle(task[d].keys, minted) /\ Covers(held[d], task[d].keys) /\ d \in registered
      /\ ConfigOK(d) /\ RelayOK(d) /\ config[d] \in Config
  BY <1>1 DEF Inv, Shapes, DeviceInv, TaskOK
<1>3. newest \in Generation /\ held[d][newest] # 0
  BY <1>2, NewestIn DEF GoodBundle, Covers
<1>4. config[d].current \in Nat /\ config[d].cursor \in Nat
  BY <1>2 DEF Config
<1> HIDE DEF newest
<1>5. /\ current \in Nat /\ current >= config[d].current /\ current <= MaxTrouble + 1
      /\ config[d].active => current \in Generation /\ held[d][current] # 0
  BY <1>2, <1>3, <1>4, Bounds DEF ConfigOK
<1> HIDE DEF current
<1>6. config' = [config EXCEPT ![d] = [config[d] EXCEPT !.current = current, !.cursor = config[d].cursor]]
  <2>1. [config[d] EXCEPT !.current = current]
          = [config[d] EXCEPT !.current = current, !.cursor = config[d].cursor]
    BY <1>2 DEF Config
  <2> QED BY <1>1, <2>1
<1>7. \A m \in relay[d] : m.seq <= config[d].cursor => Covers(held[d], m.keys) /\ (m.mk => d \in vault')
  BY <1>1, <1>2 DEF RelayOK
<1>8. config[d].cursor <= Cardinality(relay[d])
  BY <1>2 DEF RelayOK
<1> QED BY <1>1, <1>2, <1>4, <1>5, <1>6, <1>7, <1>8, IdleTask, ConfigMoves

LEMMA BeginRoundPreserves ==
  ASSUME Inv, NEW d \in Device, NEW written \in BOOLEAN, BeginRound(d, written)
  PROVE  Inv'
<1> DEFINE entry == [author |-> d, gen |-> sealer[d].gen, key |-> sealer[d].key]
<1>1. /\ UNCHANGED <<minted, held, config, vault, sealer, parked, registered, revoked, barred,
                     offer, relay,
                     failures>>
      /\ log' \in {log, Append(log, entry)}
      /\ task' = [task EXCEPT ![d] = [op |-> "sync", step |-> "updates", trust |-> Directory,
                                      keys |-> Loaded(held[d], config[d].current)]]
  BY DEF BeginRound, library
<1>2. task'[d].op = "sync" /\ task'[d].step = "updates"
  BY <1>1 DEF Inv, Shapes
<1>3. log' \in Seq([author : Device, gen : Nat, key : Nat]) /\ Len(log') \in Nat /\ Len(log') >= Len(log)
  <2>1. log \in Seq([author : Device, gen : Nat, key : Nat])
    BY DEF Inv, Shapes
  <2>2. entry \in [author : Device, gen : Nat, key : Nat]
    BY DEF Inv, Shapes
  <2> HIDE DEF entry
  <2>3. CASE log' = log
    BY <2>1, <2>3
  <2>4. CASE log' = Append(log, entry)
    BY <2>1, <2>2, <2>4
  <2> QED BY <1>1, <2>3, <2>4 DEF entry
<1>4. Shapes'
  <2>1. DOMAIN log \subseteq DOMAIN log'
    BY <1>1, <1>3 DEF Inv, Shapes
  <2>2. barred \in [devices : SUBSET registered, records : SUBSET (DOMAIN log'),
                    updates : SUBSET (Device \X Nat)]
    BY <2>1 DEF Inv, Shapes
  <2> QED BY <1>1, <1>3, <2>2 DEF Inv, Shapes, MintOK, Grants
<1>5. Grows /\ OfferGrows(d) /\ RelayGrows(d) /\ Covers(held'[d], held[d]) /\ KeysIn(held'[d], minted')
  BY <1>1, <1>3 DEF Grows, MintGrows, OfferGrows, RelayGrows, Covers, Inv, DeviceInv, ConfigOK
<1>6. OnlyActs(d)
  BY <1>1, <1>5 DEF OnlyActs, Same, RelayGrows, OfferGrows, Inv, Shapes
<1>7. DeviceInv(d)'
  <2>1. ConfigOK(d)' /\ RelayOK(d)' /\ OfferOK(d)'
    BY <1>1, <1>5, ConfigKept, RelayKept, OfferKept
  <2>2. TaskOK(d)'
    BY <1>2 DEF TaskOK
  <2> QED BY <2>1, <2>2 DEF DeviceInv
<1> QED BY <1>4, <1>6, <1>7, ActorDecides

\* What a listing brings is in the store afterwards, and nothing leaves it.
LEMMA UpdatesInstalled ==
  ASSUME Inv, NEW d \in Device, NEW updates \in SUBSET relay[d]
  PROVE  /\ KeysIn(AddedFrom(d, updates), minted)
         /\ Covers(AddedFrom(d, updates), held[d])
         /\ \A m \in updates : Covers(AddedFrom(d, updates), m.keys)
         /\ \A g \in Generation :
              \/ AddedFrom(d, updates)[g] = held[d][g]
              \/ \E m \in updates : m.keys[g] # 0 /\ AddedFrom(d, updates)[g] = m.keys[g]
<1> DEFINE Bringing(g) == {m \in updates : m.keys[g] # 0}
           Earliest(g) == CHOOSE m \in Bringing(g) : \A n \in Bringing(g) : m.seq <= n.seq
<1>1. /\ KeysIn(held[d], minted) /\ Cardinality(relay[d]) \in Nat
      /\ \A m \in relay[d] : m.seq \in 1..Cardinality(relay[d]) /\ KeysIn(m.keys, minted)
  BY FS_CardinalityType DEF Inv, DeviceInv, ConfigOK, RelayOK, GoodBundle
<1>2. ASSUME NEW g \in Generation, Bringing(g) # {} PROVE Earliest(g) \in Bringing(g)
  <2> DEFINE n == Cardinality(relay[d])
             Behind == {n - m.seq : m \in Bringing(g)}
  <2>1. \A m \in Bringing(g) : m.seq \in 1..n /\ n - m.seq \in 0..n
    BY <1>1
  <2>2. Behind \in SUBSET (0..n) /\ Behind # {}
    BY <1>2, <2>1
  <2>3. Max(Behind) \in Behind /\ \A y \in Behind : Max(Behind) >= y
    BY <1>1, <2>2, MaxOf
  <2>4. PICK m \in Bringing(g) : Max(Behind) = n - m.seq
    BY <2>3
  <2>5. ASSUME NEW k \in Bringing(g) PROVE m.seq <= k.seq
    <3>1. n - k.seq \in Behind
      OBVIOUS
    <3>2. Max(Behind) >= n - k.seq
      BY <2>3, <3>1
    <3> HIDE DEF Behind
    <3> QED BY <1>1, <2>1, <2>4, <3>2
  <2> QED BY <2>5
<1>3. ASSUME NEW g \in Generation
      PROVE  AddedFrom(d, updates)[g] = IF held[d][g] # 0 \/ Bringing(g) = {}
                                          THEN held[d][g] ELSE Earliest(g).keys[g]
  BY DEF AddedFrom
<1> HIDE DEF Earliest
<1>4. ASSUME NEW g \in Generation
      PROVE  LET k == AddedFrom(d, updates)[g]
             IN  /\ k \in Nat
                 /\ k # 0 => k \in 1..Len(minted) /\ minted[k] = g
                 /\ held[d][g] # 0 => k # 0
                 /\ \A m \in updates : m.keys[g] # 0 => k # 0
                 /\ k = held[d][g] \/ \E m \in updates : m.keys[g] # 0 /\ k = m.keys[g]
  <2>1. CASE held[d][g] # 0 \/ Bringing(g) = {}
    BY <1>1, <1>3, <2>1 DEF KeysIn
  <2>2. CASE held[d][g] = 0 /\ Bringing(g) # {}
    <3>1. Earliest(g) \in updates /\ Earliest(g).keys[g] # 0
      BY <1>2, <2>2
    <3> QED BY <1>1, <1>3, <2>2, <3>1 DEF KeysIn
  <2> QED BY <2>1, <2>2
<1>5. AddedFrom(d, updates) = [g \in Generation |-> AddedFrom(d, updates)[g]]
  BY DEF AddedFrom
<1> QED BY <1>4, <1>5 DEF KeysIn, Covers

LEMMA InstallUpdatesPreserves ==
  ASSUME Inv, NEW d \in Device, InstallUpdates(d)
  PROVE  Inv'
<1> DEFINE updates == ListKeyUpdates(d)
           added == AddedFrom(d, Opened(d, updates))
<1>1. /\ UNCHANGED <<minted, sealer, config, vault, parked, registered, revoked, barred, offer,
                     relay, log,
                     failures>>
      /\ held' = [held EXCEPT ![d] = added]
      /\ \/ task' = [task EXCEPT ![d] = Pulling(d, task[d].keys)]
         \/ task' = [task EXCEPT ![d] = [op |-> "sync", step |-> "advance",
                                         trust |-> task[d].trust, updates |-> updates]]
  BY DEF InstallUpdates, library, server
<1>2. /\ KeysIn(added, minted) /\ Covers(added, held[d])
      /\ \A m \in updates : Opens(task[d].trust, d, m) => Covers(added, m.keys)
  <2>1. Opened(d, updates) \in SUBSET relay[d]
    BY DEF Opened, ListKeyUpdates
  <2> QED BY <2>1, UpdatesInstalled DEF Opened
<1>3. updates \subseteq relay[d] /\ \A m \in relay[d] : m.seq > config[d].cursor => m \in updates
  BY DEF ListKeyUpdates
<1> HIDE DEF updates, added
<1>4. /\ held'[d] = added /\ DOMAIN task' = Device
      /\ \A e \in Device \ {d} : held'[e] = held[e] /\ task'[e] = task[e]
  BY <1>1 DEF Inv, Shapes
<1>5. \/ task'[d].op = "sync" /\ task'[d].step = "pull"
      \/ task'[d] = [op |-> "sync", step |-> "advance", trust |-> task[d].trust, updates |-> updates]
  <2>1. DOMAIN task = Device
    BY DEF Inv, Shapes
  <2>2. CASE task' = [task EXCEPT ![d] = Pulling(d, task[d].keys)]
    BY <2>1, <2>2 DEF Pulling
  <2>3. CASE task' = [task EXCEPT ![d] = [op |-> "sync", step |-> "advance",
                                          trust |-> task[d].trust, updates |-> updates]]
    BY <2>1, <2>3
  <2> QED BY <1>1, <2>2, <2>3
<1>6. Shapes'
  BY <1>1, <1>2, <1>4 DEF Inv, Shapes, MintOK, Grants, KeysIn
<1>7. Grows /\ OfferGrows(d) /\ RelayGrows(d)
  BY <1>1 DEF Grows, MintGrows, OfferGrows, RelayGrows, Inv, Shapes
<1>8. OnlyActs(d)
  BY <1>1, <1>4, <1>7 DEF OnlyActs, Same, RelayGrows, OfferGrows
<1>9. DeviceInv(d)'
  <2>1. ConfigOK(d)' /\ RelayOK(d)' /\ OfferOK(d)'
    BY <1>1, <1>2, <1>4, <1>7, ConfigKept, RelayKept, OfferKept
  <2>2. TaskOK(d)'
    BY <1>1, <1>2, <1>3, <1>4, <1>5 DEF TaskOK
  <2> QED BY <2>1, <2>2 DEF DeviceInv
<1> QED BY <1>6, <1>8, <1>9, ActorDecides

LEMMA AdvanceConfigPreserves ==
  ASSUME Inv, NEW d \in Device, AdvanceConfig(d)
  PROVE  Inv'
<1> DEFINE updates == task[d].updates
           Newer == {config[d].current} \cup {Newest(m.keys) : m \in Opened(d, updates)}
           Behind == {config[d].cursor} \cup {m.seq : m \in Leading(d)}
           current == Max(Newer)
           cursor == Max(Behind)
<1>1. /\ UNCHANGED <<minted, held, sealer, vault, parked, registered, revoked, barred, offer,
                     relay, log,
                     failures>>
      /\ task[d].op = "sync" /\ task[d].step = "advance"
      /\ config' = [config EXCEPT ![d] = [config[d] EXCEPT !.current = current, !.cursor = cursor]]
      /\ task' = [task EXCEPT ![d] = Pulling(d, ReloadedKeys(d, current))]
  BY DEF AdvanceConfig, At, Acknowledged, server
<1>2. /\ updates \subseteq relay[d]
      /\ \A m \in relay[d] : m.seq > config[d].cursor /\ m \notin updates =>
           \A u \in updates : u.seq < m.seq
      /\ \A m \in updates : Opens(task[d].trust, d, m) => Covers(held[d], m.keys)
      /\ ConfigOK(d) /\ RelayOK(d)
  BY <1>1 DEF Inv, DeviceInv, TaskOK
<1>3. /\ config[d].current \in Nat /\ config[d].cursor \in Nat
      /\ Cardinality(relay[d]) \in Nat /\ config[d].cursor <= Cardinality(relay[d])
      /\ \A m \in relay[d] : m.seq \in 1..Cardinality(relay[d]) /\ Some(m.keys)
  BY <1>2, FS_CardinalityType DEF Inv, Shapes, Config, RelayOK, GoodBundle
<1>4. \A m \in Opened(d, updates) :
        Newest(m.keys) \in Generation /\ held[d][Newest(m.keys)] # 0
  <2>1. SUFFICES ASSUME NEW m \in Opened(d, updates)
                 PROVE  Newest(m.keys) \in Generation /\ held[d][Newest(m.keys)] # 0
    OBVIOUS
  <2>2. m \in updates /\ Opens(task[d].trust, d, m)
    BY DEF Opened
  <2>3. Newest(m.keys) \in Generation /\ m.keys[Newest(m.keys)] # 0
    BY <1>2, <1>3, <2>2, NewestIn
  <2> QED BY <1>2, <2>2, <2>3 DEF Covers
<1>5. current \in Newer /\ \A y \in Newer : current >= y
  <2>1. Newer \in SUBSET (0..(MaxTrouble + 1)) /\ Newer # {} /\ MaxTrouble + 1 \in Nat
    BY <1>2, <1>3, <1>4, Bounds DEF ConfigOK
  <2> QED BY <2>1, MaxOf
<1>6. cursor \in Behind /\ \A y \in Behind : cursor >= y
  <2>1. Leading(d) \subseteq updates
    BY DEF Leading
  <2>2. Behind \in SUBSET (0..Cardinality(relay[d])) /\ Behind # {}
    BY <1>2, <1>3, <2>1
  <2> QED BY <1>3, <2>2, MaxOf
<1>7. /\ current \in Nat /\ current >= config[d].current /\ current <= MaxTrouble + 1
      /\ config[d].active => current \in Generation /\ held[d][current] # 0
  <2>1. current = config[d].current \/ \E m \in Opened(d, updates) : current = Newest(m.keys)
    BY <1>5
  <2>2. current >= config[d].current
    BY <1>5
  <2> HIDE DEF current, updates
  <2>3. CASE current = config[d].current
    BY <1>2, <1>3, <2>2, <2>3 DEF ConfigOK
  <2>4. CASE \E m \in Opened(d, updates) : current = Newest(m.keys)
    <3>1. current \in Generation /\ held[d][current] # 0
      BY <1>4, <2>4
    <3> QED BY <2>2, <3>1, Bounds
  <2> QED BY <2>1, <2>3, <2>4
<1>8. cursor \in Nat /\ cursor <= Cardinality(relay[d])
  <2>1. cursor = config[d].cursor \/ \E m \in Leading(d) : cursor = m.seq
    BY <1>6
  <2>2. Leading(d) \subseteq relay[d]
    BY <1>2 DEF Leading
  <2> HIDE DEF cursor
  <2> QED BY <1>3, <2>1, <2>2
<1>9. ASSUME NEW m \in relay[d], m.seq <= cursor
      PROVE  Covers(held[d], m.keys) /\ (m.mk => d \in vault)
  <2>1. CASE m.seq <= config[d].cursor
    BY <1>2, <2>1 DEF RelayOK
  <2>2. CASE ~(m.seq <= config[d].cursor)
    <3>1. PICK l \in Leading(d) : cursor = l.seq
      BY <1>6, <1>9, <2>2
    <3>2. l \in updates /\ \A n \in updates : n.seq <= l.seq => Consumes(d, n)
      BY DEF Leading
    <3>3. l.seq \in Nat /\ m.seq \in Nat /\ m.seq <= l.seq
      BY <1>2, <1>3, <1>9, <3>1, <3>2
    <3> HIDE DEF cursor
    <3>4. m.seq > config[d].cursor /\ ~(l.seq < m.seq)
      BY <1>3, <2>2, <3>3
    <3>5. m \in updates
      BY <1>2, <3>2, <3>4
    <3>6. Consumes(d, m)
      BY <3>2, <3>3, <3>5
    <3> QED BY <1>2, <3>5, <3>6 DEF Consumes, Opened
  <2> QED BY <2>1, <2>2
<1> HIDE DEF current, cursor
<1>10. /\ DOMAIN task' = Device /\ \A e \in Device \ {d} : task'[e] = task[e]
       /\ task'[d].op = "sync" /\ task'[d].step = "pull"
  BY <1>1 DEF Pulling, Inv, Shapes
<1>11. TaskOK(d)'
  BY <1>10 DEF TaskOK
<1>12. vault' = vault /\ (d \in vault => d \in registered)
  BY <1>1 DEF Inv, Shapes
<1> QED BY <1>1, <1>7, <1>8, <1>9, <1>10, <1>11, <1>12, ConfigMoves

LEMMA PullPreserves ==
  ASSUME Inv, NEW d \in Device, Pull(d)
  PROVE  Inv'
<1>1. /\ UNCHANGED <<minted, held, sealer, vault, registered, revoked, barred, offer, relay, log,
                     failures>>
      /\ config' = [config EXCEPT ![d] = [config[d] EXCEPT !.watermark = Len(log)]]
      /\ parked' = [parked EXCEPT ![d] = {n \in parked[d] \cup {n \in Foreign(d) : Blocked(d, n)} :
                                            ~Readable(d, n)}]
      /\ Stop(d)
  BY DEF Pull, server
<1>2. config[d] \in Config /\ Len(log) \in Nat /\ DOMAIN parked = Device
      /\ parked[d] \subseteq 1..Len(log)
  BY DEF Inv, Shapes, DeviceInv, ConfigOK
<1>3. /\ config'[d].active = config[d].active /\ config'[d].current = config[d].current
      /\ config'[d].cursor = config[d].cursor /\ config'[d].watermark = Len(log)
      /\ config'[d] \in Config /\ \A e \in Device \ {d} : config'[e] = config[e]
      /\ config' \in [Device -> Config]
  <2>1. /\ config'[d] = [config[d] EXCEPT !.watermark = Len(log)]
        /\ \A e \in Device \ {d} : config'[e] = config[e]
    BY <1>1 DEF Inv, Shapes
  <2>2. /\ config'[d].active = config[d].active /\ config'[d].current = config[d].current
        /\ config'[d].cursor = config[d].cursor /\ config'[d].watermark = Len(log)
        /\ config'[d] \in Config
    BY <1>2, <2>1 DEF Config
  <2>3. config' \in [Device -> Config]
    BY <1>1, <2>1, <2>2 DEF Inv, Shapes
  <2> QED BY <2>1, <2>2, <2>3
<1>4. /\ DOMAIN parked' = Device /\ \A e \in Device \ {d} : parked'[e] = parked[e]
      /\ parked'[d] \subseteq 1..Len(log)
  <2>1. Foreign(d) \subseteq 1..Len(log)
    BY <1>2 DEF Foreign, Config
  <2>2. parked'[d] \subseteq parked[d] \cup Foreign(d)
    BY <1>1, <1>2
  <2> QED BY <1>1, <1>2, <2>1, <2>2
<1>5. /\ DOMAIN task' = Device /\ \A e \in Device \ {d} : task'[e] = task[e]
      /\ TaskOK(d)'
  BY <1>1, IdleTask
<1>6. Shapes'
  BY <1>1, <1>3, <1>4, <1>5 DEF Inv, Shapes, MintOK, Grants
<1>7. OnlyActs(d)
  BY <1>1, <1>2, <1>3, <1>4, <1>5 DEF OnlyActs, Grows, MintGrows, Same, RelayGrows, OfferGrows
<1>8. ConfigOK(d)' /\ RelayOK(d)' /\ OfferOK(d)'
  BY <1>1, <1>2, <1>3, <1>4 DEF Inv, DeviceInv, ConfigOK, RelayOK, OfferOK
<1> QED BY <1>5, <1>6, <1>7, <1>8, ActorDecides DEF DeviceInv

\* After a restart the sealer is the one of the configured generation again.
LEMMA RestartPreserves ==
  ASSUME Inv, NEW d \in Device, Restart(d)
  PROVE  Inv'
<1> DEFINE again == IF config[d].active THEN CurrentSealer(d) ELSE Nothing
<1>1. /\ UNCHANGED <<minted, held, config, vault, parked, registered, revoked, barred, offer,
                     relay, log>>
      /\ failures' = failures + 1 /\ Stop(d)
      /\ sealer' = [sealer EXCEPT ![d] = again]
  BY DEF Restart, Stop, library, server
<1>2. /\ KeysIn(held[d], minted) /\ config[d] \in Config
      /\ config[d].active =>
           config[d].current \in Generation /\ held[d][config[d].current] # 0
  BY DEF Inv, Shapes, DeviceInv, ConfigOK
<1>3. /\ again \in [gen : Nat, key : Nat]
      /\ config[d].active =>
           /\ again.key \in 1..Len(minted) /\ minted[again.key] = again.gen
           /\ again.gen <= config[d].current
  <2>1. CASE config[d].active
    <3>1. again = [gen |-> config[d].current, key |-> held[d][config[d].current]]
      BY <2>1 DEF CurrentSealer
    <3>2. /\ held[d][config[d].current] \in 1..Len(minted)
          /\ minted[held[d][config[d].current]] = config[d].current
          /\ config[d].current \in Nat /\ held[d][config[d].current] \in Nat
      BY <1>2, <2>1 DEF KeysIn, Config
    <3> HIDE DEF again
    <3> QED BY <3>1, <3>2
  <2>2. CASE ~config[d].active
    BY <2>2 DEF Nothing
  <2> QED BY <2>1, <2>2
<1> HIDE DEF again
<1>4. /\ sealer'[d] = again /\ \A e \in Device \ {d} : sealer'[e] = sealer[e]
      /\ sealer' \in [Device -> [gen : Nat, key : Nat]] /\ failures' \in Nat
  BY <1>1, <1>3 DEF Inv, Shapes
<1>5. /\ DOMAIN task' = Device /\ \A e \in Device \ {d} : task'[e] = task[e]
      /\ TaskOK(d)'
  BY <1>1, IdleTask
<1>6. Shapes'
  BY <1>1, <1>4, <1>5 DEF Inv, Shapes, MintOK, Grants
<1>7. OnlyActs(d)
  BY <1>1, <1>4, <1>5 DEF OnlyActs, Grows, MintGrows, Same, RelayGrows, OfferGrows, Inv, Shapes
<1>8. ConfigOK(d)' /\ RelayOK(d)' /\ OfferOK(d)'
  BY <1>1, <1>3, <1>4 DEF Inv, DeviceInv, ConfigOK, RelayOK, OfferOK
<1> QED BY <1>5, <1>6, <1>7, <1>8, ActorDecides DEF DeviceInv

LEMMA InitInv == Init => Inv
<1> SUFFICES ASSUME Init PROVE Inv
  OBVIOUS
<1>1. /\ First \in Device /\ 1 \in Generation
      /\ minted \in Seq(Generation) /\ Len(minted) = 1 /\ minted[1] = 1
  BY KeysAssumption, Bounds DEF Init
<1>2. MintOK
  BY <1>1 DEF MintOK
<1>3. NoKeys \in [Generation -> Nat] /\ [NoKeys EXCEPT ![1] = 1] \in [Generation -> Nat]
  BY <1>1 DEF NoKeys
<1>4. held \in [Device -> [Generation -> Nat]]
  BY <1>3 DEF Init
<1>5. /\ config \in [Device -> Config] /\ sealer \in [Device -> [gen : Nat, key : Nat]]
      /\ \A d \in Device :
           /\ config[d].active => d = First
           /\ config[d].cursor = 0 /\ config[d].watermark = 0
           /\ config[d].current = IF d = First THEN 1 ELSE 0
  BY DEF Init, Config, Nothing
<1>6. Grants = {}
  BY DEF Init, Grants
<1>7. Shapes
  <2>1. /\ DOMAIN parked = Device /\ DOMAIN relay = Device
        /\ DOMAIN offer = Device /\ DOMAIN task = Device
        /\ log = <<>> /\ vault = registered /\ revoked = {} /\ failures = 0
        /\ barred = [devices |-> {}, records |-> {}, updates |-> {}]
    BY DEF Init
  <2>2. IsFiniteSet(Grants)
    BY <1>6, FS_EmptySet
  <2> QED BY <1>2, <1>4, <1>5, <2>1, <2>2 DEF Shapes
<1>8. ASSUME NEW d \in Device PROVE DeviceInv(d)
  <2>1. KeysIn(held[d], minted) /\ (d = First => held[d][1] = 1 /\ sealer[d] = [gen |-> 1, key |-> 1])
    <3>1. CASE d = First
      <4>1. held[d] = [NoKeys EXCEPT ![1] = 1] /\ sealer[d] = [gen |-> 1, key |-> 1]
        BY <3>1 DEF Init
      <4>2. held[d][1] = 1 /\ \A g \in Generation \ {1} : held[d][g] = 0
        BY <1>1, <4>1 DEF NoKeys
      <4>3. \A g \in Generation : held[d][g] # 0 =>
              held[d][g] \in 1..Len(minted) /\ minted[held[d][g]] = g
        BY <1>1, <4>2
      <4>4. KeysIn(held[d], minted)
        BY <1>4, <4>3 DEF KeysIn
      <4> QED BY <4>1, <4>2, <4>4
    <3>2. CASE d # First
      <4>1. held[d] = NoKeys
        BY <3>2 DEF Init
      <4> QED BY <1>3, <3>2, <4>1 DEF KeysIn, NoKeys
    <3> QED BY <3>1, <3>2
  <2>2. Len(log) = 0 /\ parked[d] = {}
    BY DEF Init
  <2>3. ConfigOK(d)
    BY <1>1, <1>5, <2>1, <2>2, Bounds DEF ConfigOK
  <2>4. RelayOK(d)
    <3>1. relay[d] = {} /\ config[d].cursor = 0
      BY <1>5 DEF Init
    <3> QED BY <3>1, FS_EmptySet DEF RelayOK
  <2>5. OfferOK(d) /\ TaskOK(d)
    BY DEF Init, OfferOK, NoOffer, TaskOK, Idle
  <2> QED BY <2>3, <2>4, <2>5 DEF DeviceInv
<1> QED BY <1>7, <1>8 DEF Inv

LEMMA NextInv == Inv /\ [Next]_vars => Inv'
<1> SUFFICES ASSUME Inv, [Next]_vars PROVE Inv'
  OBVIOUS
<1>1. CASE UNCHANGED vars
  <2>1. /\ UNCHANGED <<minted, held, config, vault, sealer, parked, registered, barred, offer,
                       relay, log>>
        /\ UNCHANGED <<task, revoked, failures>>
    BY <1>1 DEF vars, library, server
  <2> QED BY <2>1 DEF Inv, Shapes, MintOK, Grants, DeviceInv, ConfigOK, RelayOK, OfferOK, TaskOK
<1>2. ASSUME NEW d \in Device, Pairing(d) PROVE Inv'
  BY <1>2, ApprovePairingPreserves, ClaimPairingPreserves, FinalizePairingPreserves DEF Pairing
<1>3. ASSUME NEW d \in Device, Rotation(d) PROVE Inv'
  BY <1>3, RotateLocalPreserves, CommitRotationPreserves, FailingPreserves,
     RevokeDevicePreserves, SendGenerationsPreserves DEF Rotation
<1>4. ASSUME NEW d \in Device, Granting(d) PROVE Inv'
  BY <1>4, GrantVaultAccessPreserves, InstallGrantPreserves, AdoptVaultGrantPreserves DEF Granting
<1>5. ASSUME NEW d \in Device, Round(d) PROVE Inv'
  BY <1>5, BeginRoundPreserves, InstallUpdatesPreserves, AdvanceConfigPreserves, PullPreserves,
     FailingPreserves DEF Round
<1>6. ASSUME NEW d \in Device, Restart(d) PROVE Inv'
  BY <1>6, RestartPreserves
<1> QED BY <1>1, <1>2, <1>3, <1>4, <1>5, <1>6 DEF Next

LEMMA InvTypes == Inv => TypeOK
<1> SUFFICES ASSUME Inv PROVE TypeOK
  OBVIOUS
<1>1. ASSUME NEW d \in Device
      PROVE  /\ held[d] \in Keys /\ config[d].current \in 0..(MaxTrouble + 1)
             /\ config[d].watermark \in 0..Len(log) /\ parked[d] \subseteq DOMAIN log
             /\ config[d].cursor <= Cardinality(relay[d])
             /\ \A m \in relay[d] : m.keys \in Keys
  <2>1. /\ config[d] \in Config /\ ConfigOK(d) /\ RelayOK(d)
        /\ Len(minted) \in Nat /\ Len(log) \in Nat /\ DOMAIN log = 1..Len(log)
    BY DEF Inv, Shapes, MintOK, DeviceInv
  <2>2. ASSUME NEW keys, KeysIn(keys, minted) PROVE keys \in Keys
    BY <2>1, <2>2 DEF KeysIn, Keys
  <2> QED BY <2>1, <2>2, Bounds DEF ConfigOK, RelayOK, GoodBundle, Config
<1>2. held \in [Device -> Keys]
  BY <1>1 DEF Inv, Shapes
<1>3. config \in [Device -> [active : BOOLEAN, current : 0..MaxTrouble + 1,
                             cursor : Nat, watermark : 0..Len(log)]]
  <2>1. ASSUME NEW d \in Device
        PROVE  config[d] \in [active : BOOLEAN, current : 0..(MaxTrouble + 1),
                              cursor : Nat, watermark : 0..Len(log)]
    <3>1. config[d] \in Config
      BY DEF Inv, Shapes
    <3> QED BY <1>1, <3>1 DEF Config
  <2> QED BY <2>1 DEF Inv, Shapes
<1> QED BY <1>1, <1>2, <1>3 DEF TypeOK, Inv, Shapes, MintOK

LEMMA InvKeeps == Inv => KeysNotLost
<1> SUFFICES ASSUME Inv, NEW d \in Device
             PROVE  /\ config[d].active =>
                         /\ held[d][config[d].current] # 0
                         /\ sealer[d] # Nothing /\ minted[sealer[d].key] = sealer[d].gen
                         /\ sealer[d].gen <= config[d].current
                    /\ \A m \in relay[d] : m.seq <= config[d].cursor =>
                         /\ \A g \in Generation : m.keys[g] # 0 => held[d][g] # 0
                         /\ m.mk => d \in vault
  BY DEF KeysNotLost, CurrentKeyHeld, UpdatesNotLost
<1>1. ConfigOK(d) /\ RelayOK(d) /\ Len(minted) \in Nat
  BY DEF Inv, DeviceInv, Shapes, MintOK
<1>2. config[d].active => sealer[d] # Nothing
  BY <1>1 DEF ConfigOK, Nothing
<1> QED BY <1>1, <1>2 DEF ConfigOK, RelayOK, Covers

LEMMA InvAlways == Spec => []Inv
  BY InitInv, NextInv, PTL DEF Spec

\* What the devices, the server and the log of minted keys hold stays well
\* formed: no configuration, watermark or message points past what was minted.
THEOREM KeyGenerationsTyped == Spec => []TypeOK
  BY InvAlways, InvTypes, PTL

\* No interleaving of pairings, rotations, revocations, grants and rounds, and
\* no crash between two of their writes, loses a key: a device holds the key of
\* the generation it is configured for and seals under one that was minted, and
\* a key update is acknowledged only when what it brought is in use.
THEOREM KeysNeverLost == Spec => []KeysNotLost
  BY InvAlways, InvKeeps, PTL

-----------------------------------------------------------------------------
(* Records await their keys: the argument for RecordsAwaitKeys.            *)

\* Key k is in no place of the bundle.
Lacks(keys, k) == \A g \in Generation : keys[g] # k

\* Key k has not left device d, and nothing is sealed under it.
Private(d, k) ==
  /\ \A e \in Device :
       /\ e # d => Lacks(held[e], k)
       /\ sealer[e].key # k
       /\ \A m \in relay[e] : Lacks(m.keys, k)
       /\ offer[e].made => Lacks(offer[e].keys, k)
       /\ task[e].op \in {"pair", "adopt"} => Lacks(task[e].keys, k)
  /\ \A n \in 1..Len(log) : log[n].key # k

\* The messages that the round under way still learns a generation from, or
\* that the next round will when none is.
Expected(d) ==
  IF task[d].op # "sync"
    THEN {m \in relay[d] : m.seq > config[d].cursor /\ Opens(Directory, d, m)}
  ELSE IF task[d].step = "updates"
    THEN {m \in relay[d] : m.seq > config[d].cursor /\ Opens(task[d].trust, d, m)}
  ELSE IF task[d].step = "advance"
    THEN {m \in task[d].updates : Opens(task[d].trust, d, m)}
  ELSE {}

\* A message will configure the generation, or would have, were it not cut off.
Awaited(d, g) == Withheld(d, g) \/ \E m \in Expected(d) : m.keys[g] # 0

\* A key above the configured generation was made here and never used, or its
\* generation is awaited.
AboveOK(d) ==
  config[d].active =>
    \A g \in Generation : \A k \in 1..Len(minted) :
      g > config[d].current /\ held[d][g] = k => Private(d, k) \/ Awaited(d, g)

\* A device holds nothing before it pairs, which it does once, and is active
\* whenever it does anything else.
PairingOK(d) ==
  /\ d \notin registered => ~offer[d].made
  /\ d \notin registered \/ offer[d].made =>
       ~config[d].active /\ held[d] = NoKeys /\ task[d].op # "pair"
  /\ task[d].op = "pair" => ~config[d].active /\ held[d] = task[d].keys
  /\ ~config[d].active => task[d].op \in {"idle", "pair"}

\* A round knows the authors of what is parked, as far as they are not cut off,
\* and works with the keys that are configured.
RoundOK(d) ==
  task[d].op = "sync" =>
    /\ task[d].trust.records \subseteq barred.records
    /\ \A n \in parked[d] : log[n].author \in task[d].trust.known \cup barred.devices
    /\ task[d].step \in {"updates", "pull"} => task[d].keys = Loaded(held[d], config[d].current)
    /\ task[d].step = "advance" => \A m \in task[d].updates : m.seq > config[d].cursor

DeviceAwaits(d) == AboveOK(d) /\ PairingOK(d) /\ RoundOK(d)

\* Records are sealed by members under keys that were minted; messages are from
\* members.
LogOK ==
  /\ \A n \in 1..Len(log) :
       /\ log[n].author \in registered
       /\ log[n].key \in 1..Len(minted) /\ minted[log[n].key] = log[n].gen
       /\ log[n].gen \in Generation
  /\ \A d \in Device : /\ sealer[d].key <= Len(minted)
                       /\ \A m \in relay[d] : m.from \in registered

Await == LogOK /\ \A d \in Device : DeviceAwaits(d)

-----------------------------------------------------------------------------
\* What a step of device d leaves alone, for the others to rely on: it spreads
\* no key that it has not configured.
Discreet(d) ==
  \A e \in Device : \A k \in 1..Len(minted) :
    Private(e, k) /\ Lacks(Loaded(held[d], config'[d].current), k) => Private(e, k)'

\* A revocation is never taken back.
BarredGrows ==
  /\ barred.devices \subseteq barred'.devices /\ barred.records \subseteq barred'.records
  /\ barred.updates \subseteq barred'.updates

StepFits(d) ==
  /\ LogOK' /\ BarredGrows
  /\ registered \subseteq registered'
  /\ \A n \in 1..Len(log) : n \in 1..Len(log') /\ log'[n] = log[n]
  /\ \A e \in Device :
       /\ relay[e] \subseteq relay'[e]
       /\ offer'[e] # offer[e] /\ e # d => e \notin registered /\ e \in registered'
       /\ e # d => Same(e)
  /\ Discreet(d)

\* A message that is expected stays so, or is cut off.
Stays(d, m) == m \in Expected(d)' \/ (m \in relay'[d] /\ ~Opens(Directory', d, m))
ForgetsNothing(d) == \A m \in Expected(d) : Stays(d, m)

LEMMA WithheldStays ==
  ASSUME Await, BarredGrows, NEW d \in Device, relay[d] \subseteq relay'[d],
         NEW g, Withheld(d, g)
  PROVE  Withheld(d, g)'
<1>1. PICK m \in relay[d] : m.keys[g] # 0 /\ ~Opens(Directory, d, m)
  BY DEF Withheld
<1>2. m.from \in registered
  BY DEF Await, LogOK
<1>3. ~Opens(Directory', d, m)
  BY <1>1, <1>2 DEF Opens, Directory, BarredGrows
<1> QED BY <1>1, <1>3 DEF Withheld

\* A step after which no round is under way leaves what was expected to the next.
LEMMA NextRoundExpects ==
  ASSUME Inv, Await, NEW d \in Device, task'[d].op # "sync",
         config'[d].cursor = config[d].cursor, relay[d] \subseteq relay'[d]
  PROVE  ForgetsNothing(d)
<1>1. RoundOK(d) /\ TaskOK(d)
  BY DEF Await, DeviceAwaits, Inv, DeviceInv
<1>2. ASSUME NEW m \in Expected(d) PROVE m \in relay[d] /\ m.seq > config[d].cursor
  BY <1>1, <1>2 DEF Expected, RoundOK, TaskOK
<1> QED BY <1>2 DEF ForgetsNothing, Stays, Expected

LEMMA OthersHidden ==
  ASSUME NEW d \in Device, NEW e \in Device, d # e, NEW k, k # 0, NEW c, Private(e, k)
  PROVE  Lacks(Loaded(held[d], c), k)
BY DEF Private, Lacks, Loaded

LEMMA AboveHidden ==
  ASSUME Inv, NEW d \in Device, NEW g \in Generation, held[d][g] # 0, NEW c \in Nat, g > c
  PROVE  Lacks(Loaded(held[d], c), held[d][g]) /\ held[d][g] \in 1..Len(minted)
<1>1. KeysIn(held[d], minted)
  BY DEF Inv, DeviceInv, ConfigOK
<1>2. \A h \in Generation : h <= c => held[d][h] # held[d][g]
  BY <1>1, Bounds DEF KeysIn
<1>3. \A h \in Generation : Loaded(held[d], c)[h] = IF h <= c THEN held[d][h] ELSE 0
  BY DEF Loaded
<1>4. held[d][g] \in 1..Len(minted)
  BY <1>1 DEF KeysIn
<1>5. Lacks(Loaded(held[d], c), held[d][g])
  BY <1>2, <1>3 DEF Lacks
<1> QED BY <1>4, <1>5

LEMMA AwaitedStays ==
  ASSUME Await, BarredGrows, NEW d \in Device, relay[d] \subseteq relay'[d],
         NEW g, Awaited(d, g), \A m \in Expected(d) : m.keys[g] # 0 => Stays(d, m)
  PROVE  Awaited(d, g)'
BY WithheldStays DEF Awaited, Stays, Withheld

LEMMA OthersAwait ==
  ASSUME Inv, Await, NEW d \in Device, StepFits(d), NEW e \in Device, e # d
  PROVE  DeviceAwaits(e)'
<1>1. /\ Same(e) /\ registered \subseteq registered' /\ relay[e] \subseteq relay'[e]
      /\ DeviceAwaits(e)
  BY DEF StepFits, Await
<1>2. ForgetsNothing(e)
  <2>1. CASE task[e].op # "sync"
    BY <1>1, <2>1, NextRoundExpects DEF Same
  <2>2. CASE task[e].op = "sync"
    BY <1>1, <2>2 DEF ForgetsNothing, Stays, Expected, Same
  <2> QED BY <2>1, <2>2
<1>3. AboveOK(e)'
  <2>1. SUFFICES ASSUME config'[e].active, NEW g \in Generation, NEW k \in 1..Len(minted'),
                        g > config'[e].current, held'[e][g] = k
                 PROVE  Private(e, k)' \/ Awaited(e, g)'
    BY DEF AboveOK
  <2>2. held'[e] = held[e] /\ config'[e] = config[e]
    BY <1>1 DEF Same
  <2>3. k \in 1..Len(minted) /\ k # 0
    BY <2>1, <2>2 DEF Inv, DeviceInv, ConfigOK, KeysIn
  <2>4. CASE Awaited(e, g)
    BY <1>1, <1>2, <2>4, AwaitedStays DEF StepFits, ForgetsNothing
  <2>5. CASE Private(e, k)
    <3>1. Lacks(Loaded(held[d], config'[d].current), k)
      BY <2>3, <2>5, OthersHidden
    <3> QED BY <2>3, <2>5, <3>1 DEF StepFits, Discreet
  <2> QED BY <1>1, <2>1, <2>2, <2>3, <2>4, <2>5 DEF DeviceAwaits, AboveOK
<1>4. PairingOK(e)'
  <2>1. e \notin registered' => e \notin registered
    BY <1>1
  <2>2. offer'[e] # offer[e] => e \notin registered /\ e \in registered'
    BY DEF StepFits
  <2> QED BY <1>1, <2>1, <2>2 DEF DeviceAwaits, PairingOK, Same
<1>5. RoundOK(e)'
  <2>1. parked[e] \subseteq 1..Len(log)
    BY DEF Inv, DeviceInv, ConfigOK
  <2>2. \A n \in parked[e] : log'[n] = log[n]
    BY <2>1 DEF StepFits
  <2>3. BarredGrows
    BY DEF StepFits
  <2> QED BY <1>1, <2>2, <2>3 DEF DeviceAwaits, RoundOK, Same, BarredGrows
<1> QED BY <1>3, <1>4, <1>5 DEF DeviceAwaits

LEMMA AllAwait ==
  ASSUME Inv, Await, NEW d \in Device, StepFits(d), DeviceAwaits(d)'
  PROVE  Await'
BY OthersAwait DEF StepFits, Await

\* A key above the generation that the step configures is still private or
\* still expected, or has just arrived.
LEMMA OwnAwaits ==
  ASSUME Inv, Await, NEW d \in Device, Discreet(d), BarredGrows, relay[d] \subseteq relay'[d],
         config'[d].active => config[d].active,
         config[d].current \in Nat, config'[d].current \in Nat,
         config'[d].current >= config[d].current,
         \A g \in Generation : \A k \in 1..Len(minted') :
           g > config'[d].current /\ held'[d][g] = k =>
             \/ held[d][g] = k /\ \A m \in Expected(d) : m.keys[g] # 0 => Stays(d, m)
             \/ Private(d, k)' \/ Awaited(d, g)'
  PROVE  AboveOK(d)'
<1>1. SUFFICES ASSUME config'[d].active, NEW g \in Generation, NEW k \in 1..Len(minted'),
                      g > config'[d].current, held'[d][g] = k
               PROVE  Private(d, k)' \/ Awaited(d, g)'
  BY DEF AboveOK
<1>2. SUFFICES ASSUME held[d][g] = k, \A m \in Expected(d) : m.keys[g] # 0 => Stays(d, m)
               PROVE  Private(d, k)' \/ Awaited(d, g)'
  BY <1>1
<1>3. Lacks(Loaded(held[d], config'[d].current), k) /\ k \in 1..Len(minted)
  <2>1. k # 0
    OBVIOUS
  <2> QED BY <1>1, <1>2, <2>1, AboveHidden
<1>4. Private(d, k) \/ Awaited(d, g)
  <2>1. g > config[d].current
    BY <1>1, Bounds
  <2> QED BY <1>1, <1>2, <1>3, <2>1 DEF Await, DeviceAwaits, AboveOK
<1>5. Private(d, k) => Private(d, k)'
  BY <1>3 DEF Discreet
<1>6. Awaited(d, g) => Awaited(d, g)'
  BY <1>2, AwaitedStays
<1> QED BY <1>4, <1>5, <1>6

-----------------------------------------------------------------------------
\* What keeps a key private through a step of device d.
LEMMA PrivateKept ==
  ASSUME NEW d \in Device, NEW e \in Device, NEW k, Private(e, k),
         \A f \in Device \ {d} : Same(f),
         e # d => Lacks(held'[d], k),
         sealer'[d].key # k,
         task'[d].op \in {"pair", "adopt"} => Lacks(task'[d].keys, k),
         \A f \in Device : \A m \in relay'[f] : m \in relay[f] \/ Lacks(m.keys, k),
         \A f \in Device : offer'[f] = offer[f] \/ (offer'[f].made => Lacks(offer'[f].keys, k)),
         \A n \in 1..Len(log') : (n \in 1..Len(log) /\ log'[n] = log[n]) \/ log'[n].key # k
  PROVE  Private(e, k)'
<1>1. ASSUME NEW f \in Device
      PROVE  /\ f # e => Lacks(held'[f], k)
             /\ sealer'[f].key # k
             /\ \A m \in relay'[f] : Lacks(m.keys, k)
             /\ offer'[f].made => Lacks(offer'[f].keys, k)
             /\ task'[f].op \in {"pair", "adopt"} => Lacks(task'[f].keys, k)
  BY DEF Private, Same
<1>2. \A n \in 1..Len(log') : log'[n].key # k
  BY DEF Private
<1> QED BY <1>1, <1>2 DEF Private, Lacks

\* What device d has configured is what it may spread.
LEMMA Spreads ==
  ASSUME NEW d \in Device, NEW c \in Generation, NEW k, Lacks(Loaded(held[d], c), k)
  PROVE  held[d][c] # k
BY Bounds DEF Lacks, Loaded

\* A step that only moves tasks and configurations.
LEMMA QuietFits ==
  ASSUME Inv, Await, NEW d \in Device,
         UNCHANGED <<minted, held, sealer, registered, offer, relay, log>>, BarredGrows,
         \A e \in Device \ {d} : Same(e),
         task'[d].op \notin {"pair", "adopt"}
  PROVE  StepFits(d)
<1>1. LogOK'
  BY DEF Await, LogOK
<1>2. Discreet(d)
  BY DEF Discreet, Private, Same, Lacks
<1> QED BY <1>1, <1>2 DEF StepFits

LEMMA ApprovePairingAwaits ==
  ASSUME Inv, Await, NEW d \in Device, NEW new \in Device, ApprovePairing(d, new)
  PROVE  Await'
<1>1. /\ UNCHANGED <<minted, held, sealer, config, parked, barred, relay, log, task>>
      /\ registered' = registered \cup {new} /\ new \notin registered /\ new # d
      /\ offer' = [offer EXCEPT ![new] = [made |-> TRUE, keys |-> Bundle(d)]]
  BY DEF ApprovePairing, library, Served
<1>2. \A e \in Device : Same(e)
  BY <1>1 DEF Same
<1>3. \A e \in Device : offer'[e] = IF e = new THEN [made |-> TRUE, keys |-> Bundle(d)] ELSE offer[e]
  BY <1>1 DEF Inv, Shapes
<1>4. Discreet(d)
  <2>1. SUFFICES ASSUME NEW e \in Device, NEW k \in 1..Len(minted), Private(e, k),
                        Lacks(Bundle(d), k)
                 PROVE  Private(e, k)'
    BY <1>1 DEF Discreet, Bundle
  <2>2. e # d => Lacks(held'[d], k)
    BY <1>1, <2>1 DEF Private, Lacks
  <2> QED BY <1>1, <1>2, <1>3, <2>1, <2>2, PrivateKept DEF Private
<1>5. StepFits(d)
  <2>1. LogOK'
    BY <1>1 DEF Await, LogOK
  <2> QED BY <1>1, <1>2, <1>3, <1>4, <2>1 DEF StepFits, BarredGrows
<1>6. DeviceAwaits(d)'
  <2>1. DeviceAwaits(d) /\ config[d].current \in Nat
    BY DEF Await, Inv, Shapes, Config
  <2>2. ForgetsNothing(d) /\ BarredGrows
    <3>1. task[d].op # "sync"
      BY DEF ApprovePairing, Free, Idle
    <3> QED BY <1>1, <3>1, NextRoundExpects DEF BarredGrows
  <2>3. config[d].current >= config[d].current
    BY <2>1
  <2>4. AboveOK(d)'
    BY <1>1, <1>4, <2>1, <2>2, <2>3, OwnAwaits DEF ForgetsNothing
  <2>5. PairingOK(d)' /\ RoundOK(d)'
    BY <1>1, <1>3, <2>1 DEF DeviceAwaits, PairingOK, RoundOK
  <2> QED BY <2>4, <2>5 DEF DeviceAwaits
<1> QED BY <1>5, <1>6, AllAwait

LEMMA ClaimPairingAwaits ==
  ASSUME Inv, Await, NEW d \in Device, ClaimPairing(d)
  PROVE  Await'
<1> DEFINE keys == offer[d].keys
<1>1. /\ UNCHANGED <<minted, sealer, config, parked, registered, barred, relay, log>>
      /\ offer[d].made /\ offer' = [offer EXCEPT ![d] = NoOffer]
      /\ held' = [held EXCEPT ![d] = Installed(held[d], keys)]
      /\ task' = [task EXCEPT ![d] = [op |-> "pair", step |-> "activate", keys |-> keys]]
  BY DEF ClaimPairing, library
<1>2. /\ ~config[d].active /\ held[d] = NoKeys /\ d \in registered
      /\ keys \in [Generation -> Nat]
  BY <1>1 DEF Await, DeviceAwaits, PairingOK, Inv, DeviceInv, OfferOK, GoodBundle, KeysIn
<1>3. Installed(held[d], keys) = keys
  BY <1>2 DEF Installed, NoKeys
<1>4. /\ held'[d] = keys /\ offer'[d] = NoOffer
      /\ task'[d] = [op |-> "pair", step |-> "activate", keys |-> keys]
      /\ \A e \in Device \ {d} : Same(e) /\ offer'[e] = offer[e]
  BY <1>1, <1>3 DEF Same, Inv, Shapes
<1>5. Discreet(d)
  <2>1. SUFFICES ASSUME NEW e \in Device, NEW k \in 1..Len(minted), Private(e, k)
                 PROVE  Private(e, k)'
    BY DEF Discreet
  <2>2. Lacks(keys, k) /\ sealer[d].key # k
    BY <1>1, <2>1 DEF Private
  <2>3. \A f \in Device : offer'[f] = offer[f] \/ (offer'[f].made => Lacks(offer'[f].keys, k))
    BY <1>4 DEF NoOffer
  <2> QED BY <1>1, <1>4, <2>1, <2>2, <2>3, PrivateKept
<1>6. StepFits(d)
  <2>1. LogOK'
    BY <1>1 DEF Await, LogOK
  <2> QED BY <1>1, <1>4, <1>5, <2>1 DEF StepFits, BarredGrows
<1>7. DeviceAwaits(d)'
  BY <1>1, <1>2, <1>4 DEF DeviceAwaits, AboveOK, PairingOK, RoundOK, NoOffer
<1> QED BY <1>6, <1>7, AllAwait

\* No generation of a bundle is newer than the newest.
LEMMA NewestLast ==
  ASSUME NEW keys, NEW g \in Generation, keys[g] # 0
  PROVE  Newest(keys) >= g
<1> DEFINE G == {h \in Generation : keys[h] # 0}
<1>1. G \in SUBSET (0..(MaxTrouble + 1)) /\ G # {} /\ MaxTrouble + 1 \in Nat
  BY Bounds
<1>2. \A y \in G : Max(G) >= y
  BY <1>1, MaxOf
<1> QED BY <1>2 DEF Newest

LEMMA FinalizePairingAwaits ==
  ASSUME Inv, Inv', Await, NEW d \in Device, FinalizePairing(d)
  PROVE  Await'
<1> DEFINE current == Newest(task[d].keys)
<1>1. /\ UNCHANGED <<minted, held, parked, registered, barred, offer, relay, log>>
      /\ config' = [config EXCEPT ![d] = [active |-> TRUE, current |-> current,
                                          cursor |-> 0, watermark |-> 0]]
      /\ sealer' = [sealer EXCEPT ![d] = [gen |-> current, key |-> held[d][current]]]
      /\ task' = [task EXCEPT ![d] = Idle]
      /\ task[d].op = "pair"
  BY DEF FinalizePairing, At, Stop, server
<1>2. /\ GoodBundle(task[d].keys, minted) /\ held[d] = task[d].keys
      /\ d \in registered /\ ~offer[d].made
  BY <1>1 DEF Inv, DeviceInv, TaskOK, Await, DeviceAwaits, PairingOK
<1>3. current \in Generation /\ \A g \in Generation : g > current => held[d][g] = 0
  <2>1. current \in Generation
    BY <1>2, NewestIn DEF GoodBundle
  <2>2. \A g \in Generation : held[d][g] # 0 => current >= g
    BY <1>2, NewestLast
  <2> HIDE DEF current
  <2> QED BY <2>1, <2>2, Bounds
<1> HIDE DEF current
<1>4. /\ config'[d].active /\ config'[d].current = current
      /\ sealer'[d].key = held[d][current] /\ task'[d] = Idle
      /\ \A e \in Device \ {d} : Same(e) /\ sealer'[e] = sealer[e]
  BY <1>1 DEF Same, Inv, Shapes
<1>5. Discreet(d)
  <2>1. SUFFICES ASSUME NEW e \in Device, NEW k \in 1..Len(minted), Private(e, k),
                        Lacks(Loaded(held[d], current), k)
                 PROVE  Private(e, k)'
    BY <1>4 DEF Discreet
  <2>2. held[d][current] # k
    BY <1>3, <2>1, Spreads
  <2>3. sealer'[d].key # k
    BY <1>4, <2>2
  <2>4. e # d => Lacks(held'[d], k)
    BY <1>1, <2>1 DEF Private, Lacks
  <2> QED BY <1>1, <1>4, <2>1, <2>3, <2>4, PrivateKept DEF Idle
<1>6. StepFits(d)
  <2>1. sealer'[d].key <= Len(minted')
    BY <1>4 DEF Inv, DeviceInv, ConfigOK
  <2>2. LogOK'
    BY <1>1, <1>4, <2>1 DEF Await, LogOK
  <2> QED BY <1>1, <1>4, <1>5, <2>2 DEF StepFits, BarredGrows
<1>7. AboveOK(d)'
  BY <1>1, <1>3, <1>4 DEF AboveOK
<1>8. PairingOK(d)' /\ RoundOK(d)'
  BY <1>1, <1>2, <1>4 DEF PairingOK, RoundOK, Idle
<1> QED BY <1>6, <1>7, <1>8, AllAwait DEF DeviceAwaits

\* A step that moves its own device's task only, and may cut something off.
LEMMA QuietAwaits ==
  ASSUME Inv, Await, NEW d \in Device,
         UNCHANGED <<minted, held, config, sealer, parked, registered, offer, relay, log>>,
         \A e \in Device \ {d} : Same(e),
         task'[d].op = "idle" \/ (task'[d].op = "rotate" /\ config[d].active), BarredGrows
  PROVE  Await'
<1>1. StepFits(d)
  BY QuietFits
<1>2. DeviceAwaits(d) /\ config[d].current \in Nat
  BY DEF Await, Inv, Shapes, Config
<1>3. config[d].current >= config[d].current /\ Discreet(d)
  BY <1>1, <1>2 DEF StepFits
<1>4. AboveOK(d)'
  <2>1. ForgetsNothing(d)
    BY NextRoundExpects
  <2> QED BY <1>2, <1>3, <2>1, OwnAwaits DEF ForgetsNothing
<1>5. PairingOK(d)' /\ RoundOK(d)'
  BY <1>2 DEF DeviceAwaits, PairingOK, RoundOK
<1> QED BY <1>1, <1>4, <1>5, AllAwait DEF DeviceAwaits

LEMMA RevokeDeviceAwaits ==
  ASSUME Inv, Await, NEW d \in Device, NEW target \in Device, RevokeDevice(d, target)
  PROVE  Await'
<1>1. /\ UNCHANGED <<minted, held, config, sealer, parked, registered, offer, relay, log>>
      /\ task[d] = Idle /\ config[d].active
      /\ task' = [task EXCEPT ![d] = [op |-> "rotate", step |-> "mint"]] /\ Bar(target)
  BY DEF RevokeDevice, library, Free
<1>2. /\ task'[d] = [op |-> "rotate", step |-> "mint"]
      /\ \A e \in Device \ {d} : Same(e)
  BY <1>1 DEF Same, Inv, Shapes
<1>3. BarredGrows
  BY <1>1 DEF Bar, BarredGrows
<1> QED BY <1>1, <1>2, <1>3, QuietAwaits

LEMMA FailingAwaits ==
  ASSUME Inv, Await, NEW d \in Device, FailRotation(d) \/ FailRound(d)
  PROVE  Await'
<1>1. /\ UNCHANGED <<minted, held, config, sealer, parked, registered, barred, offer, relay, log>>
      /\ task' = [task EXCEPT ![d] = Idle]
  BY DEF FailRotation, FailRound, Stop, library, server
<1>2. task'[d] = Idle /\ \A e \in Device \ {d} : Same(e)
  BY <1>1 DEF Same, Inv, Shapes
<1>3. BarredGrows
  BY <1>1 DEF BarredGrows
<1>4. task'[d].op = "idle"
  BY <1>2 DEF Idle
<1> QED BY <1>1, <1>2, <1>3, <1>4, QuietAwaits

\* A key that is minted now is nowhere yet.
LEMMA FreshPrivate ==
  ASSUME Inv, Await, NEW d \in Device
  PROVE  Private(d, Len(minted) + 1)
<1> DEFINE k == Len(minted) + 1
<1>1. Len(minted) \in Nat
  BY DEF Inv, Shapes, MintOK
<1>2. ASSUME NEW keys, KeysIn(keys, minted) PROVE Lacks(keys, k)
  <2>1. ASSUME NEW g \in Generation PROVE keys[g] # k
    BY <1>1, <1>2 DEF KeysIn
  <2> HIDE DEF k
  <2> QED BY <2>1 DEF Lacks
<1>3. LogOK
  BY DEF Await
<1>4. ASSUME NEW n, n <= Len(minted), n \in Nat PROVE n # k
  BY <1>1, <1>4
<1> HIDE DEF k
<1>5. ASSUME NEW e \in Device
      PROVE  /\ Lacks(held[e], k) /\ sealer[e].key # k
             /\ \A m \in relay[e] : Lacks(m.keys, k)
             /\ offer[e].made => Lacks(offer[e].keys, k)
             /\ task[e].op \in {"pair", "adopt"} => Lacks(task[e].keys, k)
  <2>1. DeviceInv(e) /\ sealer[e].key \in Nat
    BY DEF Inv, Shapes
  <2>2. sealer[e].key # k
    BY <1>3, <1>4, <2>1 DEF LogOK
  <2>3. Lacks(held[e], k)
    BY <1>2, <2>1 DEF DeviceInv, ConfigOK
  <2>4. \A m \in relay[e] : Lacks(m.keys, k)
    BY <1>2, <2>1 DEF DeviceInv, RelayOK, GoodBundle
  <2>5. offer[e].made => Lacks(offer[e].keys, k)
    BY <1>2, <2>1 DEF DeviceInv, OfferOK, GoodBundle
  <2>6. task[e].op \in {"pair", "adopt"} => Lacks(task[e].keys, k)
    BY <1>2, <2>1 DEF DeviceInv, TaskOK, GoodBundle
  <2> QED BY <2>2, <2>3, <2>4, <2>5, <2>6
<1>6. \A n \in 1..Len(log) : log[n].key # k
  <2>1. SUFFICES ASSUME NEW n \in 1..Len(log) PROVE log[n].key # k
    OBVIOUS
  <2>2. log[n].key \in 1..Len(minted)
    BY <1>3 DEF LogOK
  <2> QED BY <1>1, <1>4, <2>2
<1>7. Private(d, k)
  BY <1>5, <1>6 DEF Private
<1> QED BY <1>7 DEF k

LEMMA RotateLocalAwaits ==
  ASSUME Inv, Inv', Await, NEW d \in Device, RotateLocal(d)
  PROVE  Await'
<1> DEFINE next == config[d].current + 1
           key == Len(minted) + 1
<1>1. /\ UNCHANGED <<sealer, config, parked, registered, barred, offer, relay, log>>
      /\ minted' = Append(minted, next)
      /\ held' = [held EXCEPT ![d] = [held[d] EXCEPT ![next] = key]]
      /\ task' = [task EXCEPT ![d] = [op |-> "rotate", step |-> "commit"]]
      /\ Rotates(d)
  BY DEF RotateLocal, Committing, library, server
<1>2. /\ config[d].active /\ task[d].op \in {"idle", "rotate"}
      /\ config[d].current \in Nat /\ Len(minted) \in Nat
      /\ held[d] \in [Generation -> Nat] /\ DeviceAwaits(d)
  BY <1>1 DEF Rotates, At, Free, Idle, Inv, Shapes, Config, MintOK, DeviceInv, TaskOK, Await
<1>3. /\ Len(minted') = key
      /\ \A k \in 1..Len(minted) : k \in 1..Len(minted') /\ minted'[k] = minted[k]
  <2>1. minted \in Seq(Generation)
    BY DEF Inv, Shapes, MintOK
  <2> QED BY <1>1, <2>1
<1>4. /\ held'[d] = [held[d] EXCEPT ![next] = key]
      /\ task'[d] = [op |-> "rotate", step |-> "commit"]
      /\ \A e \in Device \ {d} : Same(e)
  BY <1>1 DEF Same, Inv, Shapes
<1>5. key \notin 1..Len(minted) /\ \A g \in Generation : held'[d][g] = held[d][g] \/ held'[d][g] = key
  BY <1>2, <1>4
<1>6. Private(d, key)
  BY FreshPrivate
<1>7. \A g \in Generation : g # next => held'[d][g] = held[d][g]
  BY <1>2, <1>4
<1>8. held'[d][next] = key \/ next \notin Generation
  BY <1>2, <1>4
<1> HIDE DEF key, next
<1>9. ASSUME NEW e \in Device, NEW k, Private(e, k), k # key \/ e = d
      PROVE  Private(e, k)'
  <2>1. e # d => Lacks(held'[d], k)
    BY <1>5, <1>9 DEF Private, Lacks
  <2>2. sealer'[d].key # k /\ task'[d].op = "rotate"
    BY <1>1, <1>4, <1>9 DEF Private
  <2> QED BY <1>1, <1>4, <1>9, <2>1, <2>2, PrivateKept
<1>10. Discreet(d)
  BY <1>5, <1>9 DEF Discreet
<1>11. StepFits(d)
  <2>1. \A n \in Nat : n <= Len(minted) => n <= Len(minted')
    BY <1>2, <1>3 DEF key
  <2>2. \A e \in Device : sealer[e].key \in Nat
    BY DEF Inv, Shapes
  <2>3. LogOK'
    BY <1>1, <1>3, <2>1, <2>2 DEF Await, LogOK
  <2> QED BY <1>1, <1>4, <1>10, <2>3 DEF StepFits, BarredGrows
<1>12. AboveOK(d)'
  <2>1. ForgetsNothing(d) /\ BarredGrows
    BY <1>1, <1>4, <1>11, NextRoundExpects DEF StepFits
  <2>2. ASSUME NEW g \in Generation, NEW k \in 1..Len(minted'),
               g > config'[d].current, held'[d][g] = k
        PROVE  held[d][g] = k \/ Private(d, k)'
    <3>1. CASE g = next
      BY <1>6, <1>8, <1>9, <2>2, <3>1
    <3>2. CASE g # next
      BY <1>7, <2>2, <3>2
    <3> QED BY <3>1, <3>2
  <2>3. config[d].current >= config[d].current
    BY <1>2
  <2> QED BY <1>1, <1>2, <1>10, <2>1, <2>2, <2>3, OwnAwaits DEF ForgetsNothing
<1>13. PairingOK(d)' /\ RoundOK(d)'
  BY <1>1, <1>2, <1>4 DEF DeviceAwaits, PairingOK, RoundOK
<1> QED BY <1>11, <1>12, <1>13, AllAwait DEF DeviceAwaits

\* What the device whose configuration, sealer or mailbox moves, and nothing
\* else of its keys, owes to the others.
LEMMA SealerFits ==
  ASSUME Inv, Inv', Await, NEW d \in Device,
         UNCHANGED <<minted, held, registered, barred, offer, log>>,
         \A e \in Device \ {d} : Same(e),
         config'[d].active,
         sealer'[d].key \in {sealer[d].key, held[d][config'[d].current]},
         task'[d].op \notin {"pair", "adopt"},
         \A e \in Device : relay[e] \subseteq relay'[e],
         \A e \in Device : \A m \in relay'[e] :
           m \in relay[e] \/ (m.from \in registered /\ m.keys = Loaded(held[d], config'[d].current))
  PROVE  StepFits(d)
<1>1. config'[d].current \in Generation /\ sealer'[d].key \in 1..Len(minted)
  BY DEF Inv, DeviceInv, ConfigOK
<1>2. Discreet(d)
  <2>1. SUFFICES ASSUME NEW e \in Device, NEW k \in 1..Len(minted), Private(e, k),
                        Lacks(Loaded(held[d], config'[d].current), k)
                 PROVE  Private(e, k)'
    BY DEF Discreet
  <2>2. sealer[d].key # k /\ held[d][config'[d].current] # k
    BY <1>1, <2>1, Spreads DEF Private
  <2>3. e # d => Lacks(held'[d], k)
    BY <2>1 DEF Private, Lacks
  <2>4. \A f \in Device : \A m \in relay'[f] : m \in relay[f] \/ Lacks(m.keys, k)
    BY <2>1
  <2> QED BY <2>1, <2>2, <2>3, <2>4, PrivateKept
<1>3. LogOK'
  <2>1. ASSUME NEW e \in Device PROVE sealer'[e].key <= Len(minted)
    <3>1. CASE e = d
      BY <1>1, <3>1 DEF Inv, Shapes, MintOK
    <3>2. CASE e # d
      BY <3>2 DEF Await, LogOK, Same
    <3> QED BY <3>1, <3>2
  <2> QED BY <2>1 DEF Await, LogOK
<1> QED BY <1>2, <1>3 DEF StepFits, BarredGrows

\* And when nothing but these moved at the device itself either.
LEMMA SealerAwaits ==
  ASSUME Inv, Inv', Await, NEW d \in Device,
         UNCHANGED <<minted, held, registered, barred, offer, log>>,
         \A e \in Device \ {d} : Same(e),
         config[d].active, config'[d].active,
         config'[d].current >= config[d].current, config'[d].cursor = config[d].cursor,
         sealer'[d].key \in {sealer[d].key, held[d][config'[d].current]},
         task[d].op # "sync", task'[d].op \in {"idle", "rotate"},
         \A e \in Device : relay[e] \subseteq relay'[e],
         \A e \in Device : \A m \in relay'[e] :
           m \in relay[e] \/ (m.from \in registered /\ m.keys = Loaded(held[d], config'[d].current))
  PROVE  Await'
<1>1. StepFits(d)
  BY SealerFits
<1>2. /\ config[d].current \in Nat /\ config'[d].current \in Nat /\ DeviceAwaits(d)
      /\ Discreet(d) /\ BarredGrows
  BY <1>1 DEF Inv, Shapes, Config, Await, StepFits
<1>3. ForgetsNothing(d)
  BY NextRoundExpects
<1>4. AboveOK(d)'
  BY <1>2, <1>3, OwnAwaits DEF ForgetsNothing
<1>5. PairingOK(d)' /\ RoundOK(d)'
  BY <1>2 DEF DeviceAwaits, PairingOK, RoundOK
<1> QED BY <1>1, <1>4, <1>5, AllAwait DEF DeviceAwaits

LEMMA CommitRotationAwaits ==
  ASSUME Inv, Inv', Await, NEW d \in Device, CommitRotation(d)
  PROVE  Await'
<1> DEFINE next == config[d].current + 1
<1>1. /\ UNCHANGED <<minted, held, parked, registered, barred, offer, relay, log>>
      /\ task[d].op = "rotate" /\ config[d] \in Config /\ config[d].active
      /\ config' = [config EXCEPT ![d] = [config[d] EXCEPT !.current = next]]
  BY DEF CommitRotation, At, server, Inv, Shapes, DeviceInv, TaskOK
<1>2. /\ config'[d] = [config[d] EXCEPT !.current = next]
      /\ \A e \in Device \ {d} : config'[e] = config[e]
  BY <1>1 DEF Inv, Shapes
<1>3. /\ config'[d].current = next /\ config'[d].active /\ config'[d].cursor = config[d].cursor
      /\ next >= config[d].current
  BY <1>1, <1>2 DEF Config
<1>4. /\ \/ sealer' = sealer
         \/ sealer' = [sealer EXCEPT ![d] = [gen |-> next, key |-> held[d][next]]]
      /\ \/ task' = [task EXCEPT ![d] = Idle]
         \/ \E targets : task' =
              [task EXCEPT ![d] = [op |-> "rotate", step |-> "send", targets |-> targets]]
  <2>1. CASE Served(d)
    BY <1>3, <2>1 DEF CommitRotation, Distributing
  <2>2. CASE ~Served(d)
    BY <2>2 DEF CommitRotation, Stop
  <2> QED BY <2>1, <2>2
<1> HIDE DEF next
<1>5. sealer'[d].key \in {sealer[d].key, held[d][next]} /\ task'[d].op \in {"idle", "rotate"}
  BY <1>4 DEF Inv, Shapes, Idle
<1>6. \A e \in Device \ {d} : Same(e)
  BY <1>1, <1>2, <1>4 DEF Same, Inv, Shapes
<1> QED BY <1>1, <1>3, <1>5, <1>6, SealerAwaits

\* What a message brings into the mailboxes.
LEMMA MessageFits ==
  ASSUME Inv, NEW d \in Device, NEW target \in Device, NEW mk,
         PutKeyUpdate(d, target, mk), Served(d), config' = config, registered' = registered
  PROVE  \A e \in Device :
           /\ relay[e] \subseteq relay'[e]
           /\ \A m \in relay'[e] :
                m \in relay[e]
                \/ (m.from \in registered /\ m.keys = Loaded(held[d], config'[d].current))
BY DEF PutKeyUpdate, Served, Inv, Shapes, Bundle

LEMMA SendGenerationsAwaits ==
  ASSUME Inv, Inv', Await, NEW d \in Device, NEW target \in Device, SendGenerations(d, target)
  PROVE  Await'
<1> DEFINE current == config[d].current
<1>1. /\ UNCHANGED <<minted, held, config, parked, registered, barred, offer, log>>
      /\ task[d].op = "rotate" /\ config[d].active /\ current \in Nat
      /\ PutKeyUpdate(d, target, FALSE) /\ Served(d)
  BY DEF SendGenerations, At, library, Inv, Shapes, Config, DeviceInv, TaskOK
<1>2. /\ \/ sealer' = sealer
         \/ sealer' = [sealer EXCEPT ![d] = [gen |-> current, key |-> held[d][current]]]
      /\ \/ task' = [task EXCEPT ![d] = Idle]
         \/ \E targets : task' =
              [task EXCEPT ![d] = [op |-> "rotate", step |-> "send", targets |-> targets]]
  BY <1>1 DEF SendGenerations, Distributing
<1>3. sealer'[d].key \in {sealer[d].key, held[d][current]} /\ task'[d].op \in {"idle", "rotate"}
  BY <1>2 DEF Inv, Shapes, Idle
<1>4. \A e \in Device \ {d} : Same(e)
  BY <1>1, <1>2 DEF Same, Inv, Shapes
<1>5. current >= current
  BY <1>1
<1> QED BY <1>1, <1>3, <1>4, <1>5, MessageFits, SealerAwaits

LEMMA GrantVaultAccessAwaits ==
  ASSUME Inv, Inv', Await, NEW d \in Device, NEW target \in Device, GrantVaultAccess(d, target)
  PROVE  Await'
<1>1. /\ UNCHANGED <<minted, held, sealer, library, registered, barred, offer, log, task>>
      /\ Free(d) /\ config[d].active
      /\ PutKeyUpdate(d, target, TRUE) /\ Served(d)
  BY DEF GrantVaultAccess
<1>2. config' = config /\ parked' = parked /\ task[d].op = "idle"
  BY <1>1 DEF library, Free, Idle
<1>3. \A e \in Device : Same(e)
  BY <1>1, <1>2 DEF Same
<1>4. config[d].current \in Nat
  BY DEF Inv, Shapes, Config
<1>5. config[d].current >= config[d].current
  BY <1>4
<1> QED BY <1>1, <1>2, <1>3, <1>5, MessageFits, SealerAwaits

LEMMA InstallGrantAwaits ==
  ASSUME Inv, Await, NEW d \in Device, InstallGrant(d)
  PROVE  Await'
<1>1. PICK m \in relay[d] :
        /\ m.seq > config[d].cursor
        /\ held' = [held EXCEPT ![d] = Installed(held[d], m.keys)]
        /\ task' = [task EXCEPT ![d] = [op |-> "adopt", step |-> "commit", keys |-> m.keys]]
  BY GrantInstalled
<1>2. /\ UNCHANGED <<minted, sealer, config, parked, registered, barred, offer, relay, log>>
      /\ task[d].op = "idle" /\ config[d].active /\ config[d].current \in Nat
      /\ LogOK /\ DeviceAwaits(d)
  BY DEF InstallGrant, library, server, Free, Idle, Inv, Shapes, Config, Await
<1>3. /\ held'[d] = Installed(held[d], m.keys)
      /\ task'[d] = [op |-> "adopt", step |-> "commit", keys |-> m.keys]
      /\ \A e \in Device \ {d} : Same(e)
  BY <1>1, <1>2 DEF Same, Inv, Shapes
<1>4. Discreet(d)
  <2>1. SUFFICES ASSUME NEW e \in Device, NEW k \in 1..Len(minted), Private(e, k)
                 PROVE  Private(e, k)'
    BY DEF Discreet
  <2>2. Lacks(m.keys, k) /\ sealer[d].key # k
    BY <2>1 DEF Private
  <2>3. e # d => Lacks(held'[d], k)
    BY <1>3, <2>1, <2>2 DEF Private, Lacks, Installed
  <2> QED BY <1>2, <1>3, <2>1, <2>2, <2>3, PrivateKept
<1>5. StepFits(d)
  <2>1. LogOK'
    BY <1>2 DEF LogOK
  <2> QED BY <1>2, <1>3, <1>4, <2>1 DEF StepFits, BarredGrows
<1>6. AboveOK(d)'
  <2>1. \A g : m.keys[g] # 0 => Awaited(d, g)'
    <3>1. Opens(Directory', d, m) => m \in Expected(d)'
      BY <1>1, <1>2, <1>3 DEF Expected
    <3> QED BY <1>2, <3>1 DEF Awaited, Withheld
  <2>2. ForgetsNothing(d) /\ BarredGrows
    BY <1>2, <1>3, <1>5, NextRoundExpects DEF StepFits
  <2>3. ASSUME NEW g \in Generation, NEW k, held'[d][g] = k
        PROVE  held[d][g] = k \/ m.keys[g] # 0
    BY <1>3, <2>3 DEF Installed
  <2>4. config[d].current >= config[d].current
    BY <1>2
  <2> QED BY <1>2, <1>4, <2>1, <2>2, <2>3, <2>4, OwnAwaits DEF ForgetsNothing
<1>7. PairingOK(d)' /\ RoundOK(d)'
  BY <1>2, <1>3 DEF DeviceAwaits, PairingOK, RoundOK
<1> QED BY <1>5, <1>6, <1>7, AllAwait DEF DeviceAwaits

LEMMA AdoptVaultGrantAwaits ==
  ASSUME Inv, Inv', Await, NEW d \in Device, AdoptVaultGrant(d)
  PROVE  Await'
<1> DEFINE newest == Newest(task[d].keys)
           current == IF newest > config[d].current THEN newest ELSE config[d].current
<1>1. /\ UNCHANGED <<minted, held, sealer, parked, registered, barred, offer, relay, log>>
      /\ task[d].op = "adopt" /\ task' = [task EXCEPT ![d] = Idle]
      /\ config' = [config EXCEPT ![d] = [config[d] EXCEPT !.current = current]]
      /\ config[d] \in Config /\ DeviceAwaits(d) /\ GoodBundle(task[d].keys, minted)
  BY DEF AdoptVaultGrant, At, Stop, server, Inv, Shapes, Await, DeviceInv, TaskOK
<1>2. current \in Nat /\ config[d].current \in Nat /\ current >= config[d].current
  <2>1. newest \in Nat
    BY <1>1, NewestIn, Bounds DEF GoodBundle
  <2> HIDE DEF newest
  <2> QED BY <1>1, <2>1 DEF Config
<1> HIDE DEF current
<1>3. /\ config'[d].current = current /\ config'[d].active = config[d].active
      /\ config'[d].cursor = config[d].cursor /\ task'[d] = Idle
      /\ \A e \in Device \ {d} : Same(e)
  BY <1>1 DEF Same, Inv, Shapes, Config
<1>4. StepFits(d)
  BY <1>1, <1>3, QuietFits DEF Idle, BarredGrows
<1>5. AboveOK(d)'
  <2>1. ForgetsNothing(d)
    BY <1>1, <1>3, NextRoundExpects DEF Idle
  <2>2. Discreet(d) /\ BarredGrows
    BY <1>4 DEF StepFits
  <2> QED BY <1>1, <1>2, <1>3, <2>1, <2>2, OwnAwaits DEF ForgetsNothing
<1>6. PairingOK(d)' /\ RoundOK(d)'
  BY <1>1, <1>3 DEF DeviceAwaits, PairingOK, RoundOK, Idle
<1> QED BY <1>4, <1>5, <1>6, AllAwait DEF DeviceAwaits

LEMMA BeginRoundAwaits ==
  ASSUME Inv, Await, NEW d \in Device, NEW written \in BOOLEAN, BeginRound(d, written)
  PROVE  Await'
<1> DEFINE entry == [author |-> d, gen |-> sealer[d].gen, key |-> sealer[d].key]
<1>1. /\ UNCHANGED <<minted, held, config, sealer, parked, registered, barred, offer, relay>>
      /\ log' \in {log, Append(log, entry)}
      /\ task' = [task EXCEPT ![d] = [op |-> "sync", step |-> "updates", trust |-> Directory,
                                      keys |-> Loaded(held[d], config[d].current)]]
      /\ Free(d) /\ d \in registered /\ config[d].active
  BY DEF BeginRound, library, Served
<1>2. /\ LogOK /\ DeviceAwaits(d) /\ ConfigOK(d) /\ config[d].current \in Nat
      /\ task[d].op = "idle" /\ minted \in Seq(Generation)
      /\ log \in Seq([author : Device, gen : Nat, key : Nat])
  BY <1>1 DEF Free, Idle, Await, Inv, Shapes, Config, MintOK, DeviceInv
<1>3. /\ task'[d] = [op |-> "sync", step |-> "updates", trust |-> Directory,
                     keys |-> Loaded(held[d], config[d].current)]
      /\ \A e \in Device \ {d} : Same(e)
  BY <1>1 DEF Same, Inv, Shapes
<1>4. /\ entry.author \in registered /\ entry.key \in 1..Len(minted)
      /\ minted[entry.key] = entry.gen /\ entry.gen \in Generation
  BY <1>1, <1>2 DEF ConfigOK
<1>5. /\ \A n \in 1..Len(log) : n \in 1..Len(log') /\ log'[n] = log[n]
      /\ \A n \in 1..Len(log') : n \in 1..Len(log) \/ log'[n] = entry
  <2> HIDE DEF entry
  <2>1. CASE log' = log
    BY <2>1
  <2>2. CASE log' = Append(log, entry)
    <3>1. /\ Len(log') = Len(log) + 1 /\ Len(log) \in Nat /\ log'[Len(log) + 1] = entry
          /\ \A n \in 1..Len(log) : log'[n] = log[n]
      BY <1>2, <2>2
    <3> QED BY <3>1
  <2> QED BY <1>1, <2>1, <2>2
<1>6. entry.key = sealer[d].key
  OBVIOUS
<1> HIDE DEF entry
<1>7. Discreet(d)
  <2>1. SUFFICES ASSUME NEW e \in Device, NEW k \in 1..Len(minted), Private(e, k)
                 PROVE  Private(e, k)'
    BY DEF Discreet
  <2>2. sealer'[d].key # k /\ entry.key # k
    BY <1>1, <1>6, <2>1 DEF Private
  <2>3. e # d => Lacks(held'[d], k)
    BY <1>1, <2>1 DEF Private
  <2>4. \A n \in 1..Len(log') : (n \in 1..Len(log) /\ log'[n] = log[n]) \/ log'[n].key # k
    BY <1>5, <2>2
  <2>5. task'[d].op \notin {"pair", "adopt"}
    BY <1>3
  <2> QED BY <1>1, <1>3, <2>1, <2>2, <2>3, <2>4, <2>5, PrivateKept
<1>8. StepFits(d)
  <2>1. ASSUME NEW n \in 1..Len(log')
        PROVE  /\ log'[n].author \in registered
               /\ log'[n].key \in 1..Len(minted) /\ minted[log'[n].key] = log'[n].gen
               /\ log'[n].gen \in Generation
    <3>1. CASE n \in 1..Len(log)
      BY <1>2, <1>5, <3>1 DEF LogOK
    <3>2. CASE log'[n] = entry
      BY <1>4, <3>2
    <3> QED BY <1>5, <3>1, <3>2
  <2>2. LogOK'
    BY <1>1, <1>2, <2>1 DEF LogOK
  <2> QED BY <1>1, <1>3, <1>5, <1>7, <2>2 DEF StepFits, BarredGrows
<1>9. AboveOK(d)'
  <2>1. ForgetsNothing(d) /\ BarredGrows
    BY <1>1, <1>2, <1>3, <1>8 DEF ForgetsNothing, Stays, Expected, StepFits
  <2>2. config[d].current >= config[d].current
    BY <1>2
  <2> QED BY <1>1, <1>2, <1>7, <2>1, <2>2, OwnAwaits DEF ForgetsNothing
<1>10. PairingOK(d)'
  BY <1>1, <1>2, <1>3 DEF DeviceAwaits, PairingOK
<1>11. RoundOK(d)'
  <2>1. \A n \in parked[d] : log'[n] = log[n] /\ log[n].author \in registered
    BY <1>2, <1>5 DEF ConfigOK, LogOK
  <2>2. \A n \in parked[d] : log'[n].author \in Directory.known \cup barred.devices
    BY <2>1 DEF Directory
  <2>3. Directory.records \subseteq barred.records
    BY DEF Directory
  <2> QED BY <1>1, <1>3, <2>2, <2>3 DEF RoundOK
<1> QED BY <1>8, <1>9, <1>10, <1>11, AllAwait DEF DeviceAwaits

LEMMA InstallUpdatesAwaits ==
  ASSUME Inv, Await, NEW d \in Device, InstallUpdates(d)
  PROVE  Await'
<1> DEFINE updates == ListKeyUpdates(d)
           opened == Opened(d, updates)
           added == AddedFrom(d, opened)
<1>1. /\ UNCHANGED <<minted, sealer, config, parked, registered, barred, offer, relay, log>>
      /\ task[d].op = "sync" /\ task[d].step = "updates"
      /\ held' = [held EXCEPT ![d] = added]
      /\ task' = [task EXCEPT ![d] =
             IF updates = {} THEN Pulling(d, task[d].keys)
             ELSE [op |-> "sync", step |-> "advance", trust |-> task[d].trust, updates |-> updates]]
  BY DEF InstallUpdates, At, library, server
<1>2. /\ DeviceAwaits(d) /\ LogOK /\ config[d].current \in Nat /\ held[d] \in [Generation -> Nat]
      /\ opened = Expected(d) /\ opened \in SUBSET relay[d]
      /\ \A m \in updates : m.seq > config[d].cursor
  BY <1>1 DEF Await, Inv, Shapes, Config, Expected, Opened, ListKeyUpdates
<1>3. \A g \in Generation :
        added[g] = held[d][g] \/ \E m \in opened : m.keys[g] # 0 /\ added[g] = m.keys[g]
  BY <1>2, UpdatesInstalled
<1>4. updates = {} => added = held[d]
  BY <1>2 DEF AddedFrom, Opened
<1>5. opened = {m \in updates : Opens(task[d].trust, d, m)}
  BY DEF Opened
<1> HIDE DEF updates, opened, added
<1>6. /\ held'[d] = added
      /\ task'[d] = IF updates = {} THEN Pulling(d, task[d].keys)
                    ELSE [op |-> "sync", step |-> "advance", trust |-> task[d].trust,
                          updates |-> updates]
      /\ \A e \in Device \ {d} : Same(e)
  BY <1>1 DEF Same, Inv, Shapes
<1>7. /\ task'[d].op = "sync" /\ task'[d].trust = task[d].trust
      /\ updates = {} => task'[d].step = "pull" /\ task'[d].keys = task[d].keys
      /\ updates # {} => task'[d].step = "advance" /\ task'[d].updates = updates
  BY <1>6 DEF Pulling
<1>8. Discreet(d)
  <2>1. SUFFICES ASSUME NEW e \in Device, NEW k \in 1..Len(minted), Private(e, k)
                 PROVE  Private(e, k)'
    BY DEF Discreet
  <2>2. sealer'[d].key # k /\ \A m \in opened : Lacks(m.keys, k)
    BY <1>1, <1>2, <2>1 DEF Private
  <2>3. e # d => Lacks(held'[d], k)
    BY <1>3, <1>6, <2>1, <2>2 DEF Private, Lacks
  <2> QED BY <1>1, <1>6, <1>7, <2>1, <2>2, <2>3, PrivateKept
<1>9. StepFits(d)
  <2>1. LogOK'
    BY <1>1, <1>2 DEF LogOK
  <2> QED BY <1>1, <1>6, <1>8, <2>1 DEF StepFits, BarredGrows
<1>10. AboveOK(d)'
  <2>1. \A m \in Expected(d) : m \in Expected(d)'
    BY <1>2, <1>5, <1>7 DEF Expected
  <2>2. ForgetsNothing(d) /\ BarredGrows
    BY <1>9, <2>1 DEF ForgetsNothing, Stays, StepFits
  <2>3. ASSUME NEW g \in Generation, NEW k, held'[d][g] = k
        PROVE  held[d][g] = k \/ Awaited(d, g)'
    BY <1>2, <1>3, <1>6, <2>1, <2>3 DEF Awaited
  <2>4. config[d].current >= config[d].current
    BY <1>2
  <2> QED BY <1>1, <1>2, <1>8, <2>2, <2>3, <2>4, OwnAwaits DEF ForgetsNothing
<1>11. PairingOK(d)'
  BY <1>1, <1>2, <1>7 DEF DeviceAwaits, PairingOK
<1>12. RoundOK(d)'
  <2>1. CASE updates = {}
    BY <1>1, <1>2, <1>4, <1>6, <1>7, <2>1 DEF DeviceAwaits, RoundOK
  <2>2. CASE updates # {}
    BY <1>1, <1>2, <1>7, <2>2 DEF DeviceAwaits, RoundOK
  <2> QED BY <2>1, <2>2
<1> QED BY <1>9, <1>10, <1>11, <1>12, AllAwait DEF DeviceAwaits

\* The configuration that a listing leads to names no generation below one it
\* brought.
LEMMA ConfigFollows ==
  ASSUME Inv, NEW d \in Device, At(d, "sync", "advance")
  PROVE  LET opened == Opened(d, task[d].updates)
             current == Max({config[d].current} \cup {Newest(m.keys) : m \in opened})
         IN  /\ current \in Nat /\ current >= config[d].current
             /\ \A m \in opened : \A g \in Generation : m.keys[g] # 0 => current >= g
<1> DEFINE opened == Opened(d, task[d].updates)
           Newer == {config[d].current} \cup {Newest(m.keys) : m \in opened}
           current == Max(Newer)
<1>1. config[d].current \in Nat /\ config[d].current <= MaxTrouble + 1
  BY DEF Inv, Shapes, Config, DeviceInv, ConfigOK
<1>2. \A m \in opened : Some(m.keys)
  BY DEF At, Opened, Inv, DeviceInv, TaskOK, RelayOK, GoodBundle
<1>3. \A m \in opened : Newest(m.keys) \in Generation
  BY <1>2, NewestIn
<1> HIDE DEF opened
<1>4. Newer \in SUBSET (0..(MaxTrouble + 1)) /\ Newer # {} /\ MaxTrouble + 1 \in Nat
  BY <1>1, <1>3, Bounds
<1>5. current \in Newer /\ \A y \in Newer : current >= y
  BY <1>4, MaxOf
<1>6. current \in Nat /\ current >= config[d].current
  BY <1>4, <1>5
<1>7. ASSUME NEW m \in opened, NEW g \in Generation, m.keys[g] # 0
      PROVE  current >= g
  <2>1. current >= Newest(m.keys) /\ Newest(m.keys) >= g
    BY <1>5, <1>7, NewestLast
  <2>2. Newest(m.keys) \in Nat /\ g \in Nat
    BY <1>3, Bounds
  <2> HIDE DEF current
  <2> QED BY <1>6, <2>1, <2>2
<1> QED BY <1>6, <1>7 DEF opened

LEMMA AdvanceConfigAwaits ==
  ASSUME Inv, Await, NEW d \in Device, AdvanceConfig(d)
  PROVE  Await'
<1> DEFINE opened == Opened(d, task[d].updates)
           current == Max({config[d].current} \cup {Newest(m.keys) : m \in opened})
           cursor == Acknowledged(d)
<1>1. /\ UNCHANGED <<minted, held, sealer, parked, registered, barred, offer, relay, log>>
      /\ At(d, "sync", "advance") /\ config[d] \in Config /\ DeviceAwaits(d)
      /\ config' = [config EXCEPT ![d] = [config[d] EXCEPT !.current = current, !.cursor = cursor]]
      /\ task' = [task EXCEPT ![d] = Pulling(d, Loaded(held[d], current))]
  BY DEF AdvanceConfig, ReloadedKeys, server, Inv, Shapes, Await
<1>2. /\ current \in Nat /\ current >= config[d].current
      /\ \A m \in opened : \A g \in Generation : m.keys[g] # 0 => current >= g
  BY <1>1, ConfigFollows
<1>3. opened = Expected(d) /\ config[d].current \in Nat
  BY <1>1 DEF At, Expected, Opened, Config
<1> HIDE DEF current, opened, cursor
<1>4. config'[d].current = current /\ config'[d].active = config[d].active
  <2>1. config'[d] = [config[d] EXCEPT !.current = current, !.cursor = cursor]
    BY <1>1 DEF Inv, Shapes
  <2> QED BY <1>1, <2>1 DEF Config
<1>5. /\ task'[d] = Pulling(d, Loaded(held[d], current))
      /\ \A e \in Device \ {d} : Same(e)
  BY <1>1 DEF Same, Inv, Shapes
<1>6. /\ task'[d].op = "sync" /\ task'[d].step = "pull" /\ task'[d].trust = task[d].trust
      /\ task'[d].keys = Loaded(held[d], current)
  BY <1>5 DEF Pulling
<1>7. StepFits(d)
  BY <1>1, <1>5, <1>6, QuietFits DEF BarredGrows
<1>8. AboveOK(d)'
  <2>1. ASSUME NEW g \in Generation, g > current, NEW m \in Expected(d) PROVE m.keys[g] = 0
    <3>1. ~(current >= g)
      BY <1>2, <2>1, Bounds
    <3> QED BY <1>2, <1>3, <2>1, <3>1
  <2>2. Discreet(d) /\ BarredGrows
    BY <1>7 DEF StepFits
  <2> QED BY <1>1, <1>2, <1>3, <1>4, <2>1, <2>2, OwnAwaits
<1>9. PairingOK(d)' /\ RoundOK(d)'
  BY <1>1, <1>4, <1>6 DEF DeviceAwaits, PairingOK, RoundOK, At
<1> QED BY <1>7, <1>8, <1>9, AllAwait DEF DeviceAwaits

LEMMA PullAwaits ==
  ASSUME Inv, Inv', Await, NEW d \in Device, Pull(d)
  PROVE  Await'
<1>1. /\ UNCHANGED <<minted, held, sealer, registered, barred, offer, relay, log>>
      /\ task[d].op = "sync" /\ task[d].step = "pull"
      /\ config' = [config EXCEPT ![d] = [config[d] EXCEPT !.watermark = Len(log)]]
      /\ parked' = [parked EXCEPT ![d] = {n \in parked[d] \cup {n \in Foreign(d) : Blocked(d, n)} :
                                            ~Readable(d, n)}]
      /\ task' = [task EXCEPT ![d] = Idle]
      /\ config[d] \in Config /\ DeviceAwaits(d)
  BY DEF Pull, At, Stop, server, Inv, Shapes, Await
<1>2. /\ config'[d].active = config[d].active /\ config'[d].current = config[d].current
      /\ config[d].current \in Nat
  <2>1. config'[d] = [config[d] EXCEPT !.watermark = Len(log)]
    BY <1>1 DEF Inv, Shapes
  <2> QED BY <1>1, <2>1 DEF Config
<1>3. task'[d].op = "idle" /\ \A e \in Device \ {d} : Same(e)
  BY <1>1 DEF Same, Inv, Shapes, Idle
<1>4. StepFits(d)
  BY <1>1, <1>3, QuietFits DEF BarredGrows
<1>5. AboveOK(d)'
  <2>1. Expected(d) = {}
    BY <1>1 DEF Expected
  <2>2. Discreet(d) /\ BarredGrows /\ config[d].current >= config[d].current
    BY <1>2, <1>4 DEF StepFits
  <2> QED BY <1>1, <1>2, <2>1, <2>2, OwnAwaits
<1>6. PairingOK(d)' /\ RoundOK(d)'
  BY <1>1, <1>2, <1>3 DEF DeviceAwaits, PairingOK, RoundOK
<1> QED BY <1>4, <1>5, <1>6, AllAwait DEF DeviceAwaits

LEMMA RestartAwaits ==
  ASSUME Inv, Inv', Await, NEW d \in Device, Restart(d)
  PROVE  Await'
<1> DEFINE current == config[d].current
<1>1. /\ UNCHANGED <<minted, held, config, parked, registered, barred, offer, relay, log>>
      /\ task' = [task EXCEPT ![d] = Idle]
      /\ sealer' = [sealer EXCEPT ![d] = IF config[d].active THEN CurrentSealer(d) ELSE Nothing]
      /\ current \in Nat /\ DeviceAwaits(d)
      /\ config[d].active => current \in Generation
  BY DEF Restart, library, server, Inv, Shapes, Config, Await, DeviceInv, ConfigOK
<1>2. /\ sealer'[d].key = IF config[d].active THEN held[d][current] ELSE 0
      /\ task'[d] = Idle /\ task'[d].op = "idle"
      /\ \A e \in Device \ {d} : Same(e)
  BY <1>1 DEF Same, Inv, Shapes, Idle, CurrentSealer, Nothing
<1>3. Discreet(d)
  <2>1. SUFFICES ASSUME NEW e \in Device, NEW k \in 1..Len(minted), Private(e, k),
                        Lacks(Loaded(held[d], current), k)
                 PROVE  Private(e, k)'
    BY <1>1 DEF Discreet
  <2>2. sealer'[d].key # k
    <3>1. CASE config[d].active
      <4>1. held[d][current] # k
        BY <1>1, <2>1, <3>1, Spreads
      <4> QED BY <1>2, <3>1, <4>1
    <3>2. CASE ~config[d].active
      BY <1>2, <3>2
    <3> QED BY <3>1, <3>2
  <2>3. e # d => Lacks(held'[d], k)
    BY <1>1, <2>1 DEF Private
  <2> QED BY <1>1, <1>2, <2>1, <2>2, <2>3, PrivateKept
<1>4. StepFits(d)
  <2>1. KeysIn(held[d], minted) /\ Len(minted) \in Nat
    BY DEF Inv, Shapes, MintOK, DeviceInv, ConfigOK
  <2>2. sealer'[d].key <= Len(minted)
    BY <1>1, <1>2, <2>1 DEF KeysIn
  <2>3. LogOK'
    BY <1>1, <1>2, <2>2 DEF Await, LogOK, Same
  <2> QED BY <1>1, <1>2, <1>3, <2>3 DEF StepFits, BarredGrows
<1>5. AboveOK(d)'
  <2>1. ForgetsNothing(d) /\ BarredGrows
    BY <1>1, <1>2, <1>4, NextRoundExpects DEF StepFits
  <2>2. current >= current
    BY <1>1
  <2> QED BY <1>1, <1>3, <2>1, <2>2, OwnAwaits DEF ForgetsNothing
<1>6. PairingOK(d)' /\ RoundOK(d)'
  BY <1>1, <1>2 DEF DeviceAwaits, PairingOK, RoundOK
<1> QED BY <1>4, <1>5, <1>6, AllAwait DEF DeviceAwaits

LEMMA InitAwait == Init => Await
<1> SUFFICES ASSUME Init PROVE Await
  OBVIOUS
<1>1. minted = <<1>> /\ log = <<>> /\ registered = {First} /\ 1 \in Generation
  BY Bounds DEF Init
<1>2. ASSUME NEW d \in Device
      PROVE  /\ config[d].active => d = First /\ config[d].current = 1
             /\ ~offer[d].made /\ relay[d] = {} /\ task[d].op = "idle"
             /\ sealer[d].key <= 1
             /\ d # First => held[d] = NoKeys /\ ~config[d].active
             /\ \A g \in Generation : g > 1 => held[d][g] = 0
  <2>1. /\ config[d].active = (d = First) /\ config[d].current = IF d = First THEN 1 ELSE 0
        /\ ~offer[d].made /\ relay[d] = {} /\ task[d].op = "idle"
    BY DEF Init, NoOffer, Idle
  <2>2. CASE d = First
    <3>1. held[d] = [NoKeys EXCEPT ![1] = 1] /\ sealer[d] = [gen |-> 1, key |-> 1]
      BY <2>2 DEF Init
    <3>2. \A g \in Generation : g > 1 => held[d][g] = 0
      BY <1>1, <3>1, Bounds DEF NoKeys
    <3>3. sealer[d].key <= 1
      BY <3>1
    <3> QED BY <2>1, <2>2, <3>2, <3>3
  <2>3. CASE d # First
    <3>1. held[d] = NoKeys /\ sealer[d] = Nothing
      BY <2>3 DEF Init
    <3>2. \A g \in Generation : held[d][g] = 0
      BY <3>1 DEF NoKeys
    <3>3. sealer[d].key <= 1
      BY <3>1 DEF Nothing
    <3> QED BY <2>1, <2>3, <3>1, <3>2, <3>3
  <2> QED BY <2>2, <2>3
<1>3. LogOK
  <2>1. Len(log) = 0 /\ Len(minted) = 1
    BY <1>1
  <2> QED BY <1>2, <2>1 DEF LogOK
<1>4. ASSUME NEW d \in Device PROVE DeviceAwaits(d)
  <2>1. AboveOK(d)
    <3>1. \A k \in 1..Len(minted) : k # 0
      OBVIOUS
    <3> QED BY <1>2, <3>1 DEF AboveOK
  <2>2. d \notin registered => d # First
    BY <1>1
  <2>3. PairingOK(d) /\ RoundOK(d)
    BY <1>2, <2>2 DEF PairingOK, RoundOK
  <2> QED BY <2>1, <2>3 DEF DeviceAwaits
<1> QED BY <1>3, <1>4 DEF Await

LEMMA NextAwait == Inv /\ Await /\ [Next]_vars => Await'
<1> SUFFICES ASSUME Inv, Await, [Next]_vars PROVE Await'
  OBVIOUS
<1> Inv'
  BY NextInv
<1>1. CASE UNCHANGED vars
  <2>1. UNCHANGED <<minted, held, config, sealer, parked, registered, barred, offer, relay, log,
                    task>>
    BY <1>1 DEF vars, library, server
  <2>2. Directory' = Directory
    BY <2>1 DEF Directory
  <2>3. ASSUME NEW d \in Device, NEW g, Awaited(d, g) PROVE Awaited(d, g)'
    BY <2>1, <2>2, <2>3 DEF Awaited, Withheld, Expected
  <2>4. \A d \in Device : \A k : Private(d, k)' = Private(d, k)
    BY <2>1 DEF Private
  <2>5. ASSUME NEW d \in Device PROVE DeviceAwaits(d)'
    <3>1. DeviceAwaits(d)
      BY DEF Await
    <3>2. AboveOK(d)'
      BY <2>1, <2>3, <2>4, <3>1 DEF DeviceAwaits, AboveOK
    <3>3. PairingOK(d)' /\ RoundOK(d)'
      BY <2>1, <3>1 DEF DeviceAwaits, PairingOK, RoundOK
    <3> QED BY <3>2, <3>3 DEF DeviceAwaits
  <2> QED BY <2>1, <2>5 DEF Await, LogOK
<1>2. ASSUME NEW d \in Device, Pairing(d) PROVE Await'
  BY <1>2, ApprovePairingAwaits, ClaimPairingAwaits, FinalizePairingAwaits DEF Pairing
<1>3. ASSUME NEW d \in Device, Rotation(d) PROVE Await'
  BY <1>3, RotateLocalAwaits, CommitRotationAwaits, FailingAwaits, RevokeDeviceAwaits,
     SendGenerationsAwaits DEF Rotation
<1>4. ASSUME NEW d \in Device, Granting(d) PROVE Await'
  BY <1>4, GrantVaultAccessAwaits, InstallGrantAwaits, AdoptVaultGrantAwaits DEF Granting
<1>5. ASSUME NEW d \in Device, Round(d) PROVE Await'
  BY <1>5, BeginRoundAwaits, InstallUpdatesAwaits, AdvanceConfigAwaits, PullAwaits, FailingAwaits
     DEF Round
<1>6. ASSUME NEW d \in Device, Restart(d) PROVE Await'
  BY <1>6, RestartAwaits
<1> QED BY <1>1, <1>2, <1>3, <1>4, <1>5, <1>6 DEF Next

\* Two keys of one generation are rivals.
LEMMA TwoRivals ==
  ASSUME Inv, NEW g, NEW j \in 1..Len(minted), NEW k \in 1..Len(minted), j # k,
         minted[j] = g, minted[k] = g
  PROVE  Rivals(g)
<1> DEFINE G == {i \in DOMAIN minted : minted[i] = g}
<1>1. DOMAIN minted = 1..Len(minted) /\ Len(minted) \in Nat
  BY DEF Inv, Shapes, MintOK
<1>2. IsFiniteSet(1..Len(minted))
  BY <1>1, FS_Interval
<1>3. IsFiniteSet(G)
  BY <1>1, <1>2, FS_Subset
<1> DEFINE J == {j}
           K == J \cup {k}
<1>4. Cardinality(J) = 1 /\ IsFiniteSet(J) /\ k \notin J
  BY FS_Singleton
<1>5. K \subseteq G
  BY <1>1
<1> HIDE DEF J
<1>6. Cardinality(K) = Cardinality(J) + 1
  BY <1>4, FS_AddElement
<1> HIDE DEF K, G
<1>7. Cardinality(K) <= Cardinality(G) /\ Cardinality(G) \in Nat
  BY <1>3, <1>5, FS_Subset, FS_CardinalityType
<1>8. Cardinality(G) > 1
  BY <1>4, <1>6, <1>7
<1> QED BY <1>8 DEF Rivals, G

\* A pull leaves parked, or skips, nothing that it has the key of and that is
\* not cut off.
LEMMA PullAwaitsKeys ==
  ASSUME Inv, Await, NEW d \in Device, Pull(d)
  PROVE  /\ \A n \in parked'[d] :
              held[d][log[n].gen] # log[n].key \/ CutOff(n) \/ Withheld(d, log[n].gen)
         /\ \A n \in Foreign(d) :
              \/ n \in parked'[d] \/ Readable(d, n)
              \/ Rivals(log[n].gen) \/ CutOff(n) \/ log[n].author \notin task[d].trust.known
<1>1. /\ task[d].op = "sync" /\ task[d].step = "pull"
      /\ DeviceAwaits(d) /\ LogOK /\ KeysIn(held[d], minted)
      /\ parked[d] \subseteq 1..Len(log) /\ config[d].watermark \in Nat /\ Len(log) \in Nat
      /\ config[d].current \in Nat
  BY DEF Pull, At, Await, Inv, Shapes, Config, DeviceInv, ConfigOK
<1>2. parked'[d] = {n \in parked[d] \cup {n \in Foreign(d) : Blocked(d, n)} : ~Readable(d, n)}
  BY DEF Pull, Inv, Shapes
<1>3. /\ config[d].active /\ Expected(d) = {}
      /\ task[d].keys = Loaded(held[d], config[d].current)
      /\ task[d].trust.records \subseteq barred.records
      /\ \A n \in parked[d] : log[n].author \in task[d].trust.known \cup barred.devices
  BY <1>1 DEF DeviceAwaits, PairingOK, RoundOK, Expected
<1>4. Foreign(d) \subseteq 1..Len(log)
  BY <1>1 DEF Foreign
<1>5. ASSUME NEW n \in parked'[d], ~CutOff(n), held[d][log[n].gen] = log[n].key
      PROVE  Withheld(d, log[n].gen)
  <2>1. n \in 1..Len(log) /\ Verifies(d, n) /\ ~Readable(d, n)
    BY <1>1, <1>2, <1>3, <1>4, <1>5 DEF Blocked, Verifies, CutOff
  <2>2. log[n].gen \in Generation /\ log[n].key \in 1..Len(minted)
    BY <1>1, <2>1 DEF LogOK
  <2>3. log[n].gen > config[d].current
    BY <1>1, <1>3, <1>5, <2>1, <2>2, Bounds DEF Readable, Loaded
  <2>4. Private(d, log[n].key) \/ Awaited(d, log[n].gen)
    BY <1>1, <1>3, <1>5, <2>2, <2>3 DEF DeviceAwaits, AboveOK
  <2>5. ~Private(d, log[n].key)
    BY <2>1 DEF Private
  <2> QED BY <1>3, <2>4, <2>5 DEF Awaited
<1>6. ASSUME NEW n \in Foreign(d), n \notin parked'[d], ~Readable(d, n), ~CutOff(n),
             log[n].author \in task[d].trust.known
      PROVE  Rivals(log[n].gen)
  <2>1. /\ log[n].gen \in Generation /\ log[n].key \in 1..Len(minted)
        /\ minted[log[n].key] = log[n].gen
    BY <1>1, <1>4 DEF LogOK
  <2>2. Verifies(d, n)
    BY <1>3, <1>6 DEF Verifies, CutOff
  <2>3. task[d].keys[log[n].gen] # 0 /\ task[d].keys[log[n].gen] # log[n].key
    BY <1>2, <1>6, <2>2 DEF Blocked, Readable
  <2>4. held[d][log[n].gen] # 0 /\ held[d][log[n].gen] # log[n].key
    BY <1>3, <2>1, <2>3 DEF Loaded
  <2>5. held[d][log[n].gen] \in 1..Len(minted) /\ minted[held[d][log[n].gen]] = log[n].gen
    BY <1>1, <2>1, <2>4 DEF KeysIn
  <2> QED BY <2>1, <2>4, <2>5, TwoRivals
<1> QED BY <1>5, <1>6

\* Whatever rotations, revocations, grants, pairings and crashes come between a
\* round's requests, a round that ends leaves nothing parked that it holds the
\* key of, except what a revocation has cut off or the message with its
\* generation that one has; and of the records whose author it verifies it skips
\* none but those cut off and those whose key is not the only one of its
\* generation.
THEOREM RecordsAlwaysAwait == Spec => RecordsAwaitKeys
<1>1. Spec => []Inv
  BY InvAlways
<1>2. Init => Await
  BY InitAwait
<1>3. Inv /\ Await /\ [Next]_vars => Await'
  BY NextAwait
<1>4. Inv /\ Await =>
        [\A d \in Device : Pull(d) =>
           /\ \A n \in parked'[d] :
                held[d][log[n].gen] # log[n].key \/ CutOff(n) \/ Withheld(d, log[n].gen)
           /\ \A n \in Foreign(d) :
                \/ n \in parked'[d] \/ Readable(d, n)
                \/ Rivals(log[n].gen) \/ CutOff(n) \/ log[n].author \notin task[d].trust.known]_vars
  BY PullAwaitsKeys
<1> QED BY <1>1, <1>2, <1>3, <1>4, PTL DEF Spec, RecordsAwaitKeys
=============================================================================
