------------------------ MODULE AccountServer_proofs ------------------------
(***************************************************************************)
(* AccountServer: what the tables promise, that a directory can be proved  *)
(* and that codes for one use serve one use, for any devices, pairing      *)
(* sessions, requests in flight and number of challenges.                  *)
(***************************************************************************)
EXTENDS AccountServer, SequenceTheorems, TLAPS

\* A chain that starts elsewhere than at r runs over a revoked device.
Sound(chain, r) == Head(chain) # r => \E i \in DOMAIN chain : row[chain[i]].revoked

StoreTyped ==
    /\ root \in Device \cup {Nobody}
    /\ row \in [Device -> Row]
    /\ statement \subseteq Registered
    /\ recovery \in BOOLEAN
    /\ pairing \in [Slot -> Pairing]
    /\ delivered \in [Slot -> Nat]

\* What a re-root relies on: a chain begins with a registered device, and only
\* chains over revoked devices begin elsewhere than at the root.
ChainsSound ==
    /\ root = Nobody => Registered = {}
    /\ \A d \in Device :
         /\ row[d].revoked => row[d].there
         /\ row[d].there /\ row[d].chain # <<>> =>
              row[Head(row[d].chain)].there /\ Sound(row[d].chain, root)

StoreInv == StoreTyped /\ TrustAnchored /\ ChainsSound /\ PairingOnce

\* What a request has read is still so, whoever came between.
RequestOK(r) ==
    /\ req[r].op \in {"idle", "challenge", "session", "revoke", "recovery",
                      "reroot", "offer", "claim", "directory"}
    /\ req[r].op = "challenge" => req[r].device \in Device
    /\ req[r].op = "session" =>
         /\ req[r].device \in Device
         /\ req[r].value \in 1 .. Len(issued)
         /\ req[r].step = "mint" => row[req[r].device].there
    /\ req[r].op = "revoke" =>
         /\ req[r].target \in Device
         /\ req[r].step \in {"store", "drop"} => row[req[r].target].there
    /\ req[r].op = "reroot" /\ req[r].step \in {"list", "replace"} =>
         req[r].device \in Device /\ req[r].value \in 1 .. Len(issued)
    /\ req[r].op = "offer" =>
         /\ req[r].device \in Device /\ req[r].slot \in Slot /\ req[r].new \in Device
         /\ req[r].step \in {"account", "store"} =>
              /\ row[req[r].device].there
              /\ req[r].chain = Append(row[req[r].device].chain, req[r].device)
         /\ req[r].step = "store" =>
              req[r].root \in Device \cup {Nobody} /\ Sound(req[r].chain, req[r].root)
    /\ req[r].op = "claim" =>
         req[r].slot \in Slot /\ pairing[req[r].slot].device # Nobody
    /\ req[r].op = "directory" =>
         /\ req[r].step = "revocations" =>
              req[r].revoked \subseteq Device /\ \A d \in req[r].revoked : row[d].revoked
         /\ req[r].step = "reply" =>
              \A d \in req[r].revoked \ req[r].stated :
                d \in Device /\ row[d].there /\ ~LeadsToRoot(d)

RequestsInv == DOMAIN req = Request /\ \A r \in Request : RequestOK(r)

\* The challenge a request has taken and not yet spent.
Held(r) ==
    IF \/ req[r].op = "session"
       \/ req[r].op = "reroot" /\ req[r].step \in {"list", "replace"}
      THEN req[r].value
      ELSE 0

MemoryTyped ==
    /\ challenge \in [Device -> 0 .. Len(issued)]
    /\ rootChallenge \in 0 .. Len(issued)
    /\ sessions \subseteq Registered
    /\ issued \in Seq(Device \cup {Nobody}) /\ Len(issued) <= MaxChallenges
    /\ used \in [1 .. MaxChallenges -> Nat]

\* A challenge is unissued, outstanding in one place, held by one request or
\* gone; only one that is gone has been used.
ChallengesKnown ==
    /\ \A c \in 1 .. MaxChallenges : c > Len(issued) => used[c] = 0
    /\ \A d \in Device : challenge[d] # 0 =>
         used[challenge[d]] = 0 /\ issued[challenge[d]] = d
    /\ rootChallenge # 0 => used[rootChallenge] = 0 /\ issued[rootChallenge] = Nobody
    /\ \A r \in Request : Held(r) # 0 =>
         /\ used[Held(r)] = 0
         /\ \A d \in Device : challenge[d] # Held(r)
         /\ rootChallenge # Held(r)
         /\ \A x \in Request \ {r} : Held(x) # Held(r)

MemoryInv == MemoryTyped /\ ChallengeOnce /\ ChallengesKnown

Inv == StoreInv /\ RequestsInv /\ MemoryInv

\* What no step takes back.
Grows ==
    /\ \A d \in Device :
         /\ row[d].there => /\ row'[d].there
                            /\ row'[d].chain = row[d].chain
                            /\ ~LeadsToRoot(d) => ~LeadsToRoot(d)'
         /\ row[d].revoked => row'[d].revoked
    /\ statement \subseteq statement'
    /\ \A s \in Slot : pairing[s].device # Nobody =>
         pairing'[s].device # Nobody /\ pairing'[s].chain = pairing[s].chain
    /\ Len(issued)' >= Len(issued)

-----------------------------------------------------------------------------
\* A chain with one more certificate: its last element, what is before it and
\* where it begins.
LEMMA AppendedChain ==
    ASSUME NEW chain \in Seq(Device), NEW d \in Device
    PROVE  /\ Append(chain, d) \in Seq(Device)
           /\ Append(chain, d) # <<>>
           /\ Len(Append(chain, d)) = Len(chain) + 1
           /\ Append(chain, d)[Len(chain) + 1] = d
           /\ SubSeq(Append(chain, d), 1, Len(chain)) = chain
           /\ \A i \in DOMAIN chain : i \in DOMAIN Append(chain, d)
                                      /\ Append(chain, d)[i] = chain[i]
           /\ Len(chain) + 1 \in DOMAIN Append(chain, d)
           /\ chain = <<>> => Head(Append(chain, d)) = d
           /\ chain # <<>> => Head(Append(chain, d)) = Head(chain)
<1> DEFINE longer == Append(chain, d)
<1>1. /\ longer \in Seq(Device) /\ Len(longer) = Len(chain) + 1
      /\ longer[Len(chain) + 1] = d
      /\ \A i \in 1 .. Len(chain) : longer[i] = chain[i]
  OBVIOUS
<1>2. Len(chain) \in Nat /\ DOMAIN chain = 1 .. Len(chain)
  BY LenProperties
<1>3. DOMAIN longer = 1 .. Len(chain) + 1 /\ longer # <<>>
  <2>1. DOMAIN longer = 1 .. Len(longer)
    BY <1>1, LenProperties
  <2>2. longer # <<>>
    BY <1>1, <1>2, EmptySeq
  <2> QED BY <1>1, <2>1, <2>2
<1>4. SubSeq(longer, 1, Len(chain)) = chain
  <2> DEFINE front == SubSeq(longer, 1, Len(chain))
  <2>1. \A i \in 1 .. Len(chain) : longer[i] \in Device
    BY <1>1, <1>2, ElementOfSeq
  <2>2. /\ front \in Seq(Device)
        /\ Len(front) = IF 1 <= Len(chain) THEN Len(chain) - 1 + 1 ELSE 0
        /\ \A i \in 1 .. Len(chain) - 1 + 1 : front[i] = longer[1 + i - 1]
    BY <2>1, <1>2, SubSeqProperties
  <2>3. Len(front) = Len(chain) /\ \A i \in 1 .. Len(front) : front[i] = chain[i]
    BY <2>2, <1>1, <1>2
  <2> HIDE DEF front
  <2>4. front = chain
    BY <2>2, <2>3, SeqEqual
  <2> QED BY <2>4 DEF front
<1>5. /\ Head(longer) = longer[1]
      /\ chain # <<>> => Head(chain) = chain[1] /\ Len(chain) # 0
      /\ chain = <<>> => Len(chain) = 0
  OBVIOUS
<1> QED BY <1>1, <1>2, <1>3, <1>4, <1>5

\* A table that does not move keeps everything it promises.
LEMMA StoreQuiet ==
    ASSUME StoreInv, UNCHANGED <<database, delivered>>
    PROVE  StoreInv'
  BY DEF StoreInv, StoreTyped, TrustAnchored, OneRoot, ChainsLink, RevokedIsProvable,
         ChainsSound, PairingOnce, Sound, LeadsToRoot, Active, Registered, database

LEMMA GrowsQuiet ==
    ASSUME UNCHANGED database, Len(issued)' >= Len(issued)
    PROVE  Grows
  BY DEF Grows, LeadsToRoot, database

\* What a request that waits has read stays true.
LEMMA RequestKept ==
    ASSUME Inv, Grows, NEW r \in Request, RequestOK(r), req'[r] = req[r],
           Len(issued)' \in Nat, row' \in [Device -> Row]
    PROVE  RequestOK(r)'
<1> DEFINE q == req[r]
<1>0. Len(issued) \in Nat /\ row \in [Device -> Row] /\ Len(issued)' >= Len(issued)
  BY LenProperties DEF Inv, MemoryInv, MemoryTyped, Grows, StoreInv, StoreTyped
<1>1. CASE q.op = "offer"
  <2>1. q.step \in {"account", "store"} =>
          /\ row'[q.device].there
          /\ q.chain = Append(row'[q.device].chain, q.device)
          /\ q.chain \in Seq(Device)
    <3> SUFFICES ASSUME q.step \in {"account", "store"}
                 PROVE  /\ row'[q.device].there
                        /\ q.chain = Append(row'[q.device].chain, q.device)
                        /\ q.chain \in Seq(Device)
      OBVIOUS
    <3>1. /\ q.device \in Device /\ row[q.device].there
          /\ q.chain = Append(row[q.device].chain, q.device)
      BY <1>1 DEF RequestOK
    <3>2. row'[q.device].there /\ row'[q.device].chain = row[q.device].chain
      BY <3>1 DEF Grows
    <3>3. row[q.device].chain \in Seq(Device)
      BY <1>0, <3>1 DEF Row
    <3>4. q.chain \in Seq(Device)
      BY <3>1, <3>3, AppendedChain
    <3> QED BY <3>1, <3>2, <3>4
  <2>2. q.step = "store" =>
          (Head(q.chain) # q.root => \E i \in DOMAIN q.chain : row'[q.chain[i]].revoked)
    <3>1. ASSUME q.step = "store", NEW i \in DOMAIN q.chain, row[q.chain[i]].revoked
          PROVE  row'[q.chain[i]].revoked
      BY <1>0, <1>1, <2>1, <3>1, LenProperties, ElementOfSeq, SMTT(20) DEF Grows, RequestOK
    <3> QED BY <1>1, <3>1 DEF RequestOK, Sound
  <2> QED BY <1>1, <2>1, <2>2 DEF RequestOK, Sound
<1>2. CASE q.op = "directory"
  BY <1>0, <1>2 DEF Grows, RequestOK
<1>3. CASE q.op = "session" \/ q.op = "reroot"
  BY <1>0, <1>3 DEF Grows, RequestOK
<1>4. CASE q.op \notin {"offer", "directory", "session", "reroot"}
  BY <1>0, <1>4 DEF Grows, RequestOK
<1> QED BY <1>1, <1>2, <1>3, <1>4

LEMMA IdleOK ==
    ASSUME NEW r \in Request, req'[r] = Idle
    PROVE  RequestOK(r)' /\ Held(r)' = 0
<1>1. req'[r].op = "idle"
  BY DEF Idle
<1> QED BY <1>1 DEF RequestOK, Held

\* So a step of one request keeps the others.
LEMMA RequestsKept ==
    ASSUME Inv, Grows, Len(issued)' \in Nat, row' \in [Device -> Row],
           NEW r \in Request, NEW record, req' = [req EXCEPT ![r] = record],
           req'[r] = record => RequestOK(r)'
    PROVE  RequestsInv'
<1>1. DOMAIN req' = Request /\ req'[r] = record
      /\ \A x \in Request \ {r} : req'[x] = req[x]
  BY DEF Inv, RequestsInv
<1>2. ASSUME NEW x \in Request \ {r} PROVE RequestOK(x)'
  BY <1>1, RequestKept DEF Inv, RequestsInv
<1> QED BY <1>1, <1>2 DEF RequestsInv

LEMMA RequestsQuiet ==
    ASSUME Inv, Grows, Len(issued)' \in Nat, row' \in [Device -> Row], UNCHANGED req
    PROVE  RequestsInv'
<1>1. DOMAIN req' = Request
  BY DEF Inv, RequestsInv
<1>2. ASSUME NEW x \in Request PROVE RequestOK(x)'
  BY RequestKept DEF Inv, RequestsInv
<1> QED BY <1>1, <1>2 DEF RequestsInv

\* No challenge moves, but a request may let go of the one it holds.
LEMMA MemoryKept ==
    ASSUME MemoryInv, UNCHANGED <<challenge, rootChallenge, issued, used>>,
           sessions' \subseteq Registered',
           \A x \in Request : Held(x)' = Held(x) \/ Held(x)' = 0
    PROVE  MemoryInv'
<1>1. MemoryTyped' /\ ChallengeOnce'
  BY DEF MemoryInv, MemoryTyped, ChallengeOnce
<1>2. ChallengesKnown'
  BY DEF MemoryInv, ChallengesKnown
<1> QED BY <1>1, <1>2 DEF MemoryInv

\* A step that only reads for its request.
LEMMA ReadingPreserves ==
    ASSUME Inv, UNCHANGED <<database, memory, history>>,
           NEW r \in Request, NEW record, req' = [req EXCEPT ![r] = record],
           req'[r] = record => RequestOK(r)' /\ Held(r)' \in {0, Held(r)}
    PROVE  Inv' /\ Grows
<1>1. Len(issued)' \in Nat /\ Len(issued)' >= Len(issued) /\ row' \in [Device -> Row]
  BY LenProperties DEF Inv, MemoryInv, MemoryTyped, StoreInv, StoreTyped, history, database
<1>2. Grows
  BY <1>1, GrowsQuiet
<1>3. StoreInv'
  BY StoreQuiet DEF Inv, database, history
<1>4. RequestsInv'
  BY <1>1, <1>2, RequestsKept
<1>5. MemoryInv'
  <2>1. req'[r] = record /\ \A x \in Request \ {r} : req'[x] = req[x]
    BY DEF Inv, RequestsInv
  <2>2. \A x \in Request : Held(x)' = Held(x) \/ Held(x)' = 0
    BY <2>1 DEF Held
  <2>3. sessions' \subseteq Registered'
    BY DEF Inv, MemoryInv, MemoryTyped, Registered, memory, database
  <2> QED BY <2>2, <2>3, MemoryKept DEF Inv, memory, history
<1> QED BY <1>2, <1>3, <1>4, <1>5 DEF Inv

LEMMA SessionReads ==
    ASSUME Inv, NEW r \in Request,
           (\E d \in Device : IssueChallenge(r, d)) \/ VerifyChallenge(r)
    PROVE  Inv' /\ Grows
<1>1. ASSUME NEW d \in Device, IssueChallenge(r, d) PROVE Inv' /\ Grows
  <2> DEFINE record == [op |-> "challenge", step |-> "put", device |-> d]
  <2>1. req'[r] = record => RequestOK(r)' /\ Held(r)' = 0
    BY DEF RequestOK, Held
  <2> QED BY <1>1, <2>1, ReadingPreserves DEF IssueChallenge, Begin
<1>2. ASSUME VerifyChallenge(r) PROVE Inv' /\ Grows
  <2> USE <1>2 DEF VerifyChallenge, At
  <2>0. RequestOK(r)
    BY DEF Inv, RequestsInv
  <2>1. CASE Active(req[r].device) /\ req[r].value = req[r].signed
    <3> DEFINE record == [op |-> "session", step |-> "mint", device |-> req[r].device,
                          value |-> req[r].value]
    <3>1. req'[r] = record => RequestOK(r)' /\ Held(r)' = Held(r)
      BY <2>0, <2>1 DEF RequestOK, Held, Active, database, history
    <3> QED BY <2>1, <3>1, ReadingPreserves DEF Continue
  <2>2. CASE ~(Active(req[r].device) /\ req[r].value = req[r].signed)
    <3>1. req'[r] = Idle => RequestOK(r)' /\ Held(r)' = 0
      BY IdleOK
    <3> QED BY <2>2, <3>1, ReadingPreserves DEF Done
  <2> QED BY <2>1, <2>2
<1> QED BY <1>1, <1>2

LEMMA RevocationReads ==
    ASSUME Inv, NEW r \in Request,
           (\E d, t \in Device : RevokeDevice(r, d, t)) \/ CheckRevocation(r) \/ AlreadyRevoked(r)
    PROVE  Inv' /\ Grows
<1>0. RequestOK(r)
  BY DEF Inv, RequestsInv
<1>1. req'[r] = Idle => RequestOK(r)' /\ Held(r)' = 0
  BY IdleOK
<1>2. ASSUME NEW d \in Device, NEW t \in Device, RevokeDevice(r, d, t) PROVE Inv' /\ Grows
  <2> DEFINE record == [op |-> "revoke", step |-> "check", device |-> d, target |-> t]
  <2>1. req'[r] = record => RequestOK(r)' /\ Held(r)' = 0
    BY DEF RequestOK, Held
  <2> QED BY <1>2, <2>1, ReadingPreserves DEF RevokeDevice, Begin
<1>3. ASSUME CheckRevocation(r) PROVE Inv' /\ Grows
  <2> DEFINE record == [op |-> "revoke", step |-> "store", target |-> req[r].target]
  <2> USE <1>3 DEF CheckRevocation, At
  <2>1. CASE Active(req[r].device) /\ row[req[r].target].there
    <3>1. req'[r] = record => RequestOK(r)' /\ Held(r)' = 0
      BY <1>0, <2>1 DEF RequestOK, Held, database
    <3> QED BY <2>1, <3>1, ReadingPreserves DEF Continue
  <2>2. CASE ~(Active(req[r].device) /\ row[req[r].target].there)
    BY <1>1, <2>2, ReadingPreserves DEF Done
  <2> QED BY <2>1, <2>2
<1>4. ASSUME AlreadyRevoked(r) PROVE Inv' /\ Grows
  BY <1>1, <1>4, ReadingPreserves DEF AlreadyRevoked, Done
<1> QED BY <1>2, <1>3, <1>4

LEMMA RecoveryReads ==
    ASSUME Inv, NEW r \in Request,
           (\E d \in Device : PutRecoveryBlob(r, d)) \/ ListForReRoot(r) \/ ReRootRefused(r)
    PROVE  Inv' /\ Grows
<1>0. RequestOK(r)
  BY DEF Inv, RequestsInv
<1>1. ASSUME NEW d \in Device, PutRecoveryBlob(r, d) PROVE Inv' /\ Grows
  <2> DEFINE record == [op |-> "recovery", step |-> "put"]
  <2>1. req'[r] = record => RequestOK(r)' /\ Held(r)' = 0
    BY DEF RequestOK, Held
  <2> QED BY <1>1, <2>1, ReadingPreserves DEF PutRecoveryBlob, Begin
<1>2. ASSUME ListForReRoot(r) PROVE Inv' /\ Grows
  <2> DEFINE record == [op |-> "reroot", step |-> "replace", device |-> req[r].device,
                        value |-> req[r].value, listed |-> Registered]
  <2>1. req'[r] = record => RequestOK(r)' /\ Held(r)' = Held(r)
    BY <1>0, <1>2 DEF RequestOK, Held, ListForReRoot, At, history
  <2> QED BY <1>2, <2>1, ReadingPreserves DEF ListForReRoot, Continue
<1>3. ASSUME ReRootRefused(r) PROVE Inv' /\ Grows
  <2>1. req'[r] = Idle => RequestOK(r)' /\ Held(r)' = 0
    BY IdleOK
  <2> QED BY <1>3, <2>1, ReadingPreserves DEF ReRootRefused, Done
<1> QED BY <1>1, <1>2, <1>3

\* A chain made from an active or registered issuer is sound.
LEMMA OfferSound ==
    ASSUME StoreInv, NEW d \in Device, row[d].there
    PROVE  /\ Append(row[d].chain, d) \in Seq(Device)
           /\ Append(row[d].chain, d) # <<>>
           /\ row[Head(Append(row[d].chain, d))].there
           /\ Sound(Append(row[d].chain, d), root)
<1> DEFINE old == row[d].chain
           longer == Append(old, d)
<1>0. old \in Seq(Device) /\ row[d].revoked \in BOOLEAN
  BY DEF StoreInv, StoreTyped, Row
<1>1. /\ longer \in Seq(Device) /\ longer # <<>>
      /\ longer[Len(old) + 1] = d /\ Len(old) + 1 \in DOMAIN longer
      /\ \A i \in DOMAIN old : i \in DOMAIN longer /\ longer[i] = old[i]
      /\ old = <<>> => Head(longer) = d
      /\ old # <<>> => Head(longer) = Head(old)
  BY <1>0, AppendedChain
<1> HIDE DEF longer
<1>2. CASE old = <<>>
  <2>1. Head(longer) = d
    BY <1>1, <1>2
  <2>2. ~row[d].revoked => d = root
    BY <1>2 DEF StoreInv, TrustAnchored, OneRoot, Active
  <2>3. Sound(longer, root)
    BY <1>1, <2>1, <2>2 DEF Sound
  <2> QED BY <1>1, <2>1, <2>3 DEF longer
<1>3. CASE old # <<>>
  <2>1. row[Head(old)].there /\ Sound(old, root)
    BY <1>3 DEF StoreInv, ChainsSound
  <2>2. Sound(longer, root)
    BY <1>1, <1>3, <2>1 DEF Sound
  <2> QED BY <1>1, <1>3, <2>1, <2>2 DEF longer
<1> QED BY <1>2, <1>3

LEMMA PairingReads ==
    ASSUME Inv, NEW r \in Request,
           \/ \E d, n \in Device, s \in Slot : PostPairingOffer(r, d, s, n)
           \/ \E s \in Slot : ClaimPairing(r, s)
           \/ LoadPairing(r) \/ LoadIssuer(r) \/ LoadAccount(r)
    PROVE  Inv' /\ Grows
<1>0. RequestOK(r)
  BY DEF Inv, RequestsInv
<1>1. req'[r] = Idle => RequestOK(r)' /\ Held(r)' = 0
  BY IdleOK
<1>2. ASSUME NEW d \in Device, NEW n \in Device, NEW s \in Slot, PostPairingOffer(r, d, s, n)
      PROVE  Inv' /\ Grows
  <2> DEFINE record == [op |-> "offer", step |-> "session", device |-> d, slot |-> s, new |-> n]
  <2>1. req'[r] = record => RequestOK(r)' /\ Held(r)' = 0
    BY DEF RequestOK, Held
  <2> QED BY <1>2, <2>1, ReadingPreserves DEF PostPairingOffer, Begin
<1>3. ASSUME NEW s \in Slot, ClaimPairing(r, s) PROVE Inv' /\ Grows
  <2> DEFINE record == [op |-> "claim", step |-> "claim", slot |-> s]
  <2>1. req'[r] = record => RequestOK(r)' /\ Held(r)' = 0
    BY <1>3 DEF RequestOK, Held, ClaimPairing, database
  <2> QED BY <1>3, <2>1, ReadingPreserves DEF ClaimPairing, Begin
<1>4. ASSUME LoadPairing(r) PROVE Inv' /\ Grows
  <2> DEFINE record == [op |-> "offer", step |-> "issuer", device |-> req[r].device,
                        slot |-> req[r].slot, new |-> req[r].new]
  <2>1. req'[r] = record => RequestOK(r)' /\ Held(r)' = 0
    BY <1>0, <1>4 DEF RequestOK, Held, LoadPairing, At
  <2>2. req' = [req EXCEPT ![r] = record] \/ req' = [req EXCEPT ![r] = Idle]
    BY <1>4 DEF LoadPairing, Continue, Done
  <2> QED BY <1>1, <1>4, <2>1, <2>2, ReadingPreserves DEF LoadPairing
<1>5. ASSUME LoadIssuer(r) PROVE Inv' /\ Grows
  <2> DEFINE record == [op |-> "offer", step |-> "account", device |-> req[r].device,
                        slot |-> req[r].slot, new |-> req[r].new,
                        chain |-> Append(row[req[r].device].chain, req[r].device)]
  <2>1. ASSUME Active(req[r].device), req'[r] = record
        PROVE  RequestOK(r)' /\ Held(r)' = 0
    BY <1>0, <1>5, <2>1, SMTT(20) DEF RequestOK, Held, LoadIssuer, At, Active, database
  <2>2. \/ Active(req[r].device) /\ req' = [req EXCEPT ![r] = record]
        \/ req' = [req EXCEPT ![r] = Idle]
    BY <1>5 DEF LoadIssuer, Continue, Done
  <2> QED BY <1>1, <1>5, <2>1, <2>2, ReadingPreserves DEF LoadIssuer
<1>6. ASSUME LoadAccount(r) PROVE Inv' /\ Grows
  <2> DEFINE record == [op |-> "offer", step |-> "store", device |-> req[r].device,
                        slot |-> req[r].slot, new |-> req[r].new, chain |-> req[r].chain,
                        root |-> root]
  <2>0. /\ req[r].device \in Device /\ row[req[r].device].there
        /\ req[r].chain = Append(row[req[r].device].chain, req[r].device)
        /\ root \in Device \cup {Nobody}
    BY <1>0, <1>6 DEF RequestOK, LoadAccount, At, Inv, StoreInv, StoreTyped
  <2>1. Sound(req[r].chain, root)
    BY <2>0, OfferSound DEF Inv
  <2>2. req'[r] = record => RequestOK(r)' /\ Held(r)' = 0
    <3>1. row' = row /\ req[r].slot \in Slot /\ req[r].new \in Device
      BY <1>0, <1>6 DEF RequestOK, LoadAccount, At, database
    <3>2. Head(req[r].chain) # root => \E i \in DOMAIN req[r].chain : row[req[r].chain[i]].revoked
      BY <2>1 DEF Sound
    <3> HIDE DEF record
    <3> SUFFICES ASSUME req'[r] = record PROVE RequestOK(r)' /\ Held(r)' = 0
      OBVIOUS
    <3>3. /\ req'[r].op = "offer" /\ req'[r].device = req[r].device
          /\ req'[r].slot = req[r].slot /\ req'[r].new = req[r].new
          /\ req'[r].chain = req[r].chain /\ req'[r].root = root
      BY DEF record
    <3>4. Sound(req[r].chain, req[r].root)'
      BY <3>1, <3>2, <3>3 DEF Sound
    <3> QED BY <2>0, <3>1, <3>3, <3>4 DEF RequestOK, Held
  <2> QED BY <1>6, <2>2, ReadingPreserves DEF LoadAccount, Continue
<1> QED BY <1>2, <1>3, <1>4, <1>5, <1>6

LEMMA DirectoryPreserves ==
    ASSUME Inv, NEW r \in Request, DirectoryStep(r)
    PROVE  Inv' /\ Grows
<1>0. RequestOK(r)
  BY DEF Inv, RequestsInv
<1>1. ASSUME NEW d \in Device, DeviceDirectory(r, d) PROVE Inv' /\ Grows
  <2> DEFINE record == [op |-> "directory", step |-> "account"]
  <2>1. req'[r] = record => RequestOK(r)' /\ Held(r)' = 0
    BY DEF RequestOK, Held
  <2> QED BY <1>1, <2>1, ReadingPreserves DEF DeviceDirectory, Begin
<1>2. ASSUME ShowAccount(r) PROVE Inv' /\ Grows
  <2> DEFINE record == [op |-> "directory", step |-> "devices", root |-> root]
  <2>1. req'[r] = record => RequestOK(r)' /\ Held(r)' = 0
    BY DEF RequestOK, Held
  <2> QED BY <1>2, <2>1, ReadingPreserves DEF ShowAccount, Continue
<1>3. ASSUME ListDevices(r) PROVE Inv' /\ Grows
  <2> DEFINE record == [op |-> "directory", step |-> "revocations", root |-> req[r].root,
                        revoked |-> {d \in Device : row[d].revoked}]
  <2>1. req'[r] = record => RequestOK(r)' /\ Held(r)' = 0
    BY <1>3 DEF RequestOK, Held, ListDevices, database
  <2> QED BY <1>3, <2>1, ReadingPreserves DEF ListDevices, Continue
<1>4. ASSUME ListRevocations(r) PROVE Inv' /\ Grows
  <2> DEFINE record == [op |-> "directory", step |-> "reply", root |-> req[r].root,
                        revoked |-> req[r].revoked, stated |-> statement]
  <2>1. ASSUME NEW d \in req[r].revoked \ statement
        PROVE  d \in Device /\ row[d].there /\ ~LeadsToRoot(d)
    BY <1>0, <1>4 DEF RequestOK, ListRevocations, At, Inv, StoreInv, TrustAnchored,
                      RevokedIsProvable, ChainsSound
  <2>2. req'[r] = record => RequestOK(r)' /\ Held(r)' = 0
    <3>1. \A d \in req[r].revoked \ statement : row'[d].there /\ ~LeadsToRoot(d)'
      BY <1>4, <2>1 DEF ListRevocations, database, LeadsToRoot
    <3> QED BY <2>1, <3>1 DEF RequestOK, Held
  <2> QED BY <1>4, <2>2, ReadingPreserves DEF ListRevocations, Continue
<1>5. ASSUME Reply(r) PROVE Inv' /\ Grows
  <2>1. req'[r] = Idle => RequestOK(r)' /\ Held(r)' = 0
    BY IdleOK
  <2> QED BY <1>5, <2>1, ReadingPreserves DEF Reply, Done
<1> QED BY <1>1, <1>2, <1>3, <1>4, <1>5 DEF DirectoryStep

LEMMA HeldIssued ==
    ASSUME Inv, NEW r \in Request
    PROVE  Held(r) \in 0 .. Len(issued) /\ Len(issued) \in Nat
<1>1. Len(issued) \in Nat
  BY LenProperties DEF Inv, MemoryInv, MemoryTyped
<1>2. RequestOK(r)
  BY DEF Inv, RequestsInv
<1> QED BY <1>1, <1>2 DEF Held, RequestOK

\* A new challenge goes to a device or to the recovery and to nobody else.
LEMMA IssuingPreserves ==
    ASSUME Inv, NEW who \in Device \cup {Nobody}, Len(issued) < MaxChallenges,
           issued' = Append(issued, who),
           UNCHANGED <<database, sessions, used>>,
           \A x \in Request : Held(x)' = Held(x),
           \/ who \in Device /\ challenge' = [challenge EXCEPT ![who] = Len(issued) + 1]
              /\ UNCHANGED rootChallenge
           \/ who = Nobody /\ rootChallenge' = Len(issued) + 1 /\ UNCHANGED challenge
    PROVE  MemoryInv' /\ Len(issued)' = Len(issued) + 1
<1>0. /\ MemoryTyped /\ ChallengeOnce /\ ChallengesKnown
      /\ Len(issued) \in Nat /\ MaxChallenges \in Nat
  BY LenProperties, AccountAssumption DEF Inv, MemoryInv, MemoryTyped
<1>1. /\ issued' \in Seq(Device \cup {Nobody}) /\ Len(issued') = Len(issued) + 1
      /\ issued'[Len(issued) + 1] = who
      /\ \A i \in 1 .. Len(issued) : issued'[i] = issued[i]
  BY <1>0 DEF MemoryTyped
<1>2. MemoryTyped'
  <2>1. challenge' \in [Device -> 0 .. Len(issued')] /\ rootChallenge' \in 0 .. Len(issued')
    BY <1>0, <1>1 DEF MemoryTyped
  <2>2. sessions' \subseteq Registered' /\ used' \in [1 .. MaxChallenges -> Nat]
    BY <1>0 DEF MemoryTyped, Registered, database
  <2> QED BY <1>0, <1>1, <2>1, <2>2 DEF MemoryTyped
<1>3. ChallengeOnce'
  BY <1>0 DEF ChallengeOnce
<1>4. used[Len(issued) + 1] = 0
  BY <1>0 DEF ChallengesKnown
<1>5. \A x \in Request : Held(x) \in 0 .. Len(issued)
  BY HeldIssued
<1>6. \A c \in 1 .. MaxChallenges : c > Len(issued') => used'[c] = 0
  BY <1>0, <1>1 DEF ChallengesKnown
<1>7. ASSUME NEW d \in Device, challenge'[d] # 0
      PROVE  used'[challenge'[d]] = 0 /\ issued'[challenge'[d]] = d
  <2>1. CASE challenge'[d] = challenge[d]
    <3>1. challenge[d] \in 1 .. Len(issued)
      BY <1>0, <1>7, <2>1 DEF MemoryTyped
    <3> QED BY <1>0, <1>1, <1>7, <2>1, <3>1 DEF ChallengesKnown
  <2>2. CASE challenge'[d] # challenge[d]
    BY <1>0, <1>1, <1>4, <2>2 DEF MemoryTyped
  <2> QED BY <2>1, <2>2
<1>8. rootChallenge' # 0 => used'[rootChallenge'] = 0 /\ issued'[rootChallenge'] = Nobody
  BY <1>0, <1>1, <1>4 DEF MemoryTyped, ChallengesKnown
<1>9. ASSUME NEW x \in Request, Held(x) # 0
      PROVE  /\ used'[Held(x)] = 0
             /\ \A d \in Device : challenge'[d] # Held(x)
             /\ rootChallenge' # Held(x)
             /\ \A y \in Request \ {x} : Held(y) # Held(x)
  BY <1>0, <1>5, <1>9 DEF ChallengesKnown, MemoryTyped
<1>10. ChallengesKnown'
  <2>1. ASSUME NEW x \in Request, Held(x)' # 0
        PROVE  /\ used'[Held(x)'] = 0
               /\ \A d \in Device : challenge'[d] # Held(x)'
               /\ rootChallenge' # Held(x)'
               /\ \A y \in Request \ {x} : Held(y)' # Held(x)'
    <3>1. Held(x)' = Held(x) /\ Held(x) # 0
      BY <2>1
    <3>2. \A y \in Request \ {x} : Held(y)' = Held(y)
      OBVIOUS
    <3> QED BY <1>9, <3>1, <3>2
  <2> QED BY <1>6, <1>7, <1>8, <2>1 DEF ChallengesKnown
<1> QED BY <1>1, <1>2, <1>3, <1>10 DEF MemoryInv

\* Challenges and tokens are dropped, never moved.
LEMMA DroppingPreserves ==
    ASSUME MemoryInv, UNCHANGED <<database, issued, used>>,
           \A d \in Device : challenge'[d] \in {0, challenge[d]},
           challenge' \in [Device -> 0 .. Len(issued)],
           rootChallenge' \in {0, rootChallenge},
           sessions' \subseteq sessions,
           \A x \in Request : Held(x)' \in {0, Held(x)}
    PROVE  MemoryInv'
<1>1. MemoryTyped'
  BY LenProperties DEF MemoryInv, MemoryTyped, Registered, database
<1>2. ChallengeOnce'
  BY DEF MemoryInv, ChallengeOnce
<1>3. ASSUME NEW d \in Device, challenge'[d] # 0
      PROVE  used[challenge'[d]] = 0 /\ issued[challenge'[d]] = d
  BY <1>3 DEF MemoryInv, ChallengesKnown
<1>4. ASSUME NEW x \in Request, Held(x)' # 0
      PROVE  /\ used[Held(x)'] = 0
             /\ \A d \in Device : challenge'[d] # Held(x)'
             /\ rootChallenge' # Held(x)'
             /\ \A y \in Request \ {x} : Held(y)' # Held(x)'
  <2>1. /\ Held(x)' = Held(x) /\ used[Held(x)] = 0
        /\ \A d \in Device : challenge[d] # Held(x)
        /\ rootChallenge # Held(x)
        /\ \A y \in Request \ {x} : Held(y) # Held(x)
    BY <1>4 DEF MemoryInv, ChallengesKnown
  <2> QED BY <1>4, <2>1
<1>5. ChallengesKnown'
  <2>1. rootChallenge' # 0 => used[rootChallenge'] = 0 /\ issued[rootChallenge'] = Nobody
    BY DEF MemoryInv, ChallengesKnown
  <2>2. \A c \in 1 .. MaxChallenges : c > Len(issued') => used'[c] = 0
    BY DEF MemoryInv, ChallengesKnown
  <2>3. UNCHANGED <<issued, used>>
    OBVIOUS
  <2> QED BY <1>3, <1>4, <2>1, <2>2, <2>3 DEF ChallengesKnown
<1> QED BY <1>1, <1>2, <1>5 DEF MemoryInv

\* A request takes the challenge outstanding for its device or the recovery.
LEMMA TakingPreserves ==
    ASSUME Inv, UNCHANGED <<database, history, sessions>>, NEW r \in Request,
           \A x \in Request \ {r} : Held(x)' = Held(x),
           \/ \E d \in Device :
                /\ challenge[d] # 0 /\ challenge' = [challenge EXCEPT ![d] = 0]
                /\ UNCHANGED rootChallenge /\ Held(r)' = challenge[d]
           \/ /\ rootChallenge # 0 /\ rootChallenge' = 0
              /\ UNCHANGED challenge /\ Held(r)' = rootChallenge
    PROVE  MemoryInv'
<1>0. /\ MemoryTyped /\ ChallengeOnce /\ ChallengesKnown /\ Len(issued) \in Nat
      /\ Nobody \notin Device
  BY LenProperties, AccountAssumption DEF Inv, MemoryInv, MemoryTyped
<1>1. MemoryTyped' /\ ChallengeOnce'
  BY <1>0 DEF MemoryTyped, ChallengeOnce, Registered, database, history
<1>2. UNCHANGED <<issued, used>>
  BY DEF history
<1>3. /\ used[Held(r)'] = 0 /\ rootChallenge' # Held(r)'
      /\ \A d \in Device : challenge'[d] # Held(r)'
      /\ \A y \in Request \ {r} : Held(y) # Held(r)'
  <2>1. ASSUME NEW d \in Device, challenge[d] # 0, challenge' = [challenge EXCEPT ![d] = 0],
               UNCHANGED rootChallenge, Held(r)' = challenge[d]
        PROVE  <1>3!:
    <3>1. used[challenge[d]] = 0 /\ issued[challenge[d]] = d
      BY <1>0, <2>1 DEF ChallengesKnown
    <3>2. \A e \in Device \ {d} : challenge[e] # challenge[d]
      BY <1>0, <2>1, <3>1 DEF ChallengesKnown
    <3>3. rootChallenge # challenge[d]
      BY <1>0, <2>1, <3>1 DEF ChallengesKnown
    <3>4. challenge'[d] = 0 /\ \A e \in Device \ {d} : challenge'[e] = challenge[e]
      BY <1>0, <2>1 DEF MemoryTyped
    <3>5. \A y \in Request \ {r} : Held(y) # challenge[d]
      BY <1>0, <2>1 DEF ChallengesKnown
    <3> QED BY <2>1, <3>1, <3>2, <3>3, <3>4, <3>5
  <2>2. ASSUME rootChallenge # 0, rootChallenge' = 0, UNCHANGED challenge,
               Held(r)' = rootChallenge
        PROVE  <1>3!:
    <3>1. used[rootChallenge] = 0 /\ issued[rootChallenge] = Nobody
      BY <1>0, <2>2 DEF ChallengesKnown
    <3>2. \A e \in Device : challenge[e] # rootChallenge
      BY <1>0, <2>2, <3>1 DEF ChallengesKnown
    <3>3. \A y \in Request \ {r} : Held(y) # rootChallenge
      BY <1>0, <2>2 DEF ChallengesKnown
    <3> QED BY <2>2, <3>1, <3>2, <3>3
  <2> QED BY <2>1, <2>2
<1>4. /\ \A d \in Device : challenge'[d] \in {0, challenge[d]}
      /\ rootChallenge' \in {0, rootChallenge}
  BY <1>0 DEF MemoryTyped
<1>5. ASSUME NEW d \in Device, challenge'[d] # 0
      PROVE  used[challenge'[d]] = 0 /\ issued[challenge'[d]] = d
  BY <1>0, <1>4, <1>5 DEF ChallengesKnown
<1>6. ASSUME NEW x \in Request \ {r}, Held(x) # 0
      PROVE  /\ used[Held(x)] = 0
             /\ \A d \in Device : challenge'[d] # Held(x)
             /\ rootChallenge' # Held(x)
             /\ \A y \in Request \ {x} : Held(y)' # Held(x)
  BY <1>0, <1>3, <1>4, <1>6 DEF ChallengesKnown
<1>7. ChallengesKnown'
  <2>1. rootChallenge' # 0 => used'[rootChallenge'] = 0 /\ issued'[rootChallenge'] = Nobody
    BY <1>0, <1>2, <1>4 DEF ChallengesKnown
  <2>2. \A c \in 1 .. MaxChallenges : c > Len(issued') => used'[c] = 0
    BY <1>0, <1>2 DEF ChallengesKnown
  <2> QED BY <1>2, <1>3, <1>5, <1>6, <2>1, <2>2 DEF ChallengesKnown
<1> QED BY <1>0, <1>1, <1>7 DEF MemoryInv

\* A request spends the challenge it holds.
LEMMA SpendingPreserves ==
    ASSUME Inv, NEW r \in Request, Held(r) # 0,
           used' = [used EXCEPT ![Held(r)] = @ + 1],
           UNCHANGED <<challenge, rootChallenge, issued>>,
           sessions' \subseteq Registered',
           Held(r)' = 0, \A x \in Request \ {r} : Held(x)' = Held(x)
    PROVE  MemoryInv'
<1>0. /\ MemoryTyped /\ ChallengeOnce /\ ChallengesKnown /\ Len(issued) \in Nat
      /\ MaxChallenges \in Nat
  BY LenProperties, AccountAssumption DEF Inv, MemoryInv, MemoryTyped
<1>1. Held(r) \in 1 .. Len(issued) /\ Len(issued) <= MaxChallenges
  BY <1>0, HeldIssued DEF MemoryTyped
<1>2. /\ used' \in [1 .. MaxChallenges -> Nat]
      /\ used[Held(r)] = 0 /\ used'[Held(r)] = 1
      /\ \A c \in 1 .. MaxChallenges : c # Held(r) => used'[c] = used[c]
  BY <1>0, <1>1 DEF ChallengesKnown, MemoryTyped
<1>3. MemoryTyped'
  BY <1>0, <1>2 DEF MemoryTyped
<1>4. ChallengeOnce'
  BY <1>0, <1>2 DEF ChallengeOnce
<1>5. \A x \in Request : Held(x) \in 0 .. Len(issued)
  BY HeldIssued
<1>6. ChallengesKnown'
  <2>1. \A c \in 1 .. MaxChallenges : c > Len(issued') => used'[c] = 0
    BY <1>0, <1>1, <1>2 DEF ChallengesKnown
  <2>2. ASSUME NEW d \in Device, challenge'[d] # 0
        PROVE  used'[challenge'[d]] = 0 /\ issued'[challenge'[d]] = d
    <3>1. challenge[d] \in 1 .. MaxChallenges /\ challenge[d] # Held(r)
      BY <1>0, <1>1, <2>2 DEF MemoryTyped, ChallengesKnown
    <3> QED BY <1>0, <1>2, <2>2, <3>1 DEF ChallengesKnown
  <2>3. rootChallenge' # 0 => used'[rootChallenge'] = 0 /\ issued'[rootChallenge'] = Nobody
    BY <1>0, <1>1, <1>2 DEF MemoryTyped, ChallengesKnown
  <2>4. ASSUME NEW x \in Request, Held(x)' # 0
        PROVE  /\ used'[Held(x)'] = 0
               /\ \A d \in Device : challenge'[d] # Held(x)'
               /\ rootChallenge' # Held(x)'
               /\ \A y \in Request \ {x} : Held(y)' # Held(x)'
    <3>1. x # r /\ Held(x)' = Held(x) /\ Held(x) # 0 /\ Held(x) # Held(r)
      BY <1>0, <2>4 DEF ChallengesKnown
    <3>2. Held(x) \in 1 .. MaxChallenges
      BY <1>1, <1>5, <3>1, <1>0
    <3>3. \A y \in Request \ {x} : Held(y)' # Held(x)
      BY <1>0, <3>1 DEF ChallengesKnown
    <3> QED BY <1>0, <1>2, <3>1, <3>2, <3>3 DEF ChallengesKnown
  <2> QED BY <2>1, <2>2, <2>3, <2>4 DEF ChallengesKnown
<1> QED BY <1>3, <1>4, <1>6 DEF MemoryInv

\* A step that leaves the tables alone.
LEMMA TablesKept ==
    ASSUME Inv, UNCHANGED <<database, delivered>>, MemoryInv',
           Len(issued)' \in {Len(issued), Len(issued) + 1},
           \/ UNCHANGED req
           \/ \E r \in Request : req' = [req EXCEPT ![r] = Idle]
           \/ \E r \in Request : req' = [req EXCEPT ![r] = req'[r]] /\ RequestOK(r)'
    PROVE  Inv' /\ Grows
<1>1. Len(issued)' \in Nat /\ Len(issued)' >= Len(issued) /\ row' \in [Device -> Row]
  BY LenProperties DEF Inv, MemoryInv, MemoryTyped, StoreInv, StoreTyped, database
<1>2. Grows
  BY <1>1, GrowsQuiet
<1>3. StoreInv'
  BY StoreQuiet DEF Inv
<1>4. RequestsInv'
  <2>1. CASE UNCHANGED req
    BY <1>1, <1>2, <2>1, RequestsQuiet
  <2>2. ASSUME NEW r \in Request, req' = [req EXCEPT ![r] = Idle] PROVE RequestsInv'
    <3>1. req'[r] = Idle => RequestOK(r)'
      BY IdleOK
    <3> QED BY <1>1, <1>2, <2>2, <3>1, RequestsKept
  <2>3. ASSUME NEW r \in Request, req' = [req EXCEPT ![r] = req'[r]], RequestOK(r)'
        PROVE  RequestsInv'
    BY <1>1, <1>2, <2>3, RequestsKept
  <2> QED BY <2>1, <2>2, <2>3
<1> QED BY <1>2, <1>3, <1>4 DEF Inv

\* Where a request goes back to idle it lets its challenge go.
LEMMA IdleHolds ==
    ASSUME Inv, NEW r \in Request, Done(r)
    PROVE  /\ req' = [req EXCEPT ![r] = Idle]
           /\ Held(r)' = 0
           /\ \A x \in Request \ {r} : Held(x)' = Held(x)
  BY DEF Done, Held, Idle, Inv, RequestsInv

LEMMA SessionPreserves ==
    ASSUME Inv, NEW r \in Request, SessionStep(r)
    PROVE  Inv' /\ Grows
<1>0. /\ RequestOK(r) /\ Len(issued) \in Nat /\ MemoryTyped /\ MemoryInv /\ DOMAIN req = Request
  BY LenProperties DEF Inv, RequestsInv, MemoryInv, MemoryTyped
<1>1. ASSUME PutAuthChallenge(r) PROVE Inv' /\ Grows
  <2>1. req[r].device \in Device /\ Held(r) = 0 /\ Done(r)
    BY <1>0, <1>1 DEF PutAuthChallenge, At, RequestOK, Held
  <2>2. \A x \in Request : Held(x)' = Held(x)
    BY <2>1, IdleHolds
  <2>3. MemoryInv' /\ Len(issued)' = Len(issued) + 1
    BY <1>1, <2>1, <2>2, IssuingPreserves DEF PutAuthChallenge
  <2> QED BY <1>1, <2>1, <2>3, IdleHolds, TablesKept DEF PutAuthChallenge
<1>2. ASSUME NEW d \in Device, NEW c \in DOMAIN issued, TakeAuthChallenge(r, d, c)
      PROVE  Inv' /\ Grows
  <2> DEFINE record == [op |-> "session", step |-> "verify", device |-> d,
                        value |-> challenge[d], signed |-> c]
  <2>1. /\ req' = [req EXCEPT ![r] = record] /\ req'[r] = record
        /\ \A x \in Request \ {r} : req'[x] = req[x]
    BY <1>0, <1>2 DEF TakeAuthChallenge, Begin
  <2>2. challenge[d] \in 1 .. Len(issued) /\ UNCHANGED <<issued, database, history, sessions>>
    BY <1>0, <1>2 DEF TakeAuthChallenge, MemoryTyped, history
  <2>3. Held(r)' = challenge[d] /\ \A x \in Request \ {r} : Held(x)' = Held(x)
    BY <2>1 DEF Held
  <2>4. RequestOK(r)'
    BY <2>1, <2>2 DEF RequestOK
  <2>5. MemoryInv'
    BY <1>2, <2>2, <2>3, TakingPreserves DEF TakeAuthChallenge, BurnChallenge
  <2> HIDE DEF record
  <2> QED BY <2>1, <2>2, <2>4, <2>5, TablesKept DEF history
<1>3. ASSUME MintSession(r) PROVE Inv' /\ Grows
  <2>1. /\ Held(r) = req[r].value /\ Held(r) # 0
        /\ req[r].device \in Device /\ row[req[r].device].there /\ Done(r)
    BY <1>0, <1>3 DEF MintSession, At, RequestOK, Held
  <2>2. sessions' \subseteq Registered'
    BY <1>0, <1>3, <2>1 DEF MintSession, MemoryTyped, Registered, database
  <2>3. MemoryInv'
    BY <1>3, <2>1, <2>2, IdleHolds, SpendingPreserves DEF MintSession
  <2> QED BY <1>3, <2>1, <2>3, IdleHolds, TablesKept DEF MintSession
<1> QED BY <1>1, <1>2, <1>3, SessionReads DEF SessionStep

LEMMA DropDevicePreserves ==
    ASSUME Inv, NEW r \in Request, DropDevice(r)
    PROVE  Inv' /\ Grows
<1>0. RequestOK(r) /\ MemoryTyped /\ MemoryInv /\ Len(issued) \in Nat
  BY LenProperties DEF Inv, RequestsInv, MemoryInv, MemoryTyped
<1>1. /\ req[r].target \in Device /\ Held(r) = 0 /\ Done(r)
      /\ challenge' = [challenge EXCEPT ![req[r].target] = 0] /\ sessions' \subseteq sessions
      /\ UNCHANGED <<database, rootChallenge, history>>
  BY <1>0 DEF DropDevice, At, RequestOK, Held
<1>2. /\ challenge' \in [Device -> 0 .. Len(issued)]
      /\ \A d \in Device : challenge'[d] \in {0, challenge[d]}
  BY <1>0, <1>1 DEF MemoryTyped
<1>3. MemoryInv'
  BY <1>0, <1>1, <1>2, IdleHolds, DroppingPreserves DEF history
<1> QED BY <1>1, <1>3, IdleHolds, TablesKept DEF history

LEMMA ForgettingPreserves ==
    ASSUME Inv,
           \/ \E d \in Device : ExpireSession(d) \/ ExpireChallenge(d)
           \/ ExpireRootChallenge
    PROVE  Inv' /\ Grows
<1>0. MemoryTyped /\ MemoryInv /\ Len(issued) \in Nat
  BY LenProperties DEF Inv, MemoryInv, MemoryTyped
<1>1. /\ UNCHANGED <<database, history, req>>
      /\ challenge' \in [Device -> 0 .. Len(issued)]
      /\ \A d \in Device : challenge'[d] \in {0, challenge[d]}
      /\ rootChallenge' \in {0, rootChallenge} /\ sessions' \subseteq sessions
  BY <1>0 DEF ExpireSession, ExpireChallenge, ExpireRootChallenge, MemoryTyped
<1>2. \A x \in Request : Held(x)' = Held(x)
  BY <1>1 DEF Held
<1>3. MemoryInv'
  BY <1>0, <1>1, <1>2, DroppingPreserves DEF history
<1> QED BY <1>1, <1>3, TablesKept DEF history

LEMMA RestartPreserves ==
    ASSUME Inv, Restart
    PROVE  Inv' /\ Grows
<1>0. MemoryTyped /\ MemoryInv /\ Len(issued) \in Nat
  BY LenProperties DEF Inv, MemoryInv, MemoryTyped
<1>1. /\ UNCHANGED <<database, history>>
      /\ DOMAIN req' = Request /\ \A x \in Request : req'[x] = Idle
      /\ challenge' \in [Device -> 0 .. Len(issued)]
      /\ \A d \in Device : challenge'[d] \in {0, challenge[d]}
      /\ rootChallenge' \in {0, rootChallenge} /\ sessions' \subseteq sessions
  BY <1>0 DEF Restart, MemoryTyped
<1>2. \A x \in Request : Held(x)' = 0 /\ RequestOK(x)'
  BY <1>1, IdleOK
<1>3. MemoryInv'
  BY <1>0, <1>1, <1>2, DroppingPreserves DEF history
<1>4. StoreInv' /\ Grows
  BY <1>0, <1>1, StoreQuiet, GrowsQuiet DEF Inv, history
<1> QED BY <1>1, <1>2, <1>3, <1>4 DEF Inv, RequestsInv

LEMMA IssueRootPreserves ==
    ASSUME Inv, IssueRootChallenge
    PROVE  Inv' /\ Grows
<1>1. \A x \in Request : Held(x)' = Held(x)
  BY DEF IssueRootChallenge, Held
<1>2. MemoryInv' /\ Len(issued)' = Len(issued) + 1
  BY <1>1, IssuingPreserves DEF IssueRootChallenge
<1> QED BY <1>2, TablesKept DEF IssueRootChallenge

LEMMA TakeRootPreserves ==
    ASSUME Inv, NEW r \in Request, NEW d \in Device, NEW c \in DOMAIN issued,
           TakeRootChallenge(r, d, c)
    PROVE  Inv' /\ Grows
<1> DEFINE record == [op |-> "reroot", step |-> "list", device |-> d, value |-> c]
<1>0. /\ MemoryTyped /\ MemoryInv /\ Len(issued) \in Nat /\ DOMAIN req = Request
      /\ UNCHANGED <<database, history, challenge, sessions>>
      /\ rootChallenge # 0 /\ rootChallenge' = 0
  BY LenProperties DEF Inv, RequestsInv, MemoryInv, MemoryTyped, TakeRootChallenge
<1>1. CASE c = rootChallenge
  <2>1. /\ req' = [req EXCEPT ![r] = record] /\ req'[r] = record
        /\ \A x \in Request \ {r} : req'[x] = req[x]
    BY <1>0, <1>1 DEF TakeRootChallenge, Continue
  <2>2. c \in 1 .. Len(issued) /\ UNCHANGED issued
    BY <1>0, <1>1 DEF MemoryTyped, history
  <2>3. Held(r)' = rootChallenge /\ \A x \in Request \ {r} : Held(x)' = Held(x)
    BY <1>1, <2>1 DEF Held
  <2>4. RequestOK(r)'
    BY <2>1, <2>2 DEF RequestOK
  <2>5. MemoryInv'
    BY <1>0, <2>3, TakingPreserves
  <2> HIDE DEF record
  <2> QED BY <1>0, <2>1, <2>2, <2>4, <2>5, TablesKept DEF history
<1>2. CASE c # rootChallenge
  <2>1. UNCHANGED req /\ \A x \in Request : Held(x)' = Held(x)
    BY <1>2 DEF TakeRootChallenge, Held
  <2>2. /\ challenge' \in [Device -> 0 .. Len(issued)]
        /\ \A e \in Device : challenge'[e] = challenge[e]
    BY <1>0 DEF MemoryTyped
  <2>3. MemoryInv'
    BY <1>0, <2>1, <2>2, DroppingPreserves DEF history
  <2> QED BY <1>0, <2>1, <2>3, TablesKept DEF history
<1> QED BY <1>1, <1>2

LEMMA DropAccountPreserves ==
    ASSUME Inv, NEW r \in Request, DropAccount(r)
    PROVE  Inv' /\ Grows
<1>0. MemoryTyped /\ MemoryInv /\ Len(issued) \in Nat
  BY LenProperties DEF Inv, MemoryInv, MemoryTyped
<1>1. /\ Held(r) = 0 /\ Done(r) /\ UNCHANGED <<database, history>>
      /\ challenge' \in [Device -> 0 .. Len(issued)]
      /\ \A d \in Device : challenge'[d] \in {0, challenge[d]}
      /\ rootChallenge' = 0 /\ sessions' \subseteq sessions
  BY <1>0 DEF DropAccount, At, Held, MemoryTyped
<1>2. MemoryInv'
  BY <1>0, <1>1, IdleHolds, DroppingPreserves DEF history
<1> QED BY <1>1, <1>2, IdleHolds, TablesKept DEF history

\* A step on the tables that only adds to them keeps the rest of the state.
LEMMA GrowingPreserves ==
    ASSUME Inv, Grows, StoreInv', UNCHANGED <<memory, issued>>, UNCHANGED used \/ MemoryInv',
           \/ UNCHANGED req
           \/ \E r \in Request : /\ req' = [req EXCEPT ![r] = req'[r]]
                                 /\ RequestOK(r)' /\ Held(r)' \in {0, Held(r)}
    PROVE  Inv'
<1>1. Len(issued)' \in Nat /\ row' \in [Device -> Row]
  BY LenProperties DEF Inv, MemoryInv, MemoryTyped, StoreInv, StoreTyped
<1>2. RequestsInv'
  BY <1>1, RequestsQuiet, RequestsKept
<1>3. MemoryInv'
  <2>1. \A x \in Request : Held(x)' = Held(x) \/ Held(x)' = 0
    <3>1. ASSUME NEW r \in Request, req' = [req EXCEPT ![r] = req'[r]],
                 Held(r)' \in {0, Held(r)}, NEW x \in Request
          PROVE  Held(x)' = Held(x) \/ Held(x)' = 0
      BY <3>1 DEF Held, Inv, RequestsInv
    <3>2. ASSUME UNCHANGED req, NEW x \in Request PROVE Held(x)' = Held(x)
      BY <3>2 DEF Held
    <3> QED BY <3>1, <3>2
  <2>2. sessions' \subseteq Registered'
    BY DEF Grows, Registered, Inv, MemoryInv, MemoryTyped, memory
  <2> QED BY <2>1, <2>2, MemoryKept DEF Inv, memory
<1> QED BY <1>2, <1>3 DEF Inv

\* A revocation that a chain runs over is never lifted.
LEMMA SoundKept ==
    ASSUME \A d \in Device : row[d].revoked => row'[d].revoked,
           NEW chain \in Seq(Device), NEW x, Sound(chain, x)
    PROVE  Head(chain) # x => \E i \in DOMAIN chain : row'[chain[i]].revoked
<1>1. \A i \in DOMAIN chain : chain[i] \in Device
  BY LenProperties, ElementOfSeq
<1> QED BY <1>1 DEF Sound

\* The issuer of a certified device is registered under the rest of the chain.
LEMMA IssuerLinks ==
    ASSUME ChainsLink, NEW e \in Device, row[e].there, row[e].chain # <<>>,
           NEW issuer, issuer = row[e].chain[Len(row[e].chain)]
    PROVE  row[issuer].there /\ row[issuer].chain = SubSeq(row[e].chain, 1, Len(row[e].chain) - 1)
  BY Zenon DEF ChainsLink

LEMMA CreateAccountPreserves ==
    ASSUME Inv, NEW d \in Device, CreateAccount(d)
    PROVE  Inv' /\ Grows
<1>0. /\ root' = d /\ row' = [row EXCEPT ![d] = Fresh(<<>>)] /\ <<>> \in Seq(Device)
      /\ StoreTyped /\ ChainsSound /\ PairingOnce /\ d # Nobody /\ Nobody \notin Device
  BY AccountAssumption DEF CreateAccount, Inv, StoreInv
<1>1. /\ \A e \in Device : ~row[e].there /\ ~row[e].revoked
      /\ statement = {} /\ statement' = {}
  BY <1>0 DEF CreateAccount, ChainsSound, StoreTyped, Registered
<1>2. \A s \in Slot : pairing[s].device = Nobody
  <2>1. \A s \in Slot : pairing[s].device \in Device \cup {Nobody}
    BY <1>0 DEF StoreTyped, Pairing
  <2> QED BY <1>0, <1>1, <2>1 DEF PairingOnce
<1>3. /\ row'[d].there /\ row'[d].chain = <<>> /\ ~row'[d].revoked
      /\ \A e \in Device \ {d} : row'[e] = row[e]
      /\ row' \in [Device -> Row]
  BY <1>0 DEF StoreTyped, Fresh, Row
<1>4. StoreTyped'
  BY <1>0, <1>1, <1>3 DEF StoreTyped, CreateAccount, history, Registered
<1>5. TrustAnchored'
  BY <1>0, <1>1, <1>3 DEF TrustAnchored, OneRoot, ChainsLink, RevokedIsProvable, Active
<1>6. ChainsSound'
  BY <1>0, <1>1, <1>3 DEF ChainsSound
<1>7. PairingOnce'
  <2>1. UNCHANGED <<pairing, delivered>>
    BY DEF CreateAccount, history
  <2> QED BY <1>0, <1>1, <1>2, <1>3, <2>1 DEF PairingOnce, Registered
<1>8. Grows
  <2>1. Len(issued)' = Len(issued) /\ Len(issued) \in Nat
    BY LenProperties DEF CreateAccount, history, Inv, MemoryInv, MemoryTyped
  <2> QED BY <1>1, <1>2, <2>1 DEF Grows
<1> QED BY <1>4, <1>5, <1>6, <1>7, <1>8, GrowingPreserves DEF StoreInv, CreateAccount, history

LEMMA AddRevocationPreserves ==
    ASSUME Inv, NEW r \in Request, AddRevocation(r)
    PROVE  Inv' /\ Grows
<1> DEFINE t == req[r].target
           record == [op |-> "revoke", step |-> "drop", target |-> t]
<1>0. /\ t \in Device /\ row[t].there
      /\ row' = [row EXCEPT ![t].revoked = TRUE] /\ statement' = statement \cup {t}
      /\ StoreTyped /\ TrustAnchored /\ ChainsSound /\ PairingOnce
      /\ UNCHANGED <<root, recovery, pairing, memory, history>>
  BY DEF AddRevocation, MarkRevoked, At, Inv, RequestsInv, RequestOK, StoreInv
<1>1. /\ row' \in [Device -> Row] /\ row'[t].revoked
      /\ \A e \in Device : /\ row'[e].there = row[e].there /\ row'[e].chain = row[e].chain
                           /\ row[e].revoked => row'[e].revoked
                           /\ e # t => row'[e] = row[e]
  BY <1>0 DEF StoreTyped, Row
<1>2. \A e \in Device : row[e].chain \in Seq(Device)
  BY <1>0 DEF StoreTyped, Row
<1>3. StoreTyped'
  BY <1>0, <1>1 DEF StoreTyped, Registered, history
<1>4. TrustAnchored'
  <2>1. OneRoot'
    <3>1. root \in Device \cup {Nobody}
      BY <1>0 DEF StoreTyped
    <3> QED BY <1>0, <1>1, <3>1 DEF TrustAnchored, OneRoot, Active
  <2>2. ASSUME NEW e \in Device, row'[e].there, row'[e].chain # <<>>,
               NEW issuer, issuer = row'[e].chain[Len(row'[e].chain)]
        PROVE  row'[issuer].there
               /\ row'[issuer].chain = SubSeq(row'[e].chain, 1, Len(row'[e].chain) - 1)
    <3>1. row[e].there /\ row[e].chain # <<>> /\ row'[e].chain = row[e].chain
      BY <1>1, <2>2
    <3>2. issuer \in Device
      BY <1>2, <2>2, <3>1, LenProperties, ElementOfSeq, EmptySeq
    <3>3. row[issuer].there /\ row[issuer].chain = SubSeq(row[e].chain, 1, Len(row[e].chain) - 1)
      <4>1. ChainsLink
        BY <1>0 DEF TrustAnchored
      <4> QED BY <2>2, <3>1, <4>1, IssuerLinks, Zenon
    <3> QED BY <1>1, <3>1, <3>2, <3>3
  <2>3. RevokedIsProvable'
    BY <1>0, <1>1 DEF TrustAnchored, RevokedIsProvable, LeadsToRoot, StoreTyped, Registered
  <2> QED BY <2>1, <2>2, <2>3 DEF TrustAnchored, ChainsLink
<1>6. ChainsSound'
  <2>1. root' = Nobody => Registered' = {}
    BY <1>0, <1>1 DEF ChainsSound, Registered
  <2>2. \A e \in Device : row[e].chain # <<>> => Head(row[e].chain) \in Device
    BY <1>2, HeadTailProperties
  <2>3. ASSUME NEW e \in Device, row'[e].there, row'[e].chain # <<>>
        PROVE  row'[Head(row'[e].chain)].there /\ Sound(row[e].chain, root)'
    <3>1. row[e].there /\ row[e].chain # <<>> /\ row'[e].chain = row[e].chain
      BY <1>1, <2>3
    <3>2. row[Head(row[e].chain)].there /\ Sound(row[e].chain, root)
      BY <1>0, <3>1 DEF ChainsSound
    <3>3. Head(row[e].chain) # root => \E i \in DOMAIN row[e].chain : row'[row[e].chain[i]].revoked
      <4>1. \A d \in Device : row[d].revoked => row'[d].revoked
        BY <1>1
      <4>2. row[e].chain \in Seq(Device)
        BY <1>2
      <4> QED BY <3>2, <4>1, <4>2, SoundKept
    <3> QED BY <1>0, <1>1, <2>2, <3>1, <3>2, <3>3, Zenon DEF Sound
  <2>4. \A e \in Device : row'[e].revoked => row'[e].there
    BY <1>0, <1>1 DEF ChainsSound
  <2> QED BY <2>1, <2>3, <2>4 DEF ChainsSound
<1>7. PairingOnce'
  <2>1. /\ UNCHANGED <<pairing, delivered>>
        /\ \A s \in Slot : /\ pairing[s].chain \in Seq(Device)
                            /\ pairing[s].device \in Device \cup {Nobody}
    BY <1>0 DEF StoreTyped, Pairing, history
  <2>2. \A s \in Slot : \A i \in DOMAIN pairing[s].chain : pairing[s].chain[i] \in Device
    BY <2>1, LenProperties, ElementOfSeq
  <2> QED BY <1>0, <1>1, <2>1, <2>2 DEF PairingOnce, Registered
<1>8. Grows
  <2>1. Len(issued)' = Len(issued) /\ Len(issued) \in Nat
    BY <1>0, LenProperties DEF history, Inv, MemoryInv, MemoryTyped
  <2> QED BY <1>0, <1>1, <2>1 DEF Grows, LeadsToRoot
<1>9. req' = [req EXCEPT ![r] = record] /\ req'[r] = record
  BY DEF AddRevocation, Continue, Inv, RequestsInv
<1>10. RequestOK(r)' /\ Held(r)' = 0
  BY <1>0, <1>1, <1>9 DEF RequestOK, Held
<1> HIDE DEF record
<1> QED BY <1>0, <1>3, <1>4, <1>6, <1>7, <1>8, <1>9, <1>10, GrowingPreserves DEF StoreInv, history

LEMMA UpsertPreserves ==
    ASSUME Inv, NEW r \in Request, UpsertRecoveryBlob(r)
    PROVE  Inv' /\ Grows
<1>1. /\ UNCHANGED <<root, row, statement, pairing, memory, history>> /\ recovery' = TRUE
      /\ Done(r)
  BY DEF UpsertRecoveryBlob
<1>2. StoreInv'
  BY <1>1 DEF Inv, StoreInv, StoreTyped, TrustAnchored, OneRoot, ChainsLink, RevokedIsProvable,
         ChainsSound, PairingOnce, Sound, LeadsToRoot, Active, Registered, history
<1>3. Grows
  BY <1>1, LenProperties DEF Grows, LeadsToRoot, history, Inv, MemoryInv, MemoryTyped
<1>4. req' = [req EXCEPT ![r] = Idle] /\ Held(r)' = 0 /\ req'[r] = Idle
  BY <1>1, IdleHolds DEF Inv, RequestsInv
<1>5. RequestOK(r)'
  BY <1>4, IdleOK
<1> QED BY <1>1, <1>2, <1>3, <1>4, <1>5, GrowingPreserves DEF history

LEMMA ReplaceRootPreserves ==
    ASSUME Inv, NEW r \in Request, ReplaceRoot(r)
    PROVE  Inv' /\ Grows
<1> DEFINE n == req[r].device
           record == [op |-> "reroot", step |-> "drop", listed |-> req[r].listed]
<1>0. /\ StoreTyped /\ TrustAnchored /\ ChainsSound /\ PairingOnce
      /\ n \in Device /\ ~row[n].there /\ root' = n /\ n # Nobody
      /\ row' = [d \in Device |->
                   IF d = n THEN Fresh(<<>>) ELSE [row[d] EXCEPT !.revoked = row[d].there]]
      /\ used' = [used EXCEPT ![req[r].value] = @ + 1]
      /\ UNCHANGED <<statement, recovery, pairing, memory, issued, delivered>>
  BY AccountAssumption
     DEF ReplaceRoot, Replaceable, At, Inv, RequestsInv, RequestOK, StoreInv
<1>1. /\ row'[n].there /\ row'[n].chain = <<>> /\ ~row'[n].revoked
      /\ \A e \in Device \ {n} : /\ row'[e].there = row[e].there
                                 /\ row'[e].chain = row[e].chain
                                 /\ row'[e].revoked = row[e].there
  BY <1>0 DEF StoreTyped, Fresh, Row
<1>2. row' \in [Device -> Row]
  <2>1. <<>> \in Seq(Device)
    BY EmptySeq
  <2>2. Fresh(<<>>) \in Row
    BY <2>1 DEF Fresh, Row
  <2>3. \A e \in Device : [row[e] EXCEPT !.revoked = row[e].there] \in Row
    BY <1>0 DEF StoreTyped, Row
  <2> QED BY <1>0, <2>2, <2>3
<1>3. \A e \in Device : /\ row[e].there => e # n
                        /\ row[e].revoked => row[e].there /\ row'[e].revoked
                        /\ row[e].chain \in Seq(Device)
  BY <1>0, <1>1 DEF ChainsSound, StoreTyped, Row
<1>4. ASSUME NEW e \in Device, row[e].there, row[e].chain # <<>>
      PROVE  /\ Head(row[e].chain) \in Device /\ row[Head(row[e].chain)].there
             /\ Head(row[e].chain) # n
             /\ row[e].chain[Len(row[e].chain)] \in Device
             /\ 1 \in DOMAIN row[e].chain /\ row[e].chain[1] = Head(row[e].chain)
  <2>1. row[e].chain \in Seq(Device) /\ Len(row[e].chain) \in Nat \ {0}
    BY <1>3, <1>4, EmptySeq
  <2>2. Head(row[e].chain) \in Device /\ row[e].chain[Len(row[e].chain)] \in Device
    BY <1>4, <2>1, HeadTailProperties, ElementOfSeq
  <2>3. 1 \in DOMAIN row[e].chain /\ row[e].chain[1] = Head(row[e].chain)
    BY <2>1, LenProperties
  <2> QED BY <1>0, <1>4, <2>2, <2>3 DEF ChainsSound
<1>5. StoreTyped'
  <2>1. statement' \subseteq Registered'
    BY <1>0, <1>1, <1>3 DEF StoreTyped, Registered
  <2> QED BY <1>0, <1>2, <2>1 DEF StoreTyped
<1>6. TrustAnchored'
  <2>1. OneRoot'
    BY <1>0, <1>1 DEF OneRoot, Active
  <2>2. ASSUME NEW e \in Device, row'[e].there, row'[e].chain # <<>>,
               NEW issuer, issuer = row'[e].chain[Len(row'[e].chain)]
        PROVE  row'[issuer].there
               /\ row'[issuer].chain = SubSeq(row'[e].chain, 1, Len(row'[e].chain) - 1)
    <3>1. e # n /\ row[e].there /\ row[e].chain # <<>> /\ row'[e].chain = row[e].chain
      BY <1>1, <2>2
    <3>2. issuer \in Device
      BY <1>4, <2>2, <3>1
    <3>3. row[issuer].there /\ row[issuer].chain = SubSeq(row[e].chain, 1, Len(row[e].chain) - 1)
      <4>1. ChainsLink
        BY <1>0 DEF TrustAnchored
      <4> QED BY <2>2, <3>1, <4>1, IssuerLinks, Zenon
    <3> QED BY <1>1, <1>3, <3>1, <3>2, <3>3
  <2>3. \A e \in Device : ~(row'[e].revoked /\ LeadsToRoot(e)')
    BY <1>0, <1>1, <1>4 DEF LeadsToRoot
  <2>4. \A e \in statement' : row'[e].revoked
    BY <1>0, <1>3 DEF TrustAnchored, RevokedIsProvable, StoreTyped, Registered
  <2> QED BY <2>1, <2>2, <2>3, <2>4 DEF TrustAnchored, ChainsLink, RevokedIsProvable
<1>7. ChainsSound'
  <2>1. ASSUME NEW e \in Device, row'[e].there, row'[e].chain # <<>>
        PROVE  row'[Head(row'[e].chain)].there /\ Sound(row[e].chain, root)'
    <3>1. e # n /\ row[e].there /\ row[e].chain # <<>> /\ row'[e].chain = row[e].chain
      BY <1>1, <2>1
    <3> QED BY <1>1, <1>4, <3>1 DEF Sound
  <2>2. \A e \in Device : row'[e].revoked => row'[e].there
    BY <1>1
  <2> QED BY <1>0, <2>1, <2>2 DEF ChainsSound
<1>8. PairingOnce'
  <2>1. \A s \in Slot : /\ pairing[s].chain \in Seq(Device)
                        /\ pairing[s].device \in Device \cup {Nobody}
    BY <1>0 DEF StoreTyped, Pairing
  <2>2. \A d \in Registered' : row'[d].chain # <<>> => d \in Registered /\ row[d].chain # <<>>
    BY <1>1 DEF Registered
  <2>3. \A s \in Slot : pairing[s].device # Nobody => pairing[s].device \in Device \ {n}
    BY <1>0, <2>1 DEF PairingOnce
  <2>4. \A d \in Registered' : row'[d].chain # <<>> => \E s \in Slot : pairing[s].device = d
    BY <1>0, <2>2 DEF PairingOnce
  <2>5. ASSUME NEW s \in Slot, pairing[s].device # Nobody
        PROVE  /\ row'[pairing[s].device].there
               /\ row'[pairing[s].device].chain = pairing[s].chain
               /\ Head(pairing[s].chain) # pairing[s].root =>
                    \E i \in DOMAIN pairing[s].chain : row'[pairing[s].chain[i]].revoked
               /\ \A t \in Slot \ {s} : pairing[t].device # pairing[s].device
    <3>1. /\ row[pairing[s].device].there
          /\ row[pairing[s].device].chain = pairing[s].chain
          /\ Sound(pairing[s].chain, pairing[s].root)
          /\ \A t \in Slot \ {s} : pairing[t].device # pairing[s].device
      BY <1>0, <2>5 DEF PairingOnce, Sound
    <3>2. pairing[s].device \in Device \ {n} /\ pairing[s].chain \in Seq(Device)
      BY <2>1, <2>3, <2>5
    <3>3. Head(pairing[s].chain) # pairing[s].root =>
            \E i \in DOMAIN pairing[s].chain : row'[pairing[s].chain[i]].revoked
      BY <1>3, <3>1, <3>2, SoundKept
    <3> QED BY <1>1, <3>1, <3>2, <3>3
  <2>6. UNCHANGED <<pairing, delivered>>
    BY <1>0
  <2>7. \A s \in Slot : /\ delivered[s] = IF pairing[s].claimed THEN 1 ELSE 0
                        /\ pairing[s].claimed => pairing[s].device # Nobody
    BY <1>0 DEF PairingOnce
  <2> QED BY <2>4, <2>5, <2>6, <2>7 DEF PairingOnce
<1>9. Grows
  <2>1. Len(issued)' = Len(issued) /\ Len(issued) \in Nat
    BY <1>0, LenProperties DEF Inv, MemoryInv, MemoryTyped
  <2>2. \A d \in Device : row[d].there => ~LeadsToRoot(d)'
    BY <1>0, <1>1, <1>3, <1>4 DEF LeadsToRoot
  <2> QED BY <1>0, <1>1, <1>3, <2>1, <2>2 DEF Grows
<1>10. req' = [req EXCEPT ![r] = record] /\ req'[r] = record
       /\ \A x \in Request \ {r} : req'[x] = req[x]
  BY DEF ReplaceRoot, Continue, Inv, RequestsInv
<1>11. RequestOK(r)' /\ Held(r)' = 0
  BY <1>10 DEF RequestOK, Held
<1>12. MemoryInv'
  <2>1. Held(r) = req[r].value /\ Held(r) # 0
    BY DEF ReplaceRoot, At, Held, Inv, RequestsInv, RequestOK
  <2>2. \A x \in Request \ {r} : Held(x)' = Held(x)
    BY <1>10 DEF Held
  <2>3. sessions' \subseteq Registered'
    BY <1>0, <1>1, <1>3 DEF Registered, Inv, MemoryInv, MemoryTyped, memory
  <2> QED BY <1>0, <1>11, <2>1, <2>2, <2>3, SpendingPreserves DEF memory
<1> HIDE DEF record
<1> QED BY <1>0, <1>5, <1>6, <1>7, <1>8, <1>9, <1>10, <1>11, <1>12, GrowingPreserves DEF StoreInv

\* A pairing session begins, expires or is claimed: the devices stay.
LEMMA SlotPreserves ==
    ASSUME StoreInv, NEW s \in Slot, NEW new \in Pairing,
           UNCHANGED <<root, row, statement, recovery>>, pairing' = [pairing EXCEPT ![s] = new],
           new.device = pairing[s].device, new.chain = pairing[s].chain, new.root = pairing[s].root,
           delivered' \in [Slot -> Nat],
           \A t \in Slot \ {s} : delivered'[t] = delivered[t],
           delivered'[s] = IF new.claimed THEN 1 ELSE 0,
           new.claimed => new.device # Nobody
    PROVE  StoreInv'
<1>1. /\ pairing'[s] = new /\ pairing' \in [Slot -> Pairing]
      /\ \A t \in Slot \ {s} : pairing'[t] = pairing[t]
  BY DEF StoreInv, StoreTyped
<1>2. StoreTyped' /\ TrustAnchored' /\ ChainsSound'
  BY <1>1 DEF StoreInv, StoreTyped, TrustAnchored, OneRoot, ChainsLink, RevokedIsProvable,
         ChainsSound, Sound, LeadsToRoot, Active, Registered
<1>3. PairingOnce'
  <2>1. \A t \in Slot : /\ pairing'[t].device = pairing[t].device
                        /\ pairing'[t].chain = pairing[t].chain
                        /\ pairing'[t].root = pairing[t].root
    BY <1>1
  <2>2. \A t \in Slot : /\ delivered'[t] = IF pairing'[t].claimed THEN 1 ELSE 0
                        /\ pairing'[t].claimed => pairing'[t].device # Nobody
    BY <1>1 DEF StoreInv, PairingOnce
  <2> QED BY <2>1, <2>2 DEF StoreInv, PairingOnce, Registered
<1> QED BY <1>2, <1>3 DEF StoreInv

LEMMA BeginPreserves ==
    ASSUME Inv, NEW s \in Slot, BeginPairing(s) \/ ExpirePairing(s)
    PROVE  Inv' /\ Grows
<1>1. PICK new \in Pairing :
        /\ pairing' = [pairing EXCEPT ![s] = new]
        /\ new.device = pairing[s].device /\ new.chain = pairing[s].chain
        /\ new.root = pairing[s].root /\ new.claimed = pairing[s].claimed
  <2>1. pairing[s] \in Pairing
    BY DEF Inv, StoreInv, StoreTyped
  <2>2. CASE BeginPairing(s)
    <3>1. [pairing[s] EXCEPT !.begun = TRUE] \in Pairing
      BY <2>1 DEF Pairing
    <3>2. pairing' = [pairing EXCEPT ![s] = [pairing[s] EXCEPT !.begun = TRUE]]
      BY <2>2 DEF BeginPairing
    <3> QED BY <2>1, <3>1, <3>2 DEF Pairing
  <2>3. CASE ExpirePairing(s)
    <3>1. [pairing[s] EXCEPT !.expired = TRUE] \in Pairing
      BY <2>1 DEF Pairing
    <3>2. pairing' = [pairing EXCEPT ![s] = [pairing[s] EXCEPT !.expired = TRUE]]
      BY <2>3 DEF ExpirePairing
    <3> QED BY <2>1, <3>1, <3>2 DEF Pairing
  <2> QED BY <2>2, <2>3
<1>2. UNCHANGED <<root, row, statement, recovery, memory, history, req>>
  BY DEF BeginPairing, ExpirePairing
<1>3. delivered \in [Slot -> Nat] /\ delivered[s] = (IF new.claimed THEN 1 ELSE 0)
      /\ (new.claimed => new.device # Nobody)
  BY <1>1 DEF Inv, StoreInv, StoreTyped, PairingOnce
<1>4. StoreInv'
  BY <1>1, <1>2, <1>3, SlotPreserves DEF Inv, history
<1>5. Grows
  BY <1>1, <1>2, LenProperties
     DEF Grows, LeadsToRoot, history, Inv, StoreInv, StoreTyped, MemoryInv, MemoryTyped
<1> QED BY <1>2, <1>4, <1>5, GrowingPreserves DEF history

LEMMA ClaimPreserves ==
    ASSUME Inv, NEW r \in Request, ClaimPairingSession(r)
    PROVE  Inv' /\ Grows
<1> DEFINE s == req[r].slot
<1>0. /\ s \in Slot /\ pairing[s].device # Nobody /\ pairing[s] \in Pairing
      /\ delivered \in [Slot -> Nat] /\ pairing \in [Slot -> Pairing]
      /\ UNCHANGED <<root, row, statement, recovery, memory, issued, used>> /\ Done(r)
  BY DEF ClaimPairingSession, At, Inv, RequestsInv, RequestOK, StoreInv, StoreTyped
<1>1. req' = [req EXCEPT ![r] = req'[r]] /\ req'[r] = Idle /\ Held(r)' = 0
  BY <1>0, IdleHolds DEF Inv, RequestsInv
<1>2. RequestOK(r)'
  BY <1>1, IdleOK
<1>3. CASE Claimable(s)
  <2> DEFINE new == [pairing[s] EXCEPT !.claimed = TRUE]
  <2>1. /\ new \in Pairing /\ new.claimed /\ new.device = pairing[s].device
        /\ new.chain = pairing[s].chain /\ new.root = pairing[s].root
    BY <1>0 DEF Pairing
  <2>2. /\ pairing' = [pairing EXCEPT ![s] = new]
        /\ delivered' = [delivered EXCEPT ![s] = @ + 1]
    BY <1>3 DEF ClaimPairingSession
  <2>3. delivered[s] = 0
    BY <1>0, <1>3 DEF Claimable, Inv, StoreInv, PairingOnce
  <2>4. /\ delivered' \in [Slot -> Nat] /\ delivered'[s] = 1
        /\ \A t \in Slot \ {s} : delivered'[t] = delivered[t]
    BY <1>0, <2>2, <2>3
  <2> HIDE DEF new, s
  <2>5. StoreInv'
    BY <1>0, <2>1, <2>2, <2>4, SlotPreserves DEF Inv
  <2>6. Grows
    BY <1>0, <2>1, <2>2, LenProperties DEF Grows, LeadsToRoot, Inv, MemoryInv, MemoryTyped
  <2> QED BY <1>0, <1>1, <1>2, <2>5, <2>6, GrowingPreserves
<1>4. CASE ~Claimable(s)
  <2>1. UNCHANGED <<pairing, delivered>>
    BY <1>4 DEF ClaimPairingSession
  <2>2. StoreInv' /\ Grows
    BY <1>0, <2>1, LenProperties, StoreQuiet, GrowsQuiet
       DEF database, Inv, MemoryInv, MemoryTyped
  <2> QED BY <1>0, <1>1, <1>2, <2>2, GrowingPreserves
<1> QED BY <1>3, <1>4

\* A new device under the chain of its issuer, in a slot that has no offer.
LEMMA OfferKeepsStore ==
    ASSUME StoreInv, NEW s \in Slot, NEW i \in Device, NEW n \in Device, NEW chain,
           NEW from \in Device \cup {Nobody}, NEW slot \in Pairing,
           row[i].there, chain = Append(row[i].chain, i), Sound(chain, from),
           pairing[s].device = Nobody, ~row[n].there,
           slot.device = n, slot.chain = chain, slot.root = from,
           slot.claimed = pairing[s].claimed,
           pairing' = [pairing EXCEPT ![s] = slot], row' = [row EXCEPT ![n] = Fresh(chain)],
           UNCHANGED <<root, statement, recovery, delivered>>
    PROVE  /\ StoreInv'
           /\ \A e \in Device : row[e].there => /\ row'[e] = row[e]
                                                /\ ~LeadsToRoot(e) => ~LeadsToRoot(e)'
           /\ \A e \in Device : row[e].revoked => row'[e].revoked
           /\ \A t \in Slot : pairing[t].device # Nobody => pairing'[t] = pairing[t]
<1>0. /\ StoreTyped /\ TrustAnchored /\ ChainsSound /\ PairingOnce /\ n # Nobody
      /\ row[i].chain \in Seq(Device)
  BY AccountAssumption DEF StoreInv, StoreTyped, Row
<1>1. /\ chain \in Seq(Device) /\ chain # <<>> /\ row[Head(chain)].there /\ Sound(chain, root)
      /\ chain[Len(row[i].chain) + 1] = i /\ Len(chain) = Len(row[i].chain) + 1
      /\ SubSeq(chain, 1, Len(row[i].chain)) = row[i].chain
      /\ Head(chain) \in Device /\ Len(row[i].chain) \in Nat
      /\ \A k \in DOMAIN chain : chain[k] \in Device
  <2>1. chain \in Seq(Device) /\ chain # <<>> /\ row[Head(chain)].there /\ Sound(chain, root)
    BY <1>0, OfferSound DEF Inv
  <2>2. /\ chain[Len(row[i].chain) + 1] = i /\ Len(chain) = Len(row[i].chain) + 1
        /\ SubSeq(chain, 1, Len(row[i].chain)) = row[i].chain
    BY <1>0, AppendedChain
  <2>3. Head(chain) \in Device /\ \A k \in DOMAIN chain : chain[k] \in Device
    BY <2>1, HeadTailProperties, LenProperties, ElementOfSeq
  <2> QED BY <1>0, <2>1, <2>2, <2>3, LenProperties
<1>2. /\ row'[n].there /\ row'[n].chain = chain /\ ~row'[n].revoked
      /\ \A e \in Device \ {n} : row'[e] = row[e]
      /\ row' \in [Device -> Row]
  <2>1. Fresh(chain) \in Row
    BY <1>1 DEF Fresh, Row
  <2> QED BY <1>0, <2>1 DEF StoreTyped, Fresh
<1>3. \A e \in Device : /\ row[e].there => e # n
                        /\ row[e].revoked => row[e].there /\ row'[e].revoked
                        /\ row[e].chain \in Seq(Device)
  BY <1>0, <1>2 DEF ChainsSound, StoreTyped, Row
<1>4. ASSUME NEW e \in Device, row[e].chain # <<>>
      PROVE  Head(row[e].chain) \in Device /\ row[e].chain[Len(row[e].chain)] \in Device
  BY <1>3, <1>4, HeadTailProperties, LenProperties, ElementOfSeq, EmptySeq
<1>5. /\ pairing'[s].device = n /\ pairing'[s].chain = chain /\ pairing'[s].root = from
      /\ pairing'[s].claimed = pairing[s].claimed
      /\ \A t \in Slot \ {s} : pairing'[t] = pairing[t]
      /\ pairing' \in [Slot -> Pairing]
  BY <1>0 DEF StoreTyped
<1>6. StoreTyped'
  <2>1. \A e \in Device : row[e].there => row'[e].there
    BY <1>2, <1>3
  <2>2. statement' \subseteq Registered'
    BY <1>0, <2>1 DEF StoreTyped, Registered
  <2> QED BY <1>0, <1>2, <1>5, <2>2 DEF StoreTyped
<1>7. TrustAnchored'
  <2>1. OneRoot'
    <3>1. root # Nobody => root \in Device /\ row'[root] = row[root]
      BY <1>0, <1>2, <1>3 DEF StoreTyped, TrustAnchored, OneRoot
    <3> QED BY <1>0, <1>1, <1>2, <3>1 DEF TrustAnchored, OneRoot, Active
  <2>2. ASSUME NEW e \in Device, row'[e].there, row'[e].chain # <<>>,
               NEW issuer, issuer = row'[e].chain[Len(row'[e].chain)]
        PROVE  row'[issuer].there
               /\ row'[issuer].chain = SubSeq(row'[e].chain, 1, Len(row'[e].chain) - 1)
    <3>1. CASE e = n
      <4>1. issuer = i /\ Len(row'[e].chain) - 1 = Len(row[i].chain)
        BY <1>1, <1>2, <2>2, <3>1
      <4>2. row'[i] = row[i]
        BY <1>0, <1>2, <1>3
      <4> QED BY <1>0, <1>1, <1>2, <3>1, <4>1, <4>2
    <3>2. CASE e # n
      <4>1. row'[e] = row[e] /\ issuer \in Device
        BY <1>2, <1>4, <2>2, <3>2
      <4>2. row[issuer].there /\ row[issuer].chain = SubSeq(row[e].chain, 1, Len(row[e].chain) - 1)
        <5>1. ChainsLink
          BY <1>0 DEF TrustAnchored
        <5> QED BY <2>2, <4>1, <5>1, IssuerLinks, Zenon
      <4> QED BY <1>2, <1>3, <4>1, <4>2
    <3> QED BY <3>1, <3>2
  <2>3. RevokedIsProvable'
    <3>1. \A e \in Device : row'[e].revoked => e # n /\ row'[e] = row[e]
      BY <1>2
    <3>2. \A e \in statement : e \in Device /\ row[e].revoked
      BY <1>0 DEF StoreTyped, Registered, TrustAnchored, RevokedIsProvable
    <3>3. \A e \in statement' : row'[e].revoked
      BY <1>3, <3>2, Zenon
    <3> QED BY <1>0, <3>1, <3>3, Zenon DEF TrustAnchored, RevokedIsProvable, LeadsToRoot
  <2> QED BY <2>1, <2>2, <2>3, Zenon DEF TrustAnchored, ChainsLink
<1>8. ChainsSound'
  <2>1. ASSUME NEW e \in Device, row'[e].there, row'[e].chain # <<>>
        PROVE  row'[Head(row'[e].chain)].there
               /\ (Head(row'[e].chain) # root =>
                     \E k \in DOMAIN row'[e].chain : row'[row'[e].chain[k]].revoked)
    <3>1. CASE e = n
      <4>1. Head(chain) # root => \E k \in DOMAIN chain : row'[chain[k]].revoked
        BY <1>1, <1>3, SoundKept
      <4> QED BY <1>1, <1>2, <1>3, <3>1, <4>1
    <3>2. CASE e # n
      <4>1. row'[e] = row[e] /\ row[e].there /\ row[e].chain # <<>>
        BY <1>2, <2>1, <3>2
      <4>2. row[Head(row[e].chain)].there /\ Sound(row[e].chain, root)
        BY <1>0, <4>1 DEF ChainsSound
      <4>3. Head(row[e].chain) # root =>
              \E k \in DOMAIN row[e].chain : row'[row[e].chain[k]].revoked
        BY <1>3, <4>2, SoundKept
      <4> QED BY <1>2, <1>3, <1>4, <4>1, <4>2, <4>3
    <3> QED BY <3>1, <3>2
  <2>2. root' = root /\ root # Nobody
    BY <1>0 DEF ChainsSound, Registered
  <2>3. \A e \in Device : row'[e].revoked => row'[e].there
    BY <1>2, <1>3
  <2> QED BY <2>1, <2>2, <2>3, SMTT(20) DEF ChainsSound, Sound
<1>9. PairingOnce'
  <2>1. \A e \in Registered' : row'[e].chain # <<>> => \E t \in Slot : pairing'[t].device = e
    <3>1. ASSUME NEW e \in Registered', row'[e].chain # <<>>, e # n
          PROVE  \E t \in Slot : pairing'[t].device = e
      <4>1. e \in Registered /\ row[e].chain # <<>> /\ e # Nobody
        BY <1>2, <3>1, AccountAssumption DEF Registered
      <4>2. PICK t \in Slot : pairing[t].device = e
        BY <1>0, <4>1 DEF PairingOnce
      <4> QED BY <1>5, <4>1, <4>2
    <3> QED BY <1>0, <1>5, <3>1
  <2>2. ASSUME NEW t \in Slot
        PROVE  /\ delivered[t] = IF pairing'[t].claimed THEN 1 ELSE 0
               /\ pairing'[t].claimed => pairing'[t].device # Nobody
    BY <1>0, <1>5 DEF PairingOnce
  <2>3. ASSUME NEW t \in Slot, t # s, pairing[t].device # Nobody
        PROVE  /\ pairing'[t] = pairing[t]
               /\ pairing[t].device # n
               /\ row'[pairing[t].device].there
               /\ row'[pairing[t].device].chain = pairing[t].chain
               /\ Head(pairing[t].chain) # pairing[t].root =>
                    \E k \in DOMAIN pairing[t].chain : row'[pairing[t].chain[k]].revoked
               /\ \A u \in Slot \ {t} : pairing'[u].device # pairing[t].device
    <3>1. /\ pairing[t].device \in Device /\ pairing[t].chain \in Seq(Device)
          /\ pairing'[t] = pairing[t]
      BY <1>0, <1>5, <2>3 DEF StoreTyped, Pairing
    <3>2. /\ row[pairing[t].device].there
          /\ row[pairing[t].device].chain = pairing[t].chain
          /\ Sound(pairing[t].chain, pairing[t].root)
          /\ \A u \in Slot \ {t} : pairing[u].device # pairing[t].device
      BY <1>0, <2>3 DEF PairingOnce, Sound
    <3>3. Head(pairing[t].chain) # pairing[t].root =>
            \E k \in DOMAIN pairing[t].chain : row'[pairing[t].chain[k]].revoked
      BY <1>3, <3>1, <3>2, SoundKept
    <3>4. pairing[t].device # n
      BY <3>2
    <3> QED BY <1>2, <1>5, <3>1, <3>2, <3>3, <3>4
  <2>4. /\ row'[n].there /\ row'[n].chain = chain
        /\ Head(chain) # from => \E k \in DOMAIN chain : row'[chain[k]].revoked
        /\ \A u \in Slot \ {s} : pairing'[u].device # n
    <3>1. Head(chain) # from => \E k \in DOMAIN chain : row'[chain[k]].revoked
      BY <1>0, <1>1, <1>3, SoundKept
    <3>2. ASSUME NEW u \in Slot \ {s} PROVE pairing'[u].device # n
      BY <1>0, <1>5, <2>3
    <3> QED BY <1>2, <3>1, <3>2
  <2>5. delivered' = delivered
    BY <1>0 DEF history
  <2>6. ASSUME NEW t \in Slot, pairing'[t].device # Nobody
        PROVE  /\ row'[pairing'[t].device].there
               /\ row'[pairing'[t].device].chain = pairing'[t].chain
               /\ Head(pairing'[t].chain) # pairing'[t].root =>
                    \E k \in DOMAIN pairing'[t].chain : row'[pairing'[t].chain[k]].revoked
               /\ \A u \in Slot \ {t} : pairing'[u].device # pairing'[t].device
    <3>1. CASE t = s
      BY <1>5, <2>4, <3>1
    <3>2. CASE t # s
      <4>1. pairing'[t] = pairing[t]
        BY <1>5, <3>2
      <4> QED BY <2>3, <2>6, <3>2, <4>1
    <3> QED BY <3>1, <3>2
  <2> QED BY <2>1, <2>2, <2>5, <2>6 DEF PairingOnce
<1>10. \A e \in Device : row[e].there => row'[e] = row[e] /\ (~LeadsToRoot(e) => ~LeadsToRoot(e)')
  BY <1>0, <1>2, <1>3 DEF LeadsToRoot
<1> QED BY <1>3, <1>5, <1>6, <1>7, <1>8, <1>9, <1>10 DEF StoreInv

LEMMA OfferPreserves ==
    ASSUME Inv, NEW r \in Request, SetPairingOfferWithDevice(r)
    PROVE  Inv' /\ Grows
<1> DEFINE q == req[r]
           slot == [pairing[q.slot] EXCEPT !.device = q.new, !.chain = q.chain, !.root = q.root]
<1>0. /\ q.slot \in Slot /\ q.device \in Device /\ q.new \in Device
      /\ row[q.device].there /\ row[q.device].chain \in Seq(Device)
      /\ q.chain = Append(row[q.device].chain, q.device)
      /\ q.root \in Device \cup {Nobody} /\ Sound(q.chain, q.root)
      /\ UNCHANGED <<root, statement, recovery, memory, history>> /\ Done(r)
  BY DEF SetPairingOfferWithDevice, At, Inv, RequestsInv, RequestOK, StoreInv, StoreTyped, Row
<1>1. req' = [req EXCEPT ![r] = req'[r]] /\ req'[r] = Idle /\ Held(r)' = 0
  BY <1>0, IdleHolds DEF Inv, RequestsInv
<1>2. RequestOK(r)'
  BY <1>1, IdleOK
<1>3. Len(issued)' = Len(issued) /\ Len(issued) \in Nat
  BY <1>0, LenProperties DEF history, Inv, MemoryInv, MemoryTyped
<1>4. CASE ~OfferFits(r)
  <2>1. UNCHANGED <<pairing, row>>
    BY <1>4 DEF SetPairingOfferWithDevice
  <2>2. StoreInv' /\ Grows
    BY <1>0, <1>3, <2>1, StoreQuiet, GrowsQuiet DEF database, history, Inv
  <2> QED BY <1>0, <1>1, <1>2, <2>2, GrowingPreserves DEF history
<1>5. CASE OfferFits(r)
  <2>1. /\ pairing[q.slot].device = Nobody /\ ~row[q.new].there /\ pairing[q.slot] \in Pairing
        /\ pairing' = [pairing EXCEPT ![q.slot] = slot]
        /\ row' = [row EXCEPT ![q.new] = Fresh(q.chain)]
    BY <1>0, <1>5 DEF OfferFits, SetPairingOfferWithDevice, Inv, StoreInv, StoreTyped
  <2>2. q.chain \in Seq(Device)
    BY <1>0, AppendedChain
  <2>3. /\ slot \in Pairing /\ slot.device = q.new /\ slot.chain = q.chain /\ slot.root = q.root
        /\ slot.claimed = pairing[q.slot].claimed
    BY <1>0, <2>1, <2>2, Zenon DEF Pairing
  <2>4. UNCHANGED <<delivered, issued, used>>
    BY <1>0 DEF history
  <2> HIDE DEF slot, q
  <2>5. /\ StoreInv'
        /\ \A e \in Device : row[e].there => /\ row'[e] = row[e]
                                             /\ ~LeadsToRoot(e) => ~LeadsToRoot(e)'
        /\ \A e \in Device : row[e].revoked => row'[e].revoked
        /\ \A t \in Slot : pairing[t].device # Nobody => pairing'[t] = pairing[t]
    BY <1>0, <2>1, <2>3, <2>4, OfferKeepsStore DEF Inv
  <2>6. Grows
    BY <1>0, <1>3, <2>5 DEF Grows
  <2> QED BY <1>0, <1>1, <1>2, <2>4, <2>5, <2>6, GrowingPreserves
<1> QED BY <1>4, <1>5

-----------------------------------------------------------------------------
LEMMA InitInv == Init => Inv
<1> SUFFICES ASSUME Init PROVE Inv
  OBVIOUS
<1>1. <<>> \in Seq(Device) /\ Len(<<>>) = 0
  BY EmptySeq
<1>2. StoreInv
  <2>1. NoRow \in Row /\ Unused \in Pairing
    BY <1>1 DEF NoRow, Row, Unused, Pairing
  <2>2. /\ \A d \in Device : ~row[d].there /\ ~row[d].revoked
        /\ \A s \in Slot : pairing[s].device = Nobody /\ ~pairing[s].claimed
    BY DEF Init, NoRow, Unused
  <2>3. StoreTyped
    BY <2>1 DEF Init, StoreTyped
  <2>4. TrustAnchored /\ ChainsSound
    BY <2>2 DEF Init, TrustAnchored, OneRoot, ChainsLink, RevokedIsProvable, ChainsSound,
                Active, Registered
  <2>5. PairingOnce
    BY <2>2 DEF Init, PairingOnce, Registered
  <2> QED BY <2>3, <2>4, <2>5 DEF StoreInv
<1>3. RequestsInv
  BY DEF Init, RequestsInv, RequestOK, Idle
<1>4. MemoryInv
  <2>1. \A r \in Request : Held(r) = 0
    BY DEF Init, Held, Idle
  <2>2. issued \in Seq(Device \cup {Nobody}) /\ Len(issued) = 0
    BY EmptySeq DEF Init
  <2>3. MemoryTyped
    BY <2>2, AccountAssumption DEF Init, MemoryTyped
  <2> QED BY <2>1, <2>3 DEF Init, MemoryInv, ChallengeOnce, ChallengesKnown
<1> QED BY <1>2, <1>3, <1>4 DEF Inv

LEMMA NextPreserves == Inv /\ Next => Inv' /\ Grows
<1> SUFFICES ASSUME Inv, Next PROVE Inv' /\ Grows
  OBVIOUS
<1>1. ASSUME NEW d \in Device, CreateAccount(d) PROVE Inv' /\ Grows
  BY <1>1, CreateAccountPreserves
<1>2. ASSUME \/ \E d \in Device : ExpireSession(d) \/ ExpireChallenge(d)
             \/ ExpireRootChallenge
      PROVE  Inv' /\ Grows
  BY <1>2, ForgettingPreserves
<1>3. ASSUME NEW s \in Slot, BeginPairing(s) \/ ExpirePairing(s) PROVE Inv' /\ Grows
  BY <1>3, BeginPreserves
<1>4. ASSUME IssueRootChallenge \/ Restart PROVE Inv' /\ Grows
  BY <1>4, IssueRootPreserves, RestartPreserves
<1>5. ASSUME NEW r \in Request PROVE /\ SessionStep(r) => Inv' /\ Grows
                                     /\ DirectoryStep(r) => Inv' /\ Grows
  BY SessionPreserves, DirectoryPreserves
<1>6. ASSUME NEW r \in Request, RevocationStep(r) PROVE Inv' /\ Grows
  BY <1>6, RevocationReads, AddRevocationPreserves, DropDevicePreserves DEF RevocationStep
<1>7. ASSUME NEW r \in Request, RecoveryStep(r) PROVE Inv' /\ Grows
  BY <1>7, RecoveryReads, TakeRootPreserves, UpsertPreserves, ReplaceRootPreserves,
     DropAccountPreserves DEF RecoveryStep
<1>8. ASSUME NEW r \in Request, PairingStep(r) PROVE Inv' /\ Grows
  BY <1>8, PairingReads, OfferPreserves, ClaimPreserves DEF PairingStep
<1> QED BY <1>1, <1>2, <1>3, <1>4, <1>5, <1>6, <1>7, <1>8 DEF Next

LEMMA StutterPreserves == Inv /\ UNCHANGED vars => Inv'
<1> SUFFICES ASSUME Inv, UNCHANGED vars PROVE Inv'
  OBVIOUS
<1>1. UNCHANGED <<database, memory, history, req>>
  BY DEF vars
<1>2. StoreInv'
  BY <1>1, StoreQuiet DEF Inv, history
<1>3. Grows
  BY <1>1, LenProperties, GrowsQuiet DEF history, Inv, MemoryInv, MemoryTyped
<1> QED BY <1>1, <1>2, <1>3, GrowingPreserves DEF history, memory

LEMMA DirectoryFollows == Inv => TypeOK /\ DirectoryProvable
<1> SUFFICES ASSUME Inv PROVE TypeOK /\ DirectoryProvable
  OBVIOUS
<1>1. TypeOK
  BY DEF Inv, StoreInv, StoreTyped, MemoryInv, MemoryTyped, RequestsInv, RequestOK, TypeOK
<1>2. DirectoryProvable
  BY DEF Inv, RequestsInv, RequestOK, DirectoryProvable, At
<1> QED BY <1>1, <1>2

LEMMA InvAlways == Spec => []Inv
<1>1. Init => Inv
  BY InitInv
<1>2. Inv /\ [Next]_vars => Inv'
  BY NextPreserves, StutterPreserves
<1> QED BY <1>1, <1>2, PTL DEF Spec

\* The tables, the requests in flight and the tokens in memory stay well formed,
\* across restarts of the server too.
THEOREM AccountServerTyped == Spec => []TypeOK
<1>1. Inv => TypeOK
  BY DirectoryFollows
<1> QED BY <1>1, InvAlways, PTL

\* Whatever requests race, repeat or die with the process: the account has one
\* root, and every stored chain links its device to a registered issuer.
THEOREM AccountServerAnchored == Spec => []TrustAnchored
<1>1. Inv => TrustAnchored
  BY DEF Inv, StoreInv
<1> QED BY <1>1, InvAlways, PTL

\* A client can prove every revocation that a directory shows it, although the
\* tables change between the queries the directory is read with.
THEOREM DirectoriesProvable == Spec => []DirectoryProvable
<1>1. Inv => DirectoryProvable
  BY DirectoryFollows
<1> QED BY <1>1, InvAlways, PTL

\* A pairing session admits one device and pays out once, and a challenge makes
\* one session or one re-root at most, whoever races for them.
THEOREM AccountServerSingleUse == Spec => []SingleUse
<1>1. Inv => SingleUse
  BY DEF Inv, StoreInv, MemoryInv, SingleUse
<1> QED BY <1>1, InvAlways, PTL

\* No later directory takes back what an earlier one showed.
THEOREM DirectoriesAgree == Spec => DevicesPermanent
<1> DEFINE Permanent ==
             /\ \A d \in Registered :
                  /\ row'[d].there
                  /\ row'[d].chain = row[d].chain
                  /\ row[d].revoked => row'[d].revoked
             /\ statement \subseteq statement'
             /\ \A s \in Slot : pairing[s].device # Nobody => pairing'[s].chain = pairing[s].chain
<1>1. Inv /\ [Next]_vars => [Permanent]_vars
  BY NextPreserves DEF Grows, Registered
<1> QED BY <1>1, InvAlways, PTL DEF Spec, DevicesPermanent

=============================================================================
