----------------------------- MODULE LanProofs -----------------------------
(***************************************************************************)
(* Proofs about several agents on one LAN, for any number of machines and  *)
(* any timing that the assumptions of Lan admit: what is kept between two  *)
(* announcements of a machine is enough that no single loss, delay or      *)
(* repetition makes another forget or misname it.                          *)
(***************************************************************************)
EXTENDS Lan, PeerStoreProofs

-----------------------------------------------------------------------------
(* The invariant.                                                          *)

\* No sighting lies in the future.
SeenInv == \A q \in MachineID : SeenBy(store[q], Now)

\* A datagram says what is so, unless it was sent before the last intervention.
DatagramInv ==
  \A d \in network :
    \/ d.ann.id \in up /\ d.ann.nickname = name[d.ann.id]
    \/ d.left + calm <= MaxDelay

\* The sightings of a machine that has stopped grow old.
Waning(peers, p, since) ==
  p \in DOMAIN peers =>
    \A a \in DOMAIN peers[p].addresses : peers[p].addresses[a] + since <= TTL + MaxDelay
GhostInv == \A q \in MachineID, p \in MachineID \ up : Waning(store[q], p, calm)

\* p was heard under this name within the last age units of time.
Heard(peers, p, nickname, age) ==
  /\ p \in DOMAIN peers
  /\ peers[p].nickname = nickname
  /\ AddressOf[p] \in DOMAIN peers[p].addresses
  /\ peers[p].addresses[AddressOf[p]] >= TTL - age

\* The same, or it has not been left alone for so long.
Fresh(p, q, age) == calm <= age + MaxDelay \/ Heard(store[q], p, name[p], age)

\* How long ago q heard p, when no datagram of p is under way to it: since the
\* last announcement, or the one before when q missed the last.
HeardWithin(p, q) ==
  (IF q \in missed[p] THEN 2 * Interval ELSE Interval) - announceIn[p]

\* How long ago q may have heard p when a datagram with this much time left is
\* on its way.
Awaited(left) == 2 * Interval + MaxLag + MaxDelay - left

\* Every running machine has heard every other in time, or is about to.
Coming(d, p, q) == d.to = q /\ d.ann.id = p /\ d.ann.nickname = name[p]
Known(p, q) ==
  \/ Fresh(p, q, HeardWithin(p, q))
  \/ \E d \in network : Coming(d, p, q) /\ Fresh(p, q, Awaited(d.left))
HeardInv == \A p, q \in up : Known(p, q)

LanInv == TypeOK /\ SeenInv /\ DatagramInv /\ GhostInv /\ HeardInv

-----------------------------------------------------------------------------
(* What the operators of an agent do to what it has heard.                 *)

\* The greater of two times, which sets the horizon of the history.
LEMMA MaxOfTwo ==
  ASSUME NEW i \in Int, NEW j \in Int
  PROVE  Max({i, j}) \in {i, j} /\ Max({i, j}) >= i /\ Max({i, j}) >= j
<1>1. \E x \in {i, j} : \A y \in {i, j} : x >= y
  BY SMT
<1>. QED BY <1>1 DEF Max

\* The horizon lies beyond every delay the properties speak about.
LEMMA HorizonLemma ==
  /\ SettleTime \in Nat
  /\ Horizon \in Nat
  /\ Horizon > SettleTime
  /\ Horizon > TTL + MaxDelay
<1>1. SettleTime \in Nat /\ TTL + MaxDelay \in Nat
  BY LanAssumption DEF SettleTime
<1> DEFINE i == SettleTime
           j == TTL + MaxDelay
           M == Max({i, j})
<1>2. M \in {i, j} /\ M >= i /\ M >= j
  <2>1. i \in Int /\ j \in Int
    BY <1>1
  <2> HIDE DEF i, j
  <2>. QED BY <2>1, MaxOfTwo
<1>3. Horizon = 1 + M
  BY DEF Horizon
<1> HIDE DEF M
<1>. QED BY <1>1, <1>2, <1>3

\* An agent's announcement of itself is one.
LEMMA SaysTyped ==
  ASSUME TypeOK, NEW m \in MachineID
  PROVE  /\ Says(m) \in Announcement
         /\ Says(m).id = m /\ Says(m).nickname = name[m]
         /\ {AddressOf[m]} \in SUBSET Address
  BY LanAssumption DEF TypeOK, Says, Announcement

\* Ageing forgets what is too old and makes the rest one unit older.
LEMMA AgedLemma ==
  ASSUME NEW peers, IsStore(peers), SeenBy(peers, Now)
  PROVE  /\ IsStore(Aged(peers))
         /\ SeenBy(Aged(peers), Now)
         /\ \A p \in DOMAIN Aged(peers) :
              /\ p \in DOMAIN peers
              /\ \A a \in DOMAIN Aged(peers)[p].addresses :
                   /\ a \in DOMAIN peers[p].addresses
                   /\ Aged(peers)[p].addresses[a] = peers[p].addresses[a] - 1
<1> DEFINE K == Prune(peers, Oldest + 1)
           D == Aged(peers)
<1>1. Oldest + 1 = 1 /\ Now \in Int
  BY LanAssumption DEF Oldest, Now
<1>2. IsStore(K) /\ SeenSince(K, 1) /\ SeenBy(K, Now)
  BY <1>1, PruneLemma
<1>3. \A p \in DOMAIN K :
        /\ p \in DOMAIN peers
        /\ \A a \in DOMAIN K[p].addresses :
             a \in DOMAIN peers[p].addresses /\ K[p].addresses[a] = peers[p].addresses[a]
  <2>1. ASSUME NEW p \in DOMAIN K
        PROVE  /\ p \in DOMAIN peers
               /\ K[p].addresses = [a \in Recent(peers[p], Oldest + 1) |-> peers[p].addresses[a]]
    BY DEF Prune
  <2>. QED BY <2>1 DEF Recent
<1>4. D = [p \in DOMAIN K |->
             [K[p] EXCEPT !.addresses = [a \in DOMAIN @ |-> @[a] - 1]]]
  BY DEF Aged, Older
<1>5. ASSUME NEW p \in DOMAIN K
      PROVE  /\ IsPeer(D[p])
             /\ DOMAIN D[p].addresses = DOMAIN K[p].addresses
             /\ \A a \in DOMAIN K[p].addresses :
                  D[p].addresses[a] = K[p].addresses[a] - 1
  <2> DEFINE S == [a \in DOMAIN K[p].addresses |-> K[p].addresses[a] - 1]
  <2>1. K[p] \in [nickname : Nickname, key : HostKey \cup {NoKey},
                  addresses : {K[p].addresses}]
    BY <1>2 DEF IsStore, IsPeer
  <2>2. /\ IsPartialOn(S, Address) /\ DOMAIN S # {}
        /\ \A a \in DOMAIN S : S[a] \in Nat
    <3>1. /\ DOMAIN K[p].addresses \subseteq Address /\ DOMAIN K[p].addresses # {}
          /\ \A a \in DOMAIN K[p].addresses :
               K[p].addresses[a] \in Nat /\ K[p].addresses[a] >= 1
      BY <1>2 DEF IsStore, IsPeer, IsPartialOn, SeenSince
    <3> HIDE DEF K
    <3>. QED BY <3>1 DEF IsPartialOn
  <2>3. D[p] = [K[p] EXCEPT !.addresses = S]
    BY <1>4
  <2>4. D[p] \in [nickname : Nickname, key : HostKey \cup {NoKey},
                  addresses : {S}] /\ D[p].addresses = S
    <3> HIDE DEF K, D, S
    <3>. QED BY <2>1, <2>3
  <2>5. IsPeer(D[p])
    <3> HIDE DEF K, D, S
    <3>. QED BY <2>2, <2>4 DEF IsPeer
  <2>. QED BY <2>4, <2>5
<1>6. DOMAIN D = DOMAIN K /\ D = [p \in DOMAIN D |-> D[p]]
  BY <1>4
<1>7. IsStore(D)
  <2> HIDE DEF K, D
  <2>. QED BY <1>2, <1>5, <1>6 DEF IsStore, IsPartialOn
<1>8. \A p \in DOMAIN D :
        /\ p \in DOMAIN peers
        /\ \A a \in DOMAIN D[p].addresses :
             a \in DOMAIN peers[p].addresses /\ D[p].addresses[a] = peers[p].addresses[a] - 1
  <2> HIDE DEF K, D
  <2>. QED BY <1>3, <1>5, <1>6
<1>9. SeenBy(D, Now)
  <2>1. \A p \in DOMAIN peers : \A a \in DOMAIN peers[p].addresses :
          peers[p].addresses[a] \in Int /\ peers[p].addresses[a] <= Now
    BY DEF IsStore, IsPeer, SeenBy
  <2> HIDE DEF K, D
  <2>. QED BY <1>1, <1>8, <2>1 DEF SeenBy
<1>. QED BY <1>7, <1>8, <1>9

\* A sighting younger than the TTL survives a tick.
LEMMA AgedKeeps ==
  ASSUME NEW peers, IsStore(peers), NEW p, NEW n, NEW age \in Int, age < TTL,
         Heard(peers, p, n, age)
  PROVE  Heard(Aged(peers), p, n, age + 1)
<1> DEFINE K == Prune(peers, Oldest + 1)
           a == AddressOf[p]
<1>1. /\ p \in DOMAIN peers /\ a \in DOMAIN peers[p].addresses
      /\ peers[p].addresses[a] \in Nat /\ peers[p].addresses[a] >= TTL - age
      /\ Oldest + 1 = 1 /\ TTL \in Int
  BY LanAssumption DEF Heard, Oldest, Now, IsStore, IsPeer
<1>2. peers[p].addresses[a] >= Oldest + 1
  BY <1>1
<1>3. /\ p \in DOMAIN K /\ a \in DOMAIN K[p].addresses
      /\ K[p].nickname = n
  BY <1>1, <1>2, PruneKeepsLemma DEF Heard
<1>4. K[p].addresses[a] = peers[p].addresses[a]
  <2>1. K[p].addresses = [b \in Recent(peers[p], Oldest + 1) |-> peers[p].addresses[b]]
    BY <1>3 DEF Prune
  <2>. QED BY <1>3, <2>1
<1>5. Aged(peers) = [i \in DOMAIN K |->
                       [K[i] EXCEPT !.addresses = [b \in DOMAIN @ |-> @[b] - 1]]]
  BY DEF Aged, Older
<1>6. /\ p \in DOMAIN Aged(peers)
      /\ Aged(peers)[p] = [K[p] EXCEPT !.addresses =
                             [b \in DOMAIN K[p].addresses |-> K[p].addresses[b] - 1]]
  BY <1>3, <1>5
<1>7. K[p] = [nickname |-> K[p].nickname, key |-> K[p].key, addresses |-> K[p].addresses]
  BY <1>3 DEF Prune
<1>8. /\ Aged(peers)[p].nickname = K[p].nickname
      /\ Aged(peers)[p].addresses = [b \in DOMAIN K[p].addresses |-> K[p].addresses[b] - 1]
  <2> HIDE DEF K
  <2>. QED BY <1>6, <1>7
<1>9. Aged(peers)[p].addresses[a] = peers[p].addresses[a] - 1
  BY <1>3, <1>4, <1>8
<1>. QED BY <1>1, <1>3, <1>6, <1>8, <1>9 DEF Heard

\* An announcement is recorded at the address of its machine, now.
Hear(peers, ann) == Observe(peers, ann, {AddressOf[ann.id]}, Now)

\* O is what that makes of peers: what was heard of the others stays, and
\* the sightings of ann.id are this one and, unless it changed its name, those
\* of before.
Recorded(peers, ann, O) ==
  /\ DOMAIN O = {ann.id} \cup DOMAIN peers
  /\ \A p \in DOMAIN peers : p # ann.id => O[p] = peers[p]
  /\ O[ann.id].nickname = ann.nickname
  /\ AddressOf[ann.id] \in DOMAIN O[ann.id].addresses
  /\ O[ann.id].addresses[AddressOf[ann.id]] = TTL
  /\ \A a \in DOMAIN O[ann.id].addresses :
       \/ O[ann.id].addresses[a] = TTL
       \/ /\ ann.id \in DOMAIN peers /\ a \in DOMAIN peers[ann.id].addresses
          /\ O[ann.id].addresses[a] = peers[ann.id].addresses[a]

\* Observing an announcement records just that.
LEMMA HeardNow ==
  ASSUME NEW peers, NEW ann \in Announcement,
         NEW O, O = Hear(peers, ann)
  PROVE  Recorded(peers, ann, O)
<1> DEFINE H == {AddressOf[ann.id]}
           K == KeptAddresses(peers, ann)
           S == [a \in H \cup DOMAIN K |-> IF a \in H THEN Now ELSE K[a]]
           peer == [nickname |-> ann.nickname, key |-> ann.key, addresses |-> S]
<1>1. O = [id \in DOMAIN peers \cup {ann.id} |->
             IF id = ann.id THEN peer ELSE peers[id]]
  BY DEF Hear, Observe
<1>2. /\ DOMAIN O = {ann.id} \cup DOMAIN peers
      /\ \A p \in DOMAIN peers : p # ann.id => O[p] = peers[p]
      /\ O[ann.id] = peer
  <2> HIDE DEF peer
  <2>. QED BY <1>1
<1>3. O[ann.id].nickname = ann.nickname /\ O[ann.id].addresses = S
  <2> HIDE DEF S
  <2>. QED BY <1>2
<1>4. /\ AddressOf[ann.id] \in DOMAIN S
      /\ S[AddressOf[ann.id]] = TTL
      /\ \A a \in DOMAIN S : S[a] = TTL \/ (a \in DOMAIN K /\ S[a] = K[a])
  <2> HIDE DEF K
  <2>. QED BY DEF Now
<1>5. \A a \in DOMAIN K : /\ ann.id \in DOMAIN peers
                          /\ a \in DOMAIN peers[ann.id].addresses
                          /\ K[a] = peers[ann.id].addresses[a]
  BY DEF KeptAddresses
<1>. QED
  <2> HIDE DEF S, K
  <2>. QED BY <1>2, <1>3, <1>4, <1>5 DEF Recorded

\* An announcement is heard, and none makes an agent forget another one.
LEMMA ObserveHears ==
  ASSUME NEW peers, NEW ann \in Announcement, NEW age \in Nat,
         NEW O, O = Hear(peers, ann)
  PROVE  /\ Heard(O, ann.id, ann.nickname, age)
         /\ \A p, n : /\ Heard(peers, p, n, age)
                      /\ p = ann.id => n = ann.nickname
                      => Heard(O, p, n, age)
<1>1. Recorded(peers, ann, O)
  BY HeardNow
<1>2. TTL >= TTL - age
  BY LanAssumption
<1>3. Heard(O, ann.id, ann.nickname, age)
  BY <1>1, <1>2 DEF Recorded, Heard
<1>4. ASSUME NEW p, NEW n, Heard(peers, p, n, age), p = ann.id => n = ann.nickname
      PROVE  Heard(O, p, n, age)
  <2>1. CASE p = ann.id
    BY <1>3, <1>4, <2>1
  <2>2. CASE p # ann.id
    BY <1>1, <1>4, <2>2 DEF Recorded, Heard
  <2>. QED BY <2>1, <2>2
<1>. QED BY <1>3, <1>4

\* An announcement makes only the sightings of its own machine younger.
LEMMA ObserveWanes ==
  ASSUME NEW peers, NEW ann \in Announcement, NEW since \in Nat, NEW p,
         Waning(peers, p, since),
         p = ann.id => since <= MaxDelay,
         NEW O, O = Hear(peers, ann)
  PROVE  Waning(O, p, since)
<1>1. Recorded(peers, ann, O)
  BY HeardNow
<1>2. CASE p # ann.id
  BY <1>1, <1>2 DEF Recorded, Waning
<1>3. CASE p = ann.id
  <2>1. TTL + since <= TTL + MaxDelay
    BY <1>3, LanAssumption
  <2>2. SUFFICES ASSUME NEW a \in DOMAIN O[p].addresses
                 PROVE  O[p].addresses[a] + since <= TTL + MaxDelay
    BY DEF Waning
  <2>. QED BY <1>1, <1>3, <2>1 DEF Recorded, Waning
<1>. QED BY <1>2, <1>3

\* A sighting stays one when it is allowed to be older.
LEMMA FreshLonger ==
  ASSUME TypeOK, NEW p \in MachineID, NEW q \in MachineID,
         IsStore(store[q]), NEW i \in Int, NEW j \in Int, i <= j, Fresh(p, q, i)
  PROVE  Fresh(p, q, j)
<1>1. CASE calm <= i + MaxDelay
  BY <1>1, LanAssumption, HorizonLemma DEF Fresh, TypeOK
<1>2. CASE Heard(store[q], p, name[p], i)
  <2>1. store[q][p].addresses[AddressOf[p]] \in Nat
    BY <1>2 DEF Heard, IsStore, IsPeer
  <2>. QED BY <1>2, <2>1, LanAssumption DEF Heard, Fresh
<1>. QED BY <1>1, <1>2 DEF Fresh

-----------------------------------------------------------------------------
(* What the actions do to the network.                                     *)

\* A datagram of m is on its way to q with all its time.
Sent(m, q) == \E d \in network' : d.to = q /\ d.ann = Says(m) /\ d.left = MaxDelay

\* Sending adds datagrams of m only, and a machine they do not reach got the
\* last one.
LEMMA SendLemma ==
  ASSUME TypeOK, NEW m \in MachineID, NEW running \in SUBSET MachineID,
         Send(m, running)
  PROVE  /\ network' \subseteq Datagram
         /\ missed' \in [MachineID -> SUBSET MachineID]
         /\ network \subseteq network'
         /\ \A d \in network' : d \in network \/ (d.ann = Says(m) /\ d.left = MaxDelay)
         /\ \A p \in MachineID : p # m => missed'[p] = missed[p]
         /\ \A q \in running : Sent(m, q) \/ (q \in missed'[m] /\ q \notin missed[m])
<1>1. PICK reached \in SUBSET running :
        /\ {m} \cup (missed[m] \cap running) \subseteq reached
        /\ network' = network \cup
             {[ann |-> Says(m), to |-> q, left |-> MaxDelay] : q \in reached}
        /\ missed' = [missed EXCEPT ![m] = running \ reached]
  BY DEF Send
<1>2. Says(m) \in Announcement /\ MaxDelay \in 0..MaxDelay
  BY SaysTyped, LanAssumption
<1>3. \A q \in reached :
        [ann |-> Says(m), to |-> q, left |-> MaxDelay] \in Datagram
  BY <1>2 DEF Datagram
<1>4. /\ network' \subseteq Datagram
      /\ missed' \in [MachineID -> SUBSET MachineID]
      /\ network \subseteq network'
  BY <1>1, <1>3 DEF TypeOK
<1>5. \A d \in network' : d \in network \/ (d.ann = Says(m) /\ d.left = MaxDelay)
  BY <1>1
<1>6. /\ \A p \in MachineID : p # m => missed'[p] = missed[p]
      /\ missed'[m] = running \ reached
  BY <1>1 DEF TypeOK
<1>7. ASSUME NEW q \in running PROVE Sent(m, q) \/ (q \in missed'[m] /\ q \notin missed[m])
  <2>1. CASE q \in reached
    <3>1. [ann |-> Says(m), to |-> q, left |-> MaxDelay] \in network'
      BY <1>1, <2>1
    <3>. QED BY <3>1 DEF Sent
  <2>2. CASE q \notin reached
    BY <1>1, <1>6, <1>7, <2>2
  <2>. QED BY <2>1, <2>2
<1>. QED BY <1>4, <1>5, <1>6, <1>7

\* After a tick every datagram has a unit of time less, and those that had
\* none are gone.
LEMMA TickLemma ==
  ASSUME TypeOK, Tick
  PROVE  /\ network' \subseteq Datagram
         /\ \A d \in network' : \E e \in network :
              e.ann = d.ann /\ e.to = d.to /\ e.left = d.left + 1
         /\ \A e \in network : e.left > 0 =>
              \E d \in network' : d.ann = e.ann /\ d.to = e.to /\ d.left = e.left - 1
<1>1. network' = {[d EXCEPT !.left = @ - 1] : d \in {e \in network : e.left > 0}}
  BY DEF Tick
<1>2. ASSUME NEW e \in network, e.left > 0
      PROVE  LET d == [e EXCEPT !.left = @ - 1]
             IN  /\ d \in Datagram
                 /\ d.ann = e.ann /\ d.to = e.to /\ d.left = e.left - 1
  <2>1. e \in Datagram
    BY DEF TypeOK
  <2>2. e.left - 1 \in 0..MaxDelay
    BY <1>2, <2>1, LanAssumption DEF Datagram
  <2>. QED BY <2>1, <2>2 DEF Datagram
<1>3. \A d \in network' : \E e \in network : e.left > 0 /\ d = [e EXCEPT !.left = @ - 1]
  BY <1>1
<1>4. \A e \in network : e.left \in Int
  BY LanAssumption DEF TypeOK, Datagram
<1>5. ASSUME NEW d \in network'
      PROVE  /\ d \in Datagram
             /\ \E e \in network : e.ann = d.ann /\ e.to = d.to /\ e.left = d.left + 1
  <2>1. PICK e \in network : e.left > 0 /\ d = [e EXCEPT !.left = @ - 1]
    BY <1>3
  <2>2. d \in Datagram /\ d.ann = e.ann /\ d.to = e.to /\ d.left = e.left - 1
    BY <1>2, <2>1
  <2>3. e.left = d.left + 1
    BY <1>4, <2>2
  <2>. QED BY <2>2, <2>3
<1>6. ASSUME NEW e \in network, e.left > 0
      PROVE  \E d \in network' : d.ann = e.ann /\ d.to = e.to /\ d.left = e.left - 1
  <2>1. [e EXCEPT !.left = @ - 1] \in network'
    BY <1>1, <1>6
  <2>. QED BY <1>2, <1>6, <2>1
<1>. QED BY <1>5, <1>6

-----------------------------------------------------------------------------
(* Typing.                                                                 *)

\* Recording an announcement keeps a store one, and dates nothing in the
\* future.
LEMMA HearTyped ==
  ASSUME NEW peers, IsStore(peers), SeenBy(peers, Now), NEW ann \in Announcement
  PROVE  IsStore(Hear(peers, ann)) /\ SeenBy(Hear(peers, ann), Now)
<1>1. {AddressOf[ann.id]} \in SUBSET Address /\ Now \in Nat
  BY LanAssumption DEF Announcement, Now
<1>. QED BY <1>1, ObserveLemma DEF Hear

\* An agent hears itself.
LEMMA AdvertisedLemma ==
  ASSUME NEW m, NEW peers PROVE Advertised(m, peers) = Hear(peers, Says(m))
  BY DEF Advertised, Hear, Says

\* An action that replaces one machine's store by a good one leaves all good.
LEMMA StoreReplaced ==
  ASSUME TypeOK, SeenInv, NEW m \in MachineID, NEW s, IsStore(s), SeenBy(s, Now),
         store' = [store EXCEPT ![m] = s]
  PROVE  /\ DOMAIN store' = MachineID
         /\ \A q \in MachineID : IsStore(store'[q])
         /\ SeenInv'
         /\ store'[m] = s
         /\ \A q \in MachineID : q # m => store'[q] = store[q]
<1>1. /\ DOMAIN store' = MachineID
      /\ store'[m] = s
      /\ \A q \in MachineID : q # m => store'[q] = store[q]
  BY DEF TypeOK
<1>. QED BY <1>1 DEF TypeOK, SeenInv, Now

\* A killed agent leaves a part of its store.
LEMMA KeptLemma ==
  ASSUME NEW peers, IsStore(peers), SeenBy(peers, Now), NEW kept \in SUBSET DOMAIN peers
  PROVE  LET s == [id \in kept |-> peers[id]] IN IsStore(s) /\ SeenBy(s, Now)
  BY DEF IsStore, IsPartialOn, SeenBy

\* What each action leaves in the stores is a store, and nothing in it lies in
\* the future.
LEMMA StoreStep ==
  ASSUME TypeOK, SeenInv, Next
  PROVE  /\ DOMAIN store' = MachineID
         /\ \A q \in MachineID : IsStore(store'[q])
         /\ SeenInv'
<1>0. \A q \in MachineID : IsStore(store[q]) /\ SeenBy(store[q], Now)
  BY DEF TypeOK, SeenInv
<1> DEFINE Good == /\ DOMAIN store' = MachineID
                   /\ \A q \in MachineID : IsStore(store'[q])
                   /\ SeenInv'
<1>1. ASSUME NEW m \in MachineID, Start(m) PROVE Good
  <2> DEFINE K == Prune(store[m], Oldest)
  <2>1. Oldest \in Int /\ Now \in Int
    BY LanAssumption DEF Oldest, Now
  <2>2. IsStore(K) /\ SeenBy(K, Now)
    BY <1>0, <2>1, PruneLemma
  <2>3. IsStore(Hear(K, Says(m))) /\ SeenBy(Hear(K, Says(m)), Now)
    BY <2>2, SaysTyped, HearTyped
  <2>4. store' = [store EXCEPT ![m] = Hear(K, Says(m))]
    BY <1>1, AdvertisedLemma DEF Start
  <2>. QED BY <2>3, <2>4, StoreReplaced
<1>2. ASSUME NEW m \in MachineID, Announce(m) PROVE Good
  <2>1. IsStore(Hear(store[m], Says(m))) /\ SeenBy(Hear(store[m], Says(m)), Now)
    BY <1>0, SaysTyped, HearTyped
  <2>2. store' = [store EXCEPT ![m] = Hear(store[m], Says(m))]
    BY <1>2, AdvertisedLemma DEF Announce
  <2>. QED BY <2>1, <2>2, StoreReplaced
<1>3. ASSUME NEW m \in MachineID, Stop(m) PROVE Good
  <2>1. IsStore(NoPeers) /\ SeenBy(NoPeers, Now)
    BY NoPeersLemma, LanAssumption DEF Now
  <2>. QED BY <1>3, <2>1, StoreReplaced DEF Stop
<1>4. ASSUME NEW m \in MachineID, Kill(m) PROVE Good
  <2>1. PICK kept \in SUBSET DOMAIN store[m] :
          store' = [store EXCEPT ![m] = [id \in kept |-> store[m][id]]]
    BY <1>4 DEF Kill
  <2> DEFINE s == [id \in kept |-> store[m][id]]
  <2>2. IsStore(s) /\ SeenBy(s, Now)
    BY <1>0, KeptLemma
  <2>. QED BY <2>1, <2>2, StoreReplaced
<1>5. ASSUME NEW m \in MachineID, NEW n \in Nickname, Rename(m, n) PROVE Good
  BY <1>5 DEF Rename, TypeOK, SeenInv, Now
<1>6. ASSUME NEW d \in network, Receive(d) PROVE Good
  <2>1. d.to \in MachineID /\ d.ann \in Announcement
    BY DEF TypeOK, Datagram
  <2>2. IsStore(Hear(store[d.to], d.ann)) /\ SeenBy(Hear(store[d.to], d.ann), Now)
    BY <1>0, <2>1, HearTyped
  <2>3. store' = [store EXCEPT ![d.to] = Hear(store[d.to], d.ann)]
    BY <1>6 DEF Receive, Hear
  <2>. QED BY <2>1, <2>2, <2>3, StoreReplaced
<1>7. CASE Tick
  <2>1. store' = [m \in MachineID |-> Aged(store[m])]
    BY <1>7 DEF Tick
  <2>2. \A m \in MachineID : IsStore(Aged(store[m])) /\ SeenBy(Aged(store[m]), Now)
    BY <1>0, AgedLemma
  <2>. QED BY <2>1, <2>2 DEF SeenInv, Now
<1>. QED BY <1>1, <1>2, <1>3, <1>4, <1>5, <1>6, <1>7 DEF Next

\* What is in a store is typed, and the rest of the state with it.
LEMMA TypeStep ==
  ASSUME TypeOK, SeenInv, [Next]_vars PROVE TypeOK' /\ SeenInv'
<1> USE LanAssumption, HorizonLemma
<1>0. /\ DOMAIN store' = MachineID /\ \A q \in MachineID : IsStore(store'[q])
      /\ SeenInv'
  <2>1. CASE Next
    BY <2>1, StoreStep
  <2>2. CASE UNCHANGED vars
    BY <2>2 DEF vars, TypeOK, SeenInv, Now
  <2>. QED BY <2>1, <2>2
<1>1. ASSUME NEW m \in MachineID, Start(m) PROVE TypeOK'
  <2>1. up' \in SUBSET MachineID /\ m \in up'
    BY <1>1 DEF Start, TypeOK
  <2>2. network' \subseteq Datagram /\ missed' \in [MachineID -> SUBSET MachineID]
    BY <1>1, <2>1, SendLemma DEF Start
  <2>3. announceIn' \in [MachineID -> (-MaxLag)..Interval]
    BY <1>1 DEF Start, TypeOK
  <2>. QED BY <1>1, <2>1, <2>2, <2>3, <1>0 DEF Start, TypeOK
<1>2. ASSUME NEW m \in MachineID, Announce(m) PROVE TypeOK'
  <2>1. network' \subseteq Datagram /\ missed' \in [MachineID -> SUBSET MachineID]
    BY <1>2, SendLemma DEF Announce, TypeOK
  <2>2. announceIn' \in [MachineID -> (-MaxLag)..Interval]
    <3>1. announceIn[m] \in (-MaxLag)..Interval /\ announceIn[m] <= 0
      BY <1>2 DEF Announce, TypeOK
    <3>2. announceIn[m] + Interval \in (-MaxLag)..Interval
      BY <3>1
    <3>. QED BY <1>2, <3>2 DEF Announce, TypeOK
  <2>. QED BY <1>2, <2>1, <2>2, <1>0 DEF Announce, TypeOK
<1>3. ASSUME NEW m \in MachineID, Stop(m) PROVE TypeOK'
  <2>1. announceIn' \in [MachineID -> (-MaxLag)..Interval] /\ up' \subseteq MachineID
    BY <1>3 DEF Stop, TypeOK
  <2>. QED BY <1>3, <2>1, <1>0 DEF Stop, Fault, TypeOK
<1>4. ASSUME NEW m \in MachineID, Kill(m) PROVE TypeOK'
  <2>1. announceIn' \in [MachineID -> (-MaxLag)..Interval] /\ up' \subseteq MachineID
    BY <1>4 DEF Kill, TypeOK
  <2>. QED BY <1>4, <2>1, <1>0 DEF Kill, Fault, TypeOK
<1>5. ASSUME NEW m \in MachineID, NEW n \in Nickname, Rename(m, n) PROVE TypeOK'
  BY <1>5, <1>0 DEF Rename, Fault, TypeOK
<1>6. ASSUME NEW d \in network, Receive(d) PROVE TypeOK'
  BY <1>6, <1>0 DEF Receive, TypeOK
<1>7. ASSUME Tick PROVE TypeOK'
  <2>1. announceIn' \in [MachineID -> (-MaxLag)..Interval]
    <3>1. \A m \in up : announceIn[m] - 1 \in (-MaxLag)..Interval
      BY <1>7 DEF Tick, TypeOK
    <3>. QED BY <1>7, <3>1 DEF Tick
  <2>2. calm' \in 0..Horizon
    BY <1>7 DEF Tick, TypeOK
  <2>. QED BY <1>7, <2>1, <2>2, TickLemma, <1>0 DEF Tick, TypeOK
<1>8. ASSUME UNCHANGED vars PROVE TypeOK'
  BY <1>8, <1>0 DEF vars, TypeOK
<1>9. TypeOK'
  BY <1>1, <1>2, <1>3, <1>4, <1>5, <1>6, <1>7, <1>8 DEF Next
<1>. QED BY <1>0, <1>9

-----------------------------------------------------------------------------
(* The network, and the machines that have stopped.                        *)

\* What is under way stays true, or stays late.
LEMMA DatagramStep ==
  ASSUME TypeOK, DatagramInv, [Next]_vars PROVE DatagramInv'
<1>0. /\ \A d \in network : d \in Datagram /\ d.left \in 0..MaxDelay
      /\ calm \in Nat /\ MaxDelay \in Nat
  BY LanAssumption, HorizonLemma DEF TypeOK, Datagram
\* A datagram outlives no intervention by more than its delay.
<1>1. ASSUME calm' = 0, network' \subseteq Datagram PROVE DatagramInv'
  BY <1>0, <1>1 DEF DatagramInv, Datagram
<1>2. ASSUME NEW m \in MachineID, Start(m) PROVE DatagramInv'
  <2>1. up' \in SUBSET MachineID /\ m \in up'
    BY <1>2 DEF Start, TypeOK
  <2>2. network' \subseteq Datagram
    BY <1>2, <2>1, SendLemma DEF Start
  <2>. QED BY <1>1, <1>2, <2>2 DEF Start
<1>3. ASSUME NEW m \in MachineID, Announce(m) PROVE DatagramInv'
  <2>1. \A d \in network' : d \in network \/ d.ann = Says(m)
    BY <1>3, SendLemma DEF Announce, TypeOK
  <2>2. m \in up /\ UNCHANGED <<name, up, calm>>
    BY <1>3 DEF Announce
  <2>. QED BY <2>1, <2>2, SaysTyped DEF DatagramInv
<1>4. ASSUME NEW m \in MachineID, Stop(m) \/ Kill(m) PROVE DatagramInv'
  BY <1>1, <1>4 DEF Stop, Kill, Fault, TypeOK
<1>5. ASSUME NEW m \in MachineID, NEW n \in Nickname, Rename(m, n) PROVE DatagramInv'
  BY <1>1, <1>5 DEF Rename, Fault, TypeOK
<1>6. ASSUME NEW d \in network, Receive(d) PROVE DatagramInv'
  BY <1>6 DEF Receive, DatagramInv
<1>7. ASSUME Tick PROVE DatagramInv'
  <2>1. UNCHANGED <<name, up>> /\ calm' <= calm + 1 /\ calm' \in Nat
    BY <1>0, <1>7, HorizonLemma DEF Tick, TypeOK
  <2>2. ASSUME NEW d \in network'
        PROVE  \/ d.ann.id \in up' /\ d.ann.nickname = name'[d.ann.id]
               \/ d.left + calm' <= MaxDelay
    <3>1. PICK e \in network : e.ann = d.ann /\ e.left = d.left + 1
      BY <1>7, TickLemma
    <3>2. d.left \in Int
      BY <1>7, TickLemma DEF Datagram
    <3>3. \/ e.ann.id \in up /\ e.ann.nickname = name[e.ann.id]
          \/ e.left + calm <= MaxDelay
      BY DEF DatagramInv
    <3>. QED BY <1>0, <2>1, <3>1, <3>2, <3>3
  <2>. QED BY <2>2 DEF DatagramInv
<1>8. ASSUME UNCHANGED vars PROVE DatagramInv'
  BY <1>8 DEF vars, DatagramInv
<1>. QED BY <1>2, <1>3, <1>4, <1>5, <1>6, <1>7, <1>8 DEF Next

\* Nobody hears of a stopped machine any more, but by what was still under way.
LEMMA GhostStep ==
  ASSUME TypeOK, SeenInv, DatagramInv, GhostInv, [Next]_vars,
         TypeOK', SeenInv'
  PROVE  GhostInv'
<1>0. calm \in Nat /\ calm' \in Nat /\ MaxDelay \in Nat /\ TTL \in Nat
  BY LanAssumption, HorizonLemma DEF TypeOK
<1>1. ASSUME calm' = 0 PROVE GhostInv'
  <2>1. \A q \in MachineID : \A p \in DOMAIN store'[q] :
          \A a \in DOMAIN store'[q][p].addresses :
            store'[q][p].addresses[a] \in Nat /\ store'[q][p].addresses[a] <= TTL
    BY DEF TypeOK, SeenInv, SeenBy, Now, IsStore, IsPeer
  <2>. QED BY <1>0, <1>1, <2>1 DEF GhostInv, Waning
<1>2. ASSUME NEW m \in MachineID, Start(m) PROVE GhostInv'
  BY <1>1, <1>2 DEF Start
<1>3. ASSUME NEW m \in MachineID, Announce(m) PROVE GhostInv'
  <2>1. /\ m \in up /\ UNCHANGED <<up, calm>>
        /\ store' = [store EXCEPT ![m] = Hear(store[m], Says(m))]
    BY <1>3, AdvertisedLemma DEF Announce
  <2>2. SUFFICES ASSUME NEW q \in MachineID, NEW p \in MachineID \ up
                 PROVE  Waning(store'[q], p, calm)
    BY <2>1 DEF GhostInv
  <2>3. Waning(store[q], p, calm)
    BY DEF GhostInv
  <2>4. CASE q = m
    <3>1. store'[q] = Hear(store[q], Says(m))
      BY <2>1, <2>4 DEF TypeOK
    <3>2. p # Says(m).id /\ Says(m) \in Announcement
      BY <2>1, SaysTyped
    <3>. QED BY <1>0, <2>3, <3>1, <3>2, ObserveWanes
  <2>5. CASE q # m
    BY <2>1, <2>3, <2>5 DEF TypeOK
  <2>. QED BY <2>4, <2>5
<1>4. ASSUME NEW m \in MachineID, Stop(m) \/ Kill(m) PROVE GhostInv'
  BY <1>1, <1>4 DEF Stop, Kill, Fault
<1>5. ASSUME NEW m \in MachineID, NEW n \in Nickname, Rename(m, n) PROVE GhostInv'
  BY <1>1, <1>5 DEF Rename, Fault
<1>6. ASSUME NEW d \in network, Receive(d) PROVE GhostInv'
  <2>1. /\ UNCHANGED <<up, calm>>
        /\ store' = [store EXCEPT ![d.to] = Hear(store[d.to], d.ann)]
        /\ d.ann \in Announcement /\ d.left \in Nat
    BY <1>6 DEF Receive, Hear, TypeOK, Datagram
  <2>2. SUFFICES ASSUME NEW q \in MachineID, NEW p \in MachineID \ up
                 PROVE  Waning(store'[q], p, calm)
    BY <2>1 DEF GhostInv
  <2>3. Waning(store[q], p, calm)
    BY DEF GhostInv
  <2>4. CASE q = d.to
    <3>1. store'[q] = Hear(store[q], d.ann)
      BY <2>1, <2>4 DEF TypeOK
    <3>2. p = d.ann.id => calm <= MaxDelay
      BY <1>0, <2>1 DEF DatagramInv
    <3>. QED BY <1>0, <2>1, <2>3, <3>1, <3>2, ObserveWanes
  <2>5. CASE q # d.to
    BY <2>1, <2>3, <2>5 DEF TypeOK
  <2>. QED BY <2>4, <2>5
<1>7. ASSUME Tick PROVE GhostInv'
  <2>1. /\ UNCHANGED up /\ calm' <= calm + 1
        /\ \A q \in MachineID : store'[q] = Aged(store[q])
    BY <1>0, <1>7 DEF Tick, TypeOK
  <2>2. SUFFICES ASSUME NEW q \in MachineID, NEW p \in MachineID \ up,
                        p \in DOMAIN store'[q],
                        NEW a \in DOMAIN store'[q][p].addresses
                 PROVE  store'[q][p].addresses[a] + calm' <= TTL + MaxDelay
    BY <2>1 DEF GhostInv, Waning
  <2>3. IsStore(store[q]) /\ SeenBy(store[q], Now)
    BY DEF TypeOK, SeenInv
  <2>4. /\ p \in DOMAIN store[q] /\ a \in DOMAIN store[q][p].addresses
        /\ store'[q][p].addresses[a] = store[q][p].addresses[a] - 1
    BY <2>1, <2>2, <2>3, AgedLemma
  <2>5. store[q][p].addresses[a] \in Nat
    BY <2>3, <2>4 DEF IsStore, IsPeer
  <2>6. store[q][p].addresses[a] + calm <= TTL + MaxDelay
    BY <2>4 DEF GhostInv, Waning
  <2>. QED BY <1>0, <2>1, <2>4, <2>5, <2>6
<1>8. ASSUME UNCHANGED vars PROVE GhostInv'
  BY <1>8 DEF vars, GhostInv
<1>. QED BY <1>2, <1>3, <1>4, <1>5, <1>6, <1>7, <1>8 DEF Next

-----------------------------------------------------------------------------
(* The machines that run.                                                  *)

\* The times the invariant speaks about are never negative, and less than the
\* time in which a second announcement comes.
LEMMA HeardWithinLemma ==
  ASSUME TypeOK, NEW p \in MachineID, NEW q \in MachineID
  PROVE  /\ HeardWithin(p, q) \in Nat
         /\ HeardWithin(p, q) <= 2 * Interval + MaxLag
         /\ \A left \in 0..MaxDelay : Awaited(left) \in Nat
  BY LanAssumption DEF TypeOK, HeardWithin, Awaited

\* After an intervention there is nothing yet that a machine must have heard.
LEMMA KnownAtOnce ==
  ASSUME TypeOK', calm' = 0 PROVE HeardInv'
<1>1. \A p, q \in MachineID : HeardWithin(p, q)' \in Nat
  BY LanAssumption DEF TypeOK, HeardWithin
<1>2. \A p, q \in MachineID : Fresh(p, q, HeardWithin(p, q))'
  BY <1>1, LanAssumption DEF Fresh
<1>. QED BY <1>2 DEF HeardInv, Known, TypeOK

\* Hearing any announcement that is true forgets nothing that was heard.
LEMMA FreshStays ==
  ASSUME TypeOK, NEW p \in MachineID, NEW q \in MachineID, NEW age \in Nat,
         Fresh(p, q, age), UNCHANGED <<name, calm>>,
         \/ store'[q] = store[q]
         \/ \E ann \in Announcement : /\ store'[q] = Hear(store[q], ann)
                                      /\ ann.id = p => ann.nickname = name[p]
  PROVE  Fresh(p, q, age)'
<1>1. CASE calm <= age + MaxDelay
  BY <1>1 DEF Fresh
<1>2. CASE Heard(store[q], p, name[p], age) /\ store'[q] = store[q]
  BY <1>2 DEF Fresh
<1>3. ASSUME NEW ann \in Announcement, store'[q] = Hear(store[q], ann),
             ann.id = p => ann.nickname = name[p],
             Heard(store[q], p, name[p], age)
      PROVE  Fresh(p, q, age)'
  <2>1. Heard(store'[q], p, name[p], age)
    BY <1>3, ObserveHears
  <2>. QED BY <2>1 DEF Fresh
<1>. QED BY <1>1, <1>2, <1>3 DEF Fresh

\* A tick makes what was heard older by one, and forgets none of it that is
\* younger than the TTL.
LEMMA FreshAges ==
  ASSUME TypeOK, Tick, NEW p \in MachineID, NEW q \in MachineID, NEW age \in Nat,
         age < TTL, Fresh(p, q, age)
  PROVE  Fresh(p, q, age + 1)'
<1>1. /\ UNCHANGED name /\ calm' <= calm + 1 /\ calm \in Nat /\ calm' \in Nat
      /\ store'[q] = Aged(store[q]) /\ IsStore(store[q])
  BY HorizonLemma DEF Tick, TypeOK
<1>2. CASE calm <= age + MaxDelay
  <2>1. calm' <= age + 1 + MaxDelay
    BY <1>1, <1>2, LanAssumption
  <2>. QED BY <2>1 DEF Fresh
<1>3. CASE Heard(store[q], p, name[p], age)
  <2>1. Heard(Aged(store[q]), p, name[p], age + 1)
    BY <1>1, <1>3, AgedKeeps
  <2>. QED BY <1>1, <2>1 DEF Fresh
<1>. QED BY <1>2, <1>3 DEF Fresh

\* A running machine announces itself: every other one gets that announcement,
\* or it got the last one.
LEMMA HeardAnnounce ==
  ASSUME TypeOK, HeardInv, TypeOK', NEW m \in MachineID, Announce(m)
  PROVE  HeardInv'
<1>1. /\ m \in up /\ UNCHANGED <<name, up, calm>> /\ announceIn[m] <= 0
      /\ store' = [store EXCEPT ![m] = Hear(store[m], Says(m))]
      /\ announceIn' = [announceIn EXCEPT ![m] = @ + Interval]
  BY AdvertisedLemma DEF Announce
<1>2. /\ network \subseteq network'
      /\ \A p \in MachineID : p # m => missed'[p] = missed[p]
      /\ \A q \in up : Sent(m, q) \/ (q \in missed'[m] /\ q \notin missed[m])
  BY SendLemma DEF Announce, TypeOK
<1>3. SUFFICES ASSUME NEW p \in up, NEW q \in up PROVE Known(p, q)'
  BY <1>1 DEF HeardInv
<1>4. p \in MachineID /\ q \in MachineID /\ Known(p, q) /\ IsStore(store[q])
  BY DEF TypeOK, HeardInv
<1>5. ASSUME NEW age \in Nat, Fresh(p, q, age) PROVE Fresh(p, q, age)'
  <2>1. \/ store'[q] = store[q]
        \/ q = m /\ store'[q] = Hear(store[q], Says(m))
    BY <1>1, <1>4 DEF TypeOK
  <2>2. Says(m) \in Announcement /\ (Says(m).id = p => Says(m).nickname = name[p])
    BY SaysTyped
  <2>. QED BY <1>1, <1>4, <1>5, <2>1, <2>2, FreshStays
<1>6. CASE \E d \in network : Coming(d, p, q) /\ Fresh(p, q, Awaited(d.left))
  <2>1. PICK d \in network : Coming(d, p, q) /\ Fresh(p, q, Awaited(d.left))
    BY <1>6
  <2>2. Awaited(d.left) \in Nat
    BY <1>4, HeardWithinLemma DEF TypeOK, Datagram
  <2>3. Fresh(p, q, Awaited(d.left))' /\ Coming(d, p, q)' /\ d \in network'
    BY <1>1, <1>2, <1>5, <2>1, <2>2 DEF Coming
  <2>. QED BY <2>3 DEF Known
<1>7. CASE Fresh(p, q, HeardWithin(p, q))
  <2>1. HeardWithin(p, q) \in Nat /\ HeardWithin(p, q) <= 2 * Interval + MaxLag
    BY <1>4, HeardWithinLemma
  <2>2. CASE p # m
    <3>1. HeardWithin(p, q)' = HeardWithin(p, q)
      BY <1>1, <1>2, <1>4, <2>2 DEF HeardWithin, TypeOK
    <3>. QED BY <1>5, <1>7, <2>1, <3>1 DEF Known
  <2>3. CASE p = m /\ Sent(m, q)
    <3>1. PICK d \in network' : d.to = q /\ d.ann = Says(m) /\ d.left = MaxDelay
      BY <2>3 DEF Sent
    <3>2. Awaited(d.left) = 2 * Interval + MaxLag /\ Awaited(d.left) \in Nat
      BY <3>1, LanAssumption DEF Awaited
    <3>3. Fresh(p, q, Awaited(d.left))
      BY <1>4, <1>7, <2>1, <3>2, FreshLonger
    <3>4. Fresh(p, q, Awaited(d.left))'
      BY <1>5, <3>2, <3>3
    <3>5. Coming(d, p, q)'
      BY <1>1, <2>3, <3>1, SaysTyped DEF Coming
    <3>. QED BY <3>1, <3>4, <3>5 DEF Known
  <2>4. CASE p = m /\ q \in missed'[m] /\ q \notin missed[m]
    <3>1. announceIn'[m] = announceIn[m] + Interval /\ announceIn[m] \in Int
      BY <1>1, LanAssumption DEF TypeOK
    <3>2. HeardWithin(p, q)' = HeardWithin(p, q)
      BY <2>4, <3>1, LanAssumption DEF HeardWithin
    <3>. QED BY <1>5, <1>7, <2>1, <3>2 DEF Known
  <2>. QED BY <1>2, <2>2, <2>3, <2>4
<1>. QED BY <1>4, <1>6, <1>7 DEF Known

\* A datagram of a machine that is gone, or was called something else, comes
\* only while the others still have time to hear what it is called now.
LEMMA HeardReceive ==
  ASSUME TypeOK, DatagramInv, HeardInv, TypeOK', NEW d \in network, Receive(d)
  PROVE  HeardInv'
<1>1. /\ UNCHANGED <<name, up, calm, announceIn, missed>>
      /\ store' = [store EXCEPT ![d.to] = Hear(store[d.to], d.ann)]
      /\ \A e \in network : e # d => e \in network'
      /\ d.to \in MachineID /\ d.ann \in Announcement /\ d.left \in Nat
  BY DEF Receive, Hear, TypeOK, Datagram
<1>2. SUFFICES ASSUME NEW p \in up, NEW q \in up PROVE Known(p, q)'
  BY <1>1 DEF HeardInv
<1>3. /\ p \in MachineID /\ q \in MachineID /\ Known(p, q)
      /\ calm \in Nat /\ MaxDelay \in Nat
      /\ HeardWithin(p, q) \in Nat /\ HeardWithin(p, q)' = HeardWithin(p, q)
  BY <1>1, HeardWithinLemma, HorizonLemma, LanAssumption DEF TypeOK, HeardInv, HeardWithin
<1>4. CASE p = d.ann.id /\ q = d.to
  <2>1. CASE d.ann.nickname = name[p]
    <3>1. store'[q] = Hear(store[q], d.ann)
      BY <1>1, <1>4 DEF TypeOK
    <3>2. Heard(store'[q], p, name[p], HeardWithin(p, q))
      BY <1>1, <1>3, <1>4, <2>1, <3>1, ObserveHears
    <3>. QED BY <1>1, <1>3, <3>2 DEF Known, Fresh
  <2>2. CASE d.ann.nickname # name[p]
    <3>1. calm <= HeardWithin(p, q) + MaxDelay
      BY <1>1, <1>3, <1>4, <2>2 DEF DatagramInv
    <3>. QED BY <1>1, <1>3, <3>1 DEF Known, Fresh
  <2>. QED BY <2>1, <2>2
<1>5. CASE ~(p = d.ann.id /\ q = d.to)
  <2>1. ASSUME NEW age \in Nat, Fresh(p, q, age) PROVE Fresh(p, q, age)'
    <3>1. \/ store'[q] = store[q]
          \/ store'[q] = Hear(store[q], d.ann) /\ d.ann.id # p
      BY <1>1, <1>3, <1>5 DEF TypeOK
    <3>. QED BY <1>1, <1>3, <2>1, <3>1, FreshStays
  <2>2. CASE Fresh(p, q, HeardWithin(p, q))
    BY <1>3, <2>1, <2>2 DEF Known
  <2>3. CASE \E e \in network : Coming(e, p, q) /\ Fresh(p, q, Awaited(e.left))
    <3>1. PICK e \in network : Coming(e, p, q) /\ Fresh(p, q, Awaited(e.left))
      BY <2>3
    <3>2. Awaited(e.left) \in Nat
      BY <1>3, HeardWithinLemma DEF TypeOK, Datagram
    <3>3. Fresh(p, q, Awaited(e.left))' /\ Coming(e, p, q)' /\ e \in network'
      BY <1>1, <1>5, <2>1, <3>1, <3>2 DEF Coming
    <3>. QED BY <3>3 DEF Known
  <2>. QED BY <1>3, <2>2, <2>3 DEF Known
<1>. QED BY <1>4, <1>5

\* A tick comes neither past a due announcement nor past a due datagram, and so
\* forgets nobody who runs.
LEMMA HeardTick ==
  ASSUME TypeOK, HeardInv, TypeOK', Tick PROVE HeardInv'
<1>1. /\ UNCHANGED <<name, up, missed>>
      /\ \A m \in up : announceIn'[m] = announceIn[m] - 1 /\ announceIn[m] > -MaxLag
      /\ \A e \in network : e.left > 0 \/ e.to \notin up
  BY DEF Tick, TypeOK
<1>2. SUFFICES ASSUME NEW p \in up, NEW q \in up PROVE Known(p, q)'
  BY <1>1 DEF HeardInv
<1>3. /\ p \in MachineID /\ q \in MachineID /\ Known(p, q)
      /\ announceIn[p] \in Int /\ announceIn[p] > -MaxLag
  BY <1>1, LanAssumption DEF TypeOK, HeardInv
<1>4. CASE Fresh(p, q, HeardWithin(p, q))
  <2>1. PICK age \in Nat : age = HeardWithin(p, q)
    BY <1>3, HeardWithinLemma
  <2>2. age < TTL
    BY <1>3, <2>1, LanAssumption, SlackAssumption DEF HeardWithin
  <2>3. HeardWithin(p, q)' = age + 1
    BY <1>1, <1>3, <2>1, LanAssumption DEF HeardWithin
  <2>4. Fresh(p, q, age + 1)'
    BY <1>3, <1>4, <2>1, <2>2, FreshAges
  <2>. QED BY <2>3, <2>4 DEF Known
<1>5. CASE \E e \in network : Coming(e, p, q) /\ Fresh(p, q, Awaited(e.left))
  <2>1. PICK e \in network : Coming(e, p, q) /\ Fresh(p, q, Awaited(e.left))
    BY <1>5
  <2>2. e.left > 0 /\ e.left \in 0..MaxDelay
    BY <1>1, <2>1 DEF Coming, TypeOK, Datagram
  <2>3. PICK d \in network' : d.ann = e.ann /\ d.to = e.to /\ d.left = e.left - 1
    BY <2>2, TickLemma
  <2>4. /\ Awaited(e.left) \in Nat /\ Awaited(e.left) < TTL
        /\ Awaited(d.left) = Awaited(e.left) + 1
    BY <2>2, <2>3, LanAssumption, SlackAssumption DEF Awaited
  <2>5. Fresh(p, q, Awaited(e.left) + 1)'
    BY <1>3, <2>1, <2>4, FreshAges
  <2>6. Coming(d, p, q)'
    BY <1>1, <2>1, <2>3 DEF Coming
  <2>. QED BY <2>4, <2>5, <2>6 DEF Known, Fresh, Awaited
<1>. QED BY <1>3, <1>4, <1>5 DEF Known

\* No step makes a running machine miss what it must know of another.
LEMMA HeardStep ==
  ASSUME TypeOK, DatagramInv, HeardInv, [Next]_vars, TypeOK' PROVE HeardInv'
<1>1. ASSUME NEW m \in MachineID, Start(m) \/ Stop(m) \/ Kill(m) PROVE HeardInv'
  BY <1>1, KnownAtOnce DEF Start, Stop, Kill, Fault
<1>2. ASSUME NEW m \in MachineID, NEW n \in Nickname, Rename(m, n) PROVE HeardInv'
  BY <1>2, KnownAtOnce DEF Rename, Fault
<1>3. CASE UNCHANGED vars
  <2>1. \A p, q \in up : Known(p, q)' <=> Known(p, q)
    BY <1>3 DEF vars, Known, Fresh, HeardWithin, Coming
  <2>. QED BY <1>3, <2>1 DEF HeardInv, vars
<1>. QED BY <1>1, <1>2, <1>3, HeardAnnounce, HeardReceive, HeardTick DEF Next

-----------------------------------------------------------------------------
(* The theorems.                                                           *)

\* Nothing runs, and nobody knows anybody.
LEMMA LanInit == Init => LanInv
<1> SUFFICES ASSUME Init PROVE LanInv
  OBVIOUS
<1>1. TypeOK
  BY NoPeersLemma, HorizonLemma, LanAssumption DEF Init, TypeOK
<1>2. SeenInv
  BY NoPeersLemma, LanAssumption DEF Init, SeenInv, Now
<1>3. DatagramInv /\ GhostInv /\ HeardInv
  BY DEF Init, DatagramInv, GhostInv, Waning, HeardInv, NoPeers
<1>. QED BY <1>1, <1>2, <1>3 DEF LanInv

\* Every step keeps the invariant.
LEMMA LanStep == LanInv /\ [Next]_vars => LanInv'
  BY TypeStep, DatagramStep, GhostStep, HeardStep DEF LanInv

\* The invariant holds in every reachable state.
LEMMA LanAlways == Spec => []LanInv
  BY LanInit, LanStep, PTL DEF Spec

\* What the agents, their users and the network do keeps every store and every
\* datagram well formed.
THEOREM LanTypeCorrect == Spec => []TypeOK
<1>1. LanInv => TypeOK
  BY DEF LanInv
<1>. QED BY <1>1, LanAlways, PTL

\* Long enough after the last intervention every running machine has heard of
\* every other, under the name it has.
LEMMA SettledLemma == LanInv => Settled
<1> SUFFICES ASSUME LanInv, calm > SettleTime, NEW p \in up, NEW q \in up
             PROVE  p \in DOMAIN store[q] /\ store[q][p].nickname = name[p]
  BY DEF Settled
<1>1. TypeOK /\ Known(p, q) /\ p \in MachineID /\ q \in MachineID
  BY DEF LanInv, HeardInv, TypeOK
<1>2. calm \in Nat
  BY <1>1, HorizonLemma DEF TypeOK
<1>3. ASSUME NEW age \in Int, age <= 2 * Interval + MaxLag + MaxDelay, Fresh(p, q, age)
      PROVE  p \in DOMAIN store[q] /\ store[q][p].nickname = name[p]
  <2>1. ~(calm <= age + MaxDelay)
    BY <1>2, <1>3, LanAssumption DEF SettleTime
  <2>. QED BY <1>3, <2>1 DEF Fresh, Heard
<1>4. CASE Fresh(p, q, HeardWithin(p, q))
  <2>1. PICK age \in Nat : age = HeardWithin(p, q) /\ age <= 2 * Interval + MaxLag
    BY <1>1, HeardWithinLemma
  <2>. QED BY <1>3, <1>4, <2>1, LanAssumption
<1>5. CASE \E d \in network : Fresh(p, q, Awaited(d.left))
  <2>1. PICK d \in network : Fresh(p, q, Awaited(d.left))
    BY <1>5
  <2>2. PICK age \in Int : age = Awaited(d.left) /\ age <= 2 * Interval + MaxLag + MaxDelay
    BY <1>1, LanAssumption DEF TypeOK, Datagram, Awaited
  <2>. QED BY <1>3, <2>1, <2>2
<1>. QED BY <1>1, <1>4, <1>5 DEF Known

\* For any number of machines, any of the timings assumed, and however
\* announcements are lost (not two in a row to the same machine), delayed,
\* repeated and reordered: once their users let them be, running machines know
\* each other under the names they have.
THEOREM AlwaysSettled == Spec => []Settled
  BY LanAlways, SettledLemma, PTL

\* Long enough after the last intervention nobody knows a machine that has
\* stopped.
LEMMA GhostsLemma == LanInv => GhostsExpire
<1> SUFFICES ASSUME LanInv, calm > TTL + MaxDelay, NEW q \in MachineID,
                    NEW p \in DOMAIN store[q], p \notin up
             PROVE  FALSE
  BY DEF GhostsExpire
<1>1. IsStore(store[q]) /\ calm \in Nat
  BY HorizonLemma DEF LanInv, TypeOK
<1>2. PICK a \in DOMAIN store[q][p].addresses : store[q][p].addresses[a] \in Nat
  BY <1>1 DEF IsStore, IsPeer
<1>3. p \in MachineID
  BY <1>1 DEF IsStore, IsPartialOn
<1>4. store[q][p].addresses[a] + calm <= TTL + MaxDelay
  BY <1>2, <1>3 DEF LanInv, GhostInv, Waning
<1>. QED BY <1>1, <1>2, <1>4, LanAssumption

\* A machine whose agent was stopped or killed is forgotten by all the others,
\* whatever of its announcements was still under way.
THEOREM GhostsAlwaysExpire == Spec => []GhostsExpire
  BY LanAlways, GhostsLemma, PTL

\* A store that knows exactly the running machines, each under its name, is
\* rendered to the aliases that one of them claims.
LEMMA AliasesLemma ==
  ASSUME NEW peers, IsStore(peers), DOMAIN peers = up,
         \A p \in up : peers[p].nickname = name[p]
  PROVE  Aliases(peers) = Truth
<1>1. \A p \in up : AliasOfPeer(peers, p) = AliasOf[name[p]]
  BY DEF AliasOfPeer
<1>2. \A p \in up : Unambiguous(peers, p) <=>
                      \A o \in up \ {p} : AliasOf[name[o]] # AliasOf[name[p]]
  BY <1>1 DEF Unambiguous, Claimants
<1>3. Aliases(peers) = {<<AliasOfPeer(peers, p), p>> : p \in {i \in up : Unambiguous(peers, i)}}
  <2>1. ASSUME NEW e \in HostsEntries(peers)
        PROVE  \E p \in {i \in up : Unambiguous(peers, i)} :
                 e.alias = AliasOfPeer(peers, p) /\ e.id = p
    BY DEF HostsEntries
  <2>2. ASSUME NEW p \in {i \in up : Unambiguous(peers, i)}
        PROVE  \E e \in HostsEntries(peers) : e.alias = AliasOfPeer(peers, p) /\ e.id = p
    <3>1. PICK a \in DOMAIN peers[p].addresses : TRUE
      BY DEF IsStore, IsPeer
    <3>2. [alias |-> AliasOfPeer(peers, p), id |-> p, address |-> a,
           seen |-> peers[p].addresses[a]] \in HostsEntries(peers)
      BY <3>1 DEF HostsEntries
    <3>. QED BY <3>2
  <2>. QED BY <2>1, <2>2 DEF Aliases
<1>4. Truth = {<<AliasOf[name[p]], p>> : p \in {i \in up : Unambiguous(peers, i)}}
  BY <1>2 DEF Truth
<1>. QED BY <1>1, <1>3, <1>4

\* The hosts files of all running machines are the same, and right: every alias
\* that exactly one of them claims, for that one.
THEOREM AlwaysAgreed == Spec => []Agreed
<1>1. LanInv => Agreed
  <2> SUFFICES ASSUME LanInv, calm = Horizon, NEW q \in up
               PROVE  Aliases(store[q]) = Truth
    BY DEF Agreed
  <2>1. calm > SettleTime /\ calm > TTL + MaxDelay
    BY HorizonLemma
  <2>2. q \in MachineID /\ IsStore(store[q])
    BY DEF LanInv, TypeOK
  <2>3. DOMAIN store[q] = up /\ \A p \in up : store[q][p].nickname = name[p]
    BY <2>1, <2>2, SettledLemma, GhostsLemma DEF Settled, GhostsExpire
  <2>. QED BY <2>2, <2>3, AliasesLemma
<1>. QED BY <1>1, LanAlways, PTL
=============================================================================
