-------------------------- MODULE PeerStoreProofs --------------------------
(***************************************************************************)
(* What the operators of PeerStore return, for every store.                *)
(***************************************************************************)
EXTENDS PeerStore, TLAPS

\* No sighting in the store is later than the given time.
SeenBy(store, time) ==
  \A id \in DOMAIN store : \A a \in DOMAIN store[id].addresses :
    store[id].addresses[a] <= time

\* No sighting in the store is earlier than the given time.
SeenSince(store, time) ==
  \A id \in DOMAIN store : \A a \in DOMAIN store[id].addresses :
    store[id].addresses[a] >= time

\* The empty map is a store, seen neither late nor early.
LEMMA NoPeersLemma ==
  /\ IsStore(NoPeers)
  /\ IsKnownHosts(NoPeers)
  /\ \A t \in Int : SeenBy(NoPeers, t) /\ SeenSince(NoPeers, t)
  BY DEF NoPeers, IsStore, IsKnownHosts, IsPartialOn, SeenBy, SeenSince

\* Pruning keeps exactly the sightings that are recent enough.
LEMMA PruneLemma ==
  ASSUME NEW store, IsStore(store), NEW before \in Int
  PROVE  /\ IsStore(Prune(store, before))
         /\ SeenSince(Prune(store, before), before)
         /\ \A t \in Int : SeenBy(store, t) => SeenBy(Prune(store, before), t)
<1> DEFINE P == Prune(store, before)
           A(id) == Recent(store[id], before)
           kept == {i \in DOMAIN store : A(i) # {}}
<1>1. /\ DOMAIN P = kept
      /\ P = [id \in DOMAIN P |-> P[id]]
      /\ \A id \in kept : P[id] = [nickname  |-> store[id].nickname,
                                  key       |-> store[id].key,
                                  addresses |-> [a \in A(id) |-> store[id].addresses[a]]]
  BY DEF Prune
<1>2. ASSUME NEW id \in kept
      PROVE  /\ P[id] \in [nickname : Nickname, key : HostKey \cup {NoKey},
                           addresses : {P[id].addresses}]
             /\ P[id].addresses = [a \in A(id) |-> store[id].addresses[a]]
  <2>1. store[id] \in [nickname : Nickname, key : HostKey \cup {NoKey},
                       addresses : {store[id].addresses}]
    BY DEF IsStore, IsPeer
  <2>2. P[id] = [nickname  |-> store[id].nickname,
                 key       |-> store[id].key,
                 addresses |-> [a \in A(id) |-> store[id].addresses[a]]]
    BY <1>1
  <2>3. store[id].nickname \in Nickname /\ store[id].key \in HostKey \cup {NoKey}
    BY <2>1
  <2>4. P[id].addresses = [a \in A(id) |-> store[id].addresses[a]]
    <3> HIDE DEF P, A
    <3>. QED BY <2>2
  <2>5. P[id] \in [nickname : Nickname, key : HostKey \cup {NoKey},
                  addresses : {P[id].addresses}]
    <3> DEFINE S == [a \in A(id) |-> store[id].addresses[a]]
    <3>1. P[id] = [nickname |-> store[id].nickname, key |-> store[id].key,
                   addresses |-> S]
      BY <2>2
    <3> HIDE DEF P, A, S
    <3>. QED BY <2>3, <3>1
  <2>. QED BY <2>4, <2>5
<1>3. ASSUME NEW id \in kept
      PROVE  /\ IsPeer(P[id])
             /\ \A a \in DOMAIN P[id].addresses :
                  /\ a \in DOMAIN store[id].addresses
                  /\ P[id].addresses[a] = store[id].addresses[a]
                  /\ P[id].addresses[a] >= before
  <2>1. /\ A(id) # {} /\ A(id) \subseteq DOMAIN store[id].addresses
        /\ \A a \in A(id) : store[id].addresses[a] \in Nat /\ store[id].addresses[a] >= before
        /\ DOMAIN store[id].addresses \subseteq Address
    BY DEF IsStore, IsPeer, IsPartialOn, Recent
  <2>. QED BY <1>2, <2>1 DEF IsPeer, IsPartialOn
<1>4. IsStore(P)
  BY <1>1, <1>3 DEF IsStore, IsPartialOn
<1>5. SeenSince(P, before)
  BY <1>1, <1>3 DEF SeenSince
<1>6. ASSUME NEW t \in Int, SeenBy(store, t) PROVE SeenBy(P, t)
  BY <1>1, <1>3, <1>6 DEF SeenBy
<1>. QED BY <1>4, <1>5, <1>6

\* A sighting that is recent enough survives, and keeps its machine.
LEMMA PruneKeepsLemma ==
  ASSUME NEW store, NEW before \in Int, NEW id \in DOMAIN store,
         NEW a \in DOMAIN store[id].addresses, store[id].addresses[a] >= before
  PROVE  /\ id \in DOMAIN Prune(store, before)
         /\ a \in DOMAIN Prune(store, before)[id].addresses
         /\ Prune(store, before)[id].nickname = store[id].nickname
<1>1. a \in Recent(store[id], before)
  BY DEF Recent
<1>2. id \in {i \in DOMAIN store : Recent(store[i], before) # {}}
  BY <1>1
<1>3. Prune(store, before)[id] =
        [nickname  |-> store[id].nickname,
         key       |-> store[id].key,
         addresses |-> [b \in Recent(store[id], before) |-> store[id].addresses[b]]]
  BY <1>2 DEF Prune
<1>4. DOMAIN Prune(store, before)[id].addresses = Recent(store[id], before)
  BY <1>3
<1>. QED BY <1>1, <1>2, <1>3, <1>4 DEF Prune

\* Observing forgets no machine, and no address except by a rename.
LEMMA ObserveKeepsLemma ==
  ASSUME NEW store, NEW ann, NEW addrs, NEW now,
         NEW id \in DOMAIN store, NEW a \in DOMAIN store[id].addresses
  PROVE  LET O == Observe(store, ann, addrs, now)
         IN  id \in DOMAIN O /\ (a \in DOMAIN O[id].addresses
                                  \/ O[id].nickname # store[id].nickname)
<1> DEFINE O == Observe(store, ann, addrs, now)
<1>1. CASE addrs = {} \/ id # ann.id
  <2>1. id \in DOMAIN O /\ O[id] = store[id]
    BY <1>1 DEF Observe
  <2>. QED BY <2>1
<1>2. CASE addrs # {} /\ id = ann.id
  <2> DEFINE K == KeptAddresses(store, ann)
             S == [b \in addrs \cup DOMAIN K |-> IF b \in addrs THEN now ELSE K[b]]
  <2>1. /\ id \in DOMAIN O
        /\ O[id] = [nickname |-> ann.nickname, key |-> ann.key, addresses |-> S]
    BY <1>2 DEF Observe
  <2>2. DOMAIN K \subseteq DOMAIN S
    OBVIOUS
  <2>3. O[id].nickname = ann.nickname /\ O[id].addresses = S
    <3> HIDE DEF S, O
    <3>. QED BY <2>1
  <2>4. CASE store[id].nickname = ann.nickname
    <3>1. K = store[id].addresses
      BY <1>2, <2>4 DEF KeptAddresses
    <3>. QED BY <2>1, <2>2, <2>3, <3>1
  <2>5. CASE store[id].nickname # ann.nickname
    BY <2>1, <2>3, <2>5
  <2>. QED BY <2>4, <2>5
<1>. QED BY <1>1, <1>2

\* Pruning by a time later than every sighting leaves nothing, and neither
\* does pruning nothing.
LEMMA PruneAllLemma ==
  ASSUME NEW store, IsStore(store), NEW time \in Int, SeenBy(store, time),
         NEW before \in Int, before > time
  PROVE  Prune(store, before) = NoPeers
<1>1. \A id \in DOMAIN store : Recent(store[id], before) = {}
  BY DEF Recent, SeenBy, IsStore, IsPeer
<1>. QED BY <1>1 DEF Prune, NoPeers

\* Pruning the empty map leaves it empty.
LEMMA PruneNoPeersLemma ==
  ASSUME NEW before \in Int PROVE Prune(NoPeers, before) = NoPeers
  BY DEF Prune, NoPeers, Recent

\* Observing keeps the map well formed and dates nothing later than now.
LEMMA ObserveLemma ==
  ASSUME NEW store, IsStore(store), NEW ann \in Announcement,
         NEW addrs \in SUBSET Address, NEW now \in Nat
  PROVE  /\ IsStore(Observe(store, ann, addrs, now))
         /\ SeenBy(store, now) => SeenBy(Observe(store, ann, addrs, now), now)
<1> DEFINE O == Observe(store, ann, addrs, now)
           K == KeptAddresses(store, ann)
           S == [a \in addrs \cup DOMAIN K |-> IF a \in addrs THEN now ELSE K[a]]
           peer == [nickname |-> ann.nickname, key |-> ann.key, addresses |-> S]
<1>1. CASE addrs = {}
  BY <1>1 DEF Observe
<1>2. CASE addrs # {}
  <2>1. /\ IsPartialOn(K, Address) /\ \A a \in DOMAIN K : K[a] \in Nat
        /\ SeenBy(store, now) => \A a \in DOMAIN K : K[a] <= now
    <3>1. CASE ann.id \in DOMAIN store /\ store[ann.id].nickname = ann.nickname
      BY <3>1 DEF KeptAddresses, IsStore, IsPeer, SeenBy
    <3>2. CASE ~(ann.id \in DOMAIN store /\ store[ann.id].nickname = ann.nickname)
      BY <3>2 DEF KeptAddresses, IsPartialOn
    <3>. QED BY <3>1, <3>2
  <2>2. /\ DOMAIN S = addrs \cup DOMAIN K
        /\ S = [a \in DOMAIN S |-> S[a]]
        /\ \A a \in DOMAIN S : S[a] = IF a \in addrs THEN now ELSE K[a]
    OBVIOUS
  <2>3. /\ DOMAIN S \subseteq Address /\ DOMAIN S # {}
        /\ \A a \in DOMAIN S : S[a] \in Nat
        /\ SeenBy(store, now) => \A a \in DOMAIN S : S[a] <= now
    <3> HIDE DEF S, K
    <3>. QED BY <1>2, <2>1, <2>2 DEF IsPartialOn
  <2>4. IsPeer(peer)
    BY <2>2, <2>3 DEF IsPeer, IsPartialOn, Announcement
  <2>5. O = [i \in DOMAIN store \cup {ann.id} |-> IF i = ann.id THEN peer ELSE store[i]]
    BY <1>2 DEF Observe
  <2>6. /\ DOMAIN O = {ann.id} \cup DOMAIN store
        /\ O = [i \in DOMAIN O |-> O[i]]
        /\ \A i \in DOMAIN O : O[i] = IF i = ann.id THEN peer ELSE store[i]
    <3> HIDE DEF peer
    <3>. QED BY <2>5
  <2>7. IsStore(O)
    BY <2>4, <2>6 DEF IsStore, IsPartialOn, Announcement
  <2>8. ASSUME SeenBy(store, now) PROVE SeenBy(O, now)
    <3> HIDE DEF O, S
    <3>1. peer.addresses = S
      OBVIOUS
    <3>. QED BY <2>3, <2>6, <2>8, <3>1 DEF SeenBy
  <2>. QED BY <2>7, <2>8
<1>. QED BY <1>1, <1>2

\* What is rendered is well formed, and the hosts file lists sightings of
\* the store only.
LEMMA RenderLemma ==
  ASSUME NEW store, IsStore(store)
  PROVE  /\ HostsEntries(store) \subseteq HostsEntry
         /\ \A e \in HostsEntries(store) :
              e.id \in DOMAIN store /\ e.address \in DOMAIN store[e.id].addresses
                /\ e.seen = store[e.id].addresses[e.address]
         /\ IsKnownHosts(KnownHosts(store))
         /\ SSHBlocks(store) \subseteq SSHBlock
<1>1. \A id \in DOMAIN store :
        /\ id \in MachineID
        /\ AliasOfPeer(store, id) \in Alias
        /\ store[id].key \in HostKey \cup {NoKey}
        /\ \A a \in DOMAIN store[id].addresses :
             a \in Address /\ store[id].addresses[a] \in Nat
  BY AliasAssumption DEF IsStore, IsPeer, IsPartialOn, AliasOfPeer
<1>2. ASSUME NEW e \in HostsEntries(store)
      PROVE  \E id \in DOMAIN store : \E a \in DOMAIN store[id].addresses :
               e = [alias |-> AliasOfPeer(store, id), id |-> id, address |-> a,
                    seen |-> store[id].addresses[a]]
  BY DEF HostsEntries
<1>3. ASSUME NEW e \in HostsEntries(store)
      PROVE  /\ e \in HostsEntry
             /\ e.id \in DOMAIN store /\ e.address \in DOMAIN store[e.id].addresses
             /\ e.seen = store[e.id].addresses[e.address]
  BY <1>1, <1>2 DEF HostsEntry
<1>4. IsKnownHosts(KnownHosts(store))
  BY <1>1 DEF KnownHosts, TrustedPeers, IsKnownHosts, IsPartialOn
<1>5. SSHBlocks(store) \subseteq SSHBlock
  BY <1>1 DEF SSHBlocks, TrustedPeers, SSHBlock
<1>. QED BY <1>3, <1>4, <1>5

\* Nothing is rendered for an empty map.
LEMMA RenderNoPeersLemma ==
  HostsEntries(NoPeers) = {} /\ KnownHosts(NoPeers) = NoPeers /\ SSHBlocks(NoPeers) = {}
<1>1. HostsEntries(NoPeers) = {}
  BY DEF HostsEntries, NoPeers
<1>2. KnownHosts(NoPeers) = NoPeers
  BY DEF KnownHosts, TrustedPeers, NoPeers
<1>3. SSHBlocks(NoPeers) = {}
  BY DEF SSHBlocks, TrustedPeers, NoPeers
<1>. QED BY <1>1, <1>2, <1>3

\* The hosts file and the SSH configuration of one snapshot agree on which
\* machine an alias is.
LEMMA SnapshotAgrees ==
  ASSUME NEW store, NEW e \in HostsEntries(store), NEW b \in SSHBlocks(store),
         e.alias = b.alias
  PROVE  e.id = b.id
<1>1. PICK i \in DOMAIN store : Unambiguous(store, i) /\ e.id = i
                                  /\ e.alias = AliasOfPeer(store, i)
  BY DEF HostsEntries
<1>2. PICK j \in DOMAIN store : Unambiguous(store, j) /\ b.id = j
                                  /\ b.alias = AliasOfPeer(store, j)
  BY DEF SSHBlocks, TrustedPeers
<1>. QED BY <1>1, <1>2 DEF Unambiguous
=============================================================================
