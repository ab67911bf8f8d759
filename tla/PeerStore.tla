----------------------------- MODULE PeerStore -----------------------------
(***************************************************************************)
(* The peer map of an agent (internal/store) and what the two renderers    *)
(* derive from a snapshot of it: the entries of the hosts file             *)
(* (internal/hosts) and the SSH files (internal/sshconfig).                *)
(*                                                                         *)
(* A store is a partial function from machine IDs to peers, a peer's       *)
(* addresses a partial function from IPv4 addresses to the time each was   *)
(* last heard.  The group of a peer is left out: it only chooses a heading *)
(* of `lan-nick map`.  An alias is a function of the nickname, which       *)
(* Announcement.Validate enforces, so it is not stored.                    *)
(***************************************************************************)
EXTENDS Integers, FiniteSets

CONSTANTS
  MachineID,   \* the 32-digit IDs of config.json
  Nickname,
  Alias,       \* the host names peers are given
  Address,     \* global unicast IPv4 addresses
  HostKey,     \* public SSH host keys
  NoKey,       \* the empty SSHHostKey of a machine without one
  AliasOf      \* config.Alias on valid nicknames

ASSUME AliasAssumption == AliasOf \in [Nickname -> Alias]
ASSUME KeyAssumption == NoKey \notin HostKey

\* What a datagram that passes Decode and Validate says.
Announcement ==
  [id : MachineID, nickname : Nickname, key : HostKey \cup {NoKey}]

\* The functions from a subset of X.
IsPartialOn(f, X) == DOMAIN f \subseteq X /\ f = [x \in DOMAIN f |-> f[x]]

\* A peer always has an address: Observe adds one, Prune and Load drop
\* peers without any.
IsPeer(peer) ==
  /\ peer \in [nickname : Nickname, key : HostKey \cup {NoKey},
               addresses : {peer.addresses}]
  /\ IsPartialOn(peer.addresses, Address)
  /\ DOMAIN peer.addresses # {}
  /\ \A a \in DOMAIN peer.addresses : peer.addresses[a] \in Nat

IsStore(store) ==
  IsPartialOn(store, MachineID) /\ \A id \in DOMAIN store : IsPeer(store[id])

NoPeers == [id \in {} |-> id]

-----------------------------------------------------------------------------
(* Updates of the map.                                                     *)

\* The addresses Observe starts from: those of the entry, unless the machine
\* is new or has changed its name.
KeptAddresses(store, ann) ==
  IF ann.id \in DOMAIN store /\ store[ann.id].nickname = ann.nickname
    THEN store[ann.id].addresses
    ELSE [a \in {} |-> 0]

\* MUTANT: a machine is recorded although no interface could send.
ObserveNowhere(store, ann, addrs, now) ==
  LET kept == KeptAddresses(store, ann)
  IN  [id \in DOMAIN store \cup {ann.id} |->
         IF id # ann.id THEN store[id]
         ELSE [nickname  |-> ann.nickname,
               key       |-> ann.key,
               addresses |-> [a \in addrs \cup DOMAIN kept |->
                                IF a \in addrs THEN now ELSE kept[a]]]]

\* Store.Observe for every address of addrs at the same instant; the agent
\* calls it once per interface for itself and once per received datagram.
Observe(store, ann, addrs, now) ==
  LET kept == KeptAddresses(store, ann)
      peer == [nickname  |-> ann.nickname,
               key       |-> ann.key,
               addresses |-> [a \in addrs \cup DOMAIN kept |->
                                IF a \in addrs THEN now ELSE kept[a]]]
  IN  IF addrs = {} THEN store
      ELSE [id \in DOMAIN store \cup {ann.id} |->
              IF id = ann.id THEN peer ELSE store[id]]

\* MUTANT: nothing expires.
RecentForever(peer, before) == DOMAIN peer.addresses

\* MUTANT: an address expires at the very moment its TTL has passed.
RecentStrict(peer, before) ==
  {a \in DOMAIN peer.addresses : peer.addresses[a] > before}

Recent(peer, before) ==
  {a \in DOMAIN peer.addresses : peer.addresses[a] >= before}

\* Store.Prune: forget addresses last heard before the given time, then
\* machines without addresses.
Prune(store, before) ==
  [id \in {i \in DOMAIN store : Recent(store[i], before) # {}} |->
     [nickname  |-> store[id].nickname,
      key       |-> store[id].key,
      addresses |-> [a \in Recent(store[id], before) |-> store[id].addresses[a]]]]

-----------------------------------------------------------------------------
(* What a snapshot is rendered to.                                         *)

AliasOfPeer(store, id) == AliasOf[store[id].nickname]
Claimants(store, alias) == {id \in DOMAIN store : AliasOfPeer(store, id) = alias}

\* MUTANT: collisions are looked for among nicknames, not aliases.
UnambiguousNickname(store, id) ==
  {i \in DOMAIN store : store[i].nickname = store[id].nickname} = {id}

\* MUTANT: collisions are not looked for.
UnambiguousAlways(store, id) == id \in DOMAIN store

\* Neither renderer maps an alias that several machines advertise.
Unambiguous(store, id) == Claimants(store, AliasOfPeer(store, id)) = {id}

\* A line of the hosts file, with the ID and the time of the sighting it
\* stands for (neither is written; the properties speak about them).
HostsEntry == [alias : Alias, id : MachineID, address : Address, seen : Nat]

HostsEntries(store) ==
  UNION { {[alias   |-> AliasOfPeer(store, id),
            id      |-> id,
            address |-> a,
            seen    |-> store[id].addresses[a]] : a \in DOMAIN store[id].addresses}
          : id \in {i \in DOMAIN store : Unambiguous(store, i)} }

TrustedPeers(store) ==
  {id \in DOMAIN store : Unambiguous(store, id) /\ store[id].key # NoKey}

\* ssh_known_hosts: one key per machine ID.
KnownHosts(store) == [id \in TrustedPeers(store) |-> store[id].key]
IsKnownHosts(file) ==
  IsPartialOn(file, MachineID) /\ \A id \in DOMAIN file : file[id] \in HostKey

\* The managed part of ssh_config: Host <alias> with HostKeyAlias <id>.
SSHBlock == [alias : Alias, id : MachineID]
SSHBlocks(store) ==
  {[alias |-> AliasOfPeer(store, id), id |-> id] : id \in TrustedPeers(store)}
=============================================================================
