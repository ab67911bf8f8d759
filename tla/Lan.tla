-------------------------------- MODULE Lan --------------------------------
(***************************************************************************)
(* Several machines that run `lan-nick serve` on one LAN, and the LAN: it  *)
(* delays, reorders and repeats announcements, and loses some of them.     *)
(* Users rename their machines, and agents are stopped, killed and started *)
(* again at any time.                                                      *)
(*                                                                         *)
(* An agent is its store here.  It is pruned at every tick, which is as    *)
(* early as the loop can, and the files follow it at once: Agent has the   *)
(* cadence, the order and the failures of their writes.                    *)
(*                                                                         *)
(* Time is relative: it is always Now, and a tick makes everything that    *)
(* was heard one unit older.                                               *)
(***************************************************************************)
EXTENDS PeerStore, FiniteSetsExt

CONSTANTS
  Interval,    \* Options.Interval of every agent
  TTL,         \* Options.TTL of every agent
  MaxLag,      \* assumed bound on the service delay of a ticker
  MaxDelay,    \* assumed bound on the time from send to Observe
  AddressOf,   \* the address of each machine
  MaxFaults    \* bound on renames, stops and kills

ASSUME LanAssumption ==
  /\ Interval \in Nat \ {0}
  /\ TTL \in Nat /\ TTL > 2 * Interval
  /\ MaxLag \in Nat /\ MaxLag < Interval
  /\ MaxDelay \in Nat
  /\ AddressOf \in [MachineID -> Address]
  /\ MaxFaults \in Nat

\* What the TTL leaves for lateness beyond one lost announcement.  Run asks for
\* more than two intervals only; its defaults, 5 and 16 seconds, leave 6.
ASSUME SlackAssumption == 2 * Interval + MaxLag + MaxDelay <= TTL

VARIABLES
  name,        \* config.json of each machine: its nickname
  up,          \* the machines whose agent runs
  store,       \* the Store of each, or the peers.json it left
  announceIn,  \* the time to the next tick of announceTicker
  network,     \* datagrams under way
  missed,      \* the machines that did not get each machine's last datagram
  calm,        \* history: the time since a user did anything
  faults

vars == <<name, up, store, announceIn, network, missed, calm, faults>>

Now == TTL
Oldest == Now - TTL

\* How long it can take until all know what a machine is called.
SettleTime == 2 * Interval + MaxLag + 2 * MaxDelay
Horizon == 1 + Max({SettleTime, TTL + MaxDelay})

\* left is the time in which it must arrive.
Datagram == [ann : Announcement, to : MachineID, left : 0..MaxDelay]

TypeOK ==
  /\ name \in [MachineID -> Nickname]
  /\ up \subseteq MachineID
  /\ DOMAIN store = MachineID /\ \A m \in MachineID : IsStore(store[m])
  /\ announceIn \in [MachineID -> (-MaxLag)..Interval]
  /\ network \subseteq Datagram
  /\ missed \in [MachineID -> SUBSET MachineID]
  /\ calm \in 0..Horizon
  /\ faults \in 0..MaxFaults

\* Everything is installed, and nothing runs.
Init ==
  /\ name \in [MachineID -> Nickname]
  /\ up = {} /\ store = [m \in MachineID |-> NoPeers]
  /\ announceIn = [m \in MachineID |-> 0]
  /\ network = {} /\ missed = [m \in MachineID |-> {}]
  /\ calm = 0 /\ faults = 0

-----------------------------------------------------------------------------
(* What an agent does.                                                     *)

Says(m) == [id |-> m, nickname |-> name[m], key |-> NoKey]

\* advertise also records the machine itself.
Advertised(m, peers) == Observe(peers, Says(m), {AddressOf[m]}, Now)

\* One announcement reaches some machines, among them m itself by loopback.
\* No other machine misses two in a row.
Send(m, running) ==
  \E reached \in SUBSET running :
    /\ {m} \cup (missed[m] \cap running) \subseteq reached
    /\ network' = network \cup
         {[ann |-> Says(m), to |-> q, left |-> MaxDelay] : q \in reached}
    /\ missed' = [missed EXCEPT ![m] = running \ reached]

\* Run up to its first flush.
Start(m) ==
  /\ m \notin up /\ up' = up \cup {m}
  /\ store' = [store EXCEPT ![m] = Advertised(m, Prune(@, Oldest))]
  /\ announceIn' = [announceIn EXCEPT ![m] = Interval]
  /\ calm' = 0
  /\ Send(m, up')
  /\ UNCHANGED <<name, faults>>

\* The announce ticker keeps its phase when it is served late.
Announce(m) ==
  /\ m \in up /\ announceIn[m] <= 0
  /\ store' = [store EXCEPT ![m] = Advertised(m, @)]
  /\ announceIn' = [announceIn EXCEPT ![m] = @ + Interval]
  /\ Send(m, up)
  /\ UNCHANGED <<name, up, calm, faults>>

\* A datagram comes by multicast, and perhaps again by broadcast.
Receive(d) ==
  /\ d \in network /\ d.to \in up
  /\ store' = [store EXCEPT ![d.to] = Observe(@, d.ann, {AddressOf[d.ann.id]}, Now)]
  /\ network' = network \ {d} \/ UNCHANGED network
  /\ UNCHANGED <<name, up, announceIn, missed, calm, faults>>

-----------------------------------------------------------------------------
(* Users, and time.                                                        *)

Fault == faults < MaxFaults /\ faults' = faults + 1 /\ calm' = 0

Rename(m, n) ==
  /\ n # name[m] /\ name' = [name EXCEPT ![m] = n]
  /\ Fault
  /\ UNCHANGED <<up, store, announceIn, network, missed>>

\* A stop empties the files.
Stop(m) ==
  /\ m \in up /\ up' = up \ {m}
  /\ store' = [store EXCEPT ![m] = NoPeers]
  /\ announceIn' = [announceIn EXCEPT ![m] = 0]
  /\ Fault
  /\ UNCHANGED <<name, network, missed>>

\* A kill leaves what was written, which may lack what was just heard.
Kill(m) ==
  /\ m \in up /\ up' = up \ {m}
  /\ \E kept \in SUBSET DOMAIN store[m] :
       store' = [store EXCEPT ![m] = [id \in kept |-> @[id]]]
  /\ announceIn' = [announceIn EXCEPT ![m] = 0]
  /\ Fault
  /\ UNCHANGED <<name, network, missed>>

Older(peers, time(_)) ==
  [id \in DOMAIN peers |->
     [peers[id] EXCEPT !.addresses = [a \in DOMAIN @ |-> time(@[a])]]]

\* MUTANT: nothing is dropped, however old.
AgedForever(peers) == Older(peers, LAMBDA t : t - 1)

\* MUTANT: nothing is dropped, however old.
AgedToZero(peers) == Older(peers, LAMBDA t : IF t = 0 THEN 0 ELSE t - 1)

\* What is older than the TTL is dropped: by the flush of a running agent, and
\* by Load and Prune of the next one.
Aged(peers) == Older(Prune(peers, Oldest + 1), LAMBDA t : t - 1)

\* Not past a ticker or a datagram that is due.
Tick ==
  /\ \A m \in up : announceIn[m] > -MaxLag
  /\ \A d \in network : d.left > 0 \/ d.to \notin up
  /\ store' = [m \in MachineID |-> Aged(store[m])]
  /\ announceIn' = [m \in MachineID |-> IF m \in up THEN announceIn[m] - 1 ELSE 0]
  /\ network' = {[d EXCEPT !.left = @ - 1] : d \in {e \in network : e.left > 0}}
  /\ calm' = IF calm < Horizon THEN calm + 1 ELSE Horizon
  /\ UNCHANGED <<name, up, missed, faults>>

Next ==
  \/ \E m \in MachineID : Start(m) \/ Announce(m) \/ Stop(m) \/ Kill(m)
  \/ \E m \in MachineID, n \in Nickname : Rename(m, n)
  \/ \E d \in network : Receive(d)
  \/ Tick

Spec == Init /\ [][Next]_vars

-----------------------------------------------------------------------------
(* Properties.                                                             *)

\* Machines that have been left alone for the time to settle know each other,
\* and themselves, under the names they have: no loss of a single
\* announcement, no late or repeated datagram from before a rename or a
\* restart, and no looped-back one makes an agent forget or misname another.
Settled ==
  calm > SettleTime =>
    \A p, q \in up : p \in DOMAIN store[q] /\ store[q][p].nickname = name[p]

\* A machine whose agent has ended is forgotten the TTL and the delay of its
\* last datagram later.
GhostsExpire ==
  calm > TTL + MaxDelay => \A q \in MachineID : DOMAIN store[q] \subseteq up

Aliases(peers) == {<<e.alias, e.id>> : e \in HostsEntries(peers)}
Truth == {<<AliasOf[name[m]], m>> : m \in {m \in up :
            \A o \in up \ {m} : AliasOf[name[o]] # AliasOf[name[m]]}}

\* Once users have left their machines alone for that long, the hosts files of
\* all machines that run are the same: every alias that one of them claims.
Agreed == calm = Horizon => \A q \in up : Aliases(store[q]) = Truth
=============================================================================
