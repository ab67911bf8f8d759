------------------------------ MODULE MCAgent ------------------------------
(***************************************************************************)
(* Small instances of Agent: this machine and one or two others, one of    *)
(* which may claim a name whose alias is taken.                            *)
(***************************************************************************)
EXTENDS Agent, TLC

CONSTANTS self, p, q, nA, nB, nC, ip0, ip1, ip2, k0, k1

\* Two nicknames, nA and nB, fold to the same alias.
MCAliasOf == nA :> "a" @@ nB :> "a" @@ nC :> "c"
MCAlias == {"a", "c"}

Says(id, n, key, ip) ==
  [ann |-> [id |-> id, nickname |-> n, key |-> key], address |-> ip]

\* One other machine that never changes.
HeardOne == {Says(p, nC, k1, ip1)}

\* A machine that renames itself into a collision with this one and loses
\* its SSH key, and one that claims the alias it had before.
HeardFiles ==
  {Says(p, nC, k1, ip1), Says(p, nB, NoKey, ip1), Says(q, nC, k0, ip2)}

\* This machine's own datagrams, looped back, under either of its names.
HeardLoopback == {Says(self, nA, k0, ip0), Says(self, nC, k0, ip0)}
=============================================================================
