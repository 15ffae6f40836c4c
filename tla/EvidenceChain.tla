--------------------------- MODULE EvidenceChain ---------------------------
(***************************************************************************)
(* What the evidence ledger promises, with nothing of how it is done: for  *)
(* every tenant one chain of receipts.  A receipt carries the hash of the  *)
(* receipt before it, sequence numbers count from 0 without gaps, and the  *)
(* only thing that ever happens is that one receipt is appended at the     *)
(* head of one tenant's chain.                                             *)
(*                                                                         *)
(* A receipt hash is collision free and binds a freshly drawn snapshot id, *)
(* so a member of Hashes stands for the hash value itself.                 *)
(***************************************************************************)
EXTENDS Integers

CONSTANTS
    Tenants,    \* tenant ids
    Hashes,     \* receipt hashes
    Genesis     \* the previous hash of a tenant's first receipt

VARIABLE chain  \* the set of links of all tenants' chains

Link == [tenant : Tenants, seq : Nat, prev : Hashes \cup {Genesis}, hash : Hashes]

LinksOf(t) == {l \in chain : l.tenant = t}

\* l continues tenant t's chain: it starts it, or it follows its last link.
Extends(t, l) ==
    \/ /\ LinksOf(t) = {}
       /\ l.seq = 0
       /\ l.prev = Genesis
    \/ \E last \in LinksOf(t) :
          /\ \A m \in LinksOf(t) : m.seq <= last.seq
          /\ l.seq = last.seq + 1
          /\ l.prev = last.hash

Init == chain = {}

AppendLink(t) ==
    \E l \in chain' \ chain :
        /\ l \in Link
        /\ l.tenant = t
        /\ \A m \in chain : m.hash # l.hash
        /\ Extends(t, l)
        /\ chain' = chain \cup {l}

Next == \E t \in Tenants : AppendLink(t)

Spec == Init /\ [][Next]_chain
=============================================================================
