-------------------------------- MODULE Acl --------------------------------
(***************************************************************************)
(* Access control lists (src/src/vcl-acl.ts): what loading an ACL rejects  *)
(* (validateAclEntries), std.acl, and what matching an address against an  *)
(* ACL answers (aclMatch).  Both are loops over the entries, and for each  *)
(* over what it resolves to.                                               *)
(***************************************************************************)
EXTENDS Integers, FiniteSetsExt, SequencesExt

CONSTANTS
  ByteBits,   \* bits of a byte: 8
  Bytes,      \* family -> bytes of an address: 4 or 16
  Loopbacks,  \* LOCALHOST_EXPANSION: one address per family
  Localhost,  \* the one hostname an entry may give
  Junk,       \* a text that is no address
  NoMask,     \* an entry without a prefix length
  NoEntry,    \* null
  Lists,      \* the ACLs of programs: sequences of [ip, subnet, negated]
  Added,      \* entries std.acl.add_entry may add, and remove_entry take out
  Queries,    \* addresses and junk
  MaxEdits    \* bound of the model: calls of std.acl

VARIABLES
  list,   \* the entries
  query,  \* the address that is matched
  pc,     \* "validating", "rejected", "loaded", "matching" or "answered"
  row, part,   \* the loops: the entry, and what it resolves to
  seen,   \* the network keys met so far -> their negation
  best,   \* the most specific entry so far
  edits   \* calls of std.acl so far

aclVars == <<list, query, pc, row, part, seen, best, edits>>

Families == DOMAIN Bytes

Addresses ==
  UNION {[family : {f}, bytes : [1 .. Bytes[f] -> 0 .. 2 ^ ByteBits - 1]] : f \in Families}

AclEntries == [ip : Addresses \cup {Localhost, Junk}, subnet : Nat \cup {NoMask}, negated : BOOLEAN]

ResolvedEntries ==
  [family : Families, bytes : {a.bytes : a \in Addresses}, mask : Nat, negated : BOOLEAN]

ASSUME AclAssumption ==
  /\ ByteBits \in Nat \ {0}
  /\ Bytes \in [Families -> Nat \ {0}]
  /\ Loopbacks \in Seq(Addresses)
  /\ Localhost \notin Addresses /\ Junk \notin Addresses
  /\ NoMask \notin Nat
  /\ NoEntry \notin ResolvedEntries
  /\ \A l \in Lists : l \in Seq(AclEntries)
  /\ Added \subseteq AclEntries
  /\ MaxEdits \in Nat

Full(address) == ByteBits * Bytes[address.family]

Resolved(address, mask, negated) ==
  [family |-> address.family, bytes |-> address.bytes, mask |-> mask, negated |-> negated]

(* resolveEntry: localhost is its addresses exactly, whatever the prefix    *)
(* length; what does not parse is nothing.                                  *)
Resolve(entry) ==
  IF entry.ip = Localhost
    THEN [n \in DOMAIN Loopbacks |-> Resolved(Loopbacks[n], Full(Loopbacks[n]), entry.negated)]
  ELSE IF entry.ip \in Addresses
    THEN <<Resolved(entry.ip, IF entry.subnet = NoMask THEN Full(entry.ip) ELSE entry.subnet,
                    entry.negated)>>
  ELSE <<>>

(* The first bits of a byte.                                                *)
High(byte, bits) == byte \div 2 ^ (ByteBits - bits)

(* Mutant of PrefixMatches: only whole bytes are compared.                  *)
WholeBytesMatch(a, b, mask) == \A n \in 1 .. mask \div ByteBits : a[n] = b[n]

(* prefixMatches                                                            *)
PrefixMatches(a, b, mask) ==
  LET full == mask \div ByteBits
      rest == mask % ByteBits
  IN /\ \A n \in 1 .. full : a[n] = b[n]
     /\ rest = 0 \/ High(a[full + 1], rest) = High(b[full + 1], rest)

(* networkKey                                                               *)
NetworkKey(entry) ==
  LET full == entry.mask \div ByteBits
      rest == entry.mask % ByteBits
  IN [family |-> entry.family,
      mask   |-> entry.mask,
      bytes  |-> [n \in 1 .. full |-> entry.bytes[n]],
      last   |-> IF rest = 0 THEN 0
                 ELSE High(entry.bytes[full + 1], rest) * 2 ^ (ByteBits - rest)]

AclInit ==
  /\ list \in Lists
  /\ query \in Queries
  /\ pc = "validating"
  /\ row = 1 /\ part = 1
  /\ seen = {}
  /\ best = NoEntry
  /\ edits = 0

-----------------------------------------------------------------------------
(* The loops.                                                               *)

EntryHere == Resolve(list[row])[part]

InEntry == row <= Len(list) /\ part <= Len(Resolve(list[row]))

(* An entry is done.                                                        *)
NextEntry ==
  /\ pc \in {"validating", "matching"}
  /\ row <= Len(list) /\ part > Len(Resolve(list[row]))
  /\ row' = row + 1 /\ part' = 1
  /\ UNCHANGED <<list, query, pc, seen, best, edits>>

(* validateAclEntries: the same network as-is and negated is rejected.      *)
Validate ==
  /\ pc = "validating" /\ InEntry
  /\ LET met == {s \in seen : s.key = NetworkKey(EntryHere)}
     IN /\ pc' = IF \E s \in met : s.negated # EntryHere.negated THEN "rejected" ELSE pc
        /\ seen' = IF met = {} THEN seen \cup {[key |-> NetworkKey(EntryHere), negated |-> EntryHere.negated]}
                   ELSE seen
  /\ part' = part + 1
  /\ UNCHANGED <<list, query, row, best, edits>>

Load ==
  /\ pc = "validating" /\ row > Len(list)
  /\ pc' = "loaded"
  /\ UNCHANGED <<list, query, row, part, seen, best, edits>>

(* std.acl.add_entry: nothing is validated.                                 *)
AddEntry(entry) ==
  /\ pc = "loaded" /\ edits < MaxEdits
  /\ list' = Append(list, entry)
  /\ edits' = edits + 1
  /\ UNCHANGED <<query, pc, row, part, seen, best>>

(* std.acl.remove_entry: the first one written so, negated or not.          *)
RemoveEntry(ip, subnet) ==
  /\ pc = "loaded" /\ edits < MaxEdits
  /\ \E n \in DOMAIN list :
       /\ list[n].ip = ip /\ list[n].subnet = subnet
       /\ \A m \in 1 .. n - 1 : list[m].ip # ip \/ list[m].subnet # subnet
       /\ list' = [m \in 1 .. Len(list) - 1 |-> list[IF m < n THEN m ELSE m + 1]]
  /\ edits' = edits + 1
  /\ UNCHANGED <<query, pc, row, part, seen, best>>

(* aclMatch begins; what is no address matches nothing.                     *)
Match ==
  /\ pc = "loaded"
  /\ pc' = IF query \in Addresses THEN "matching" ELSE "answered"
  /\ row' = 1 /\ part' = 1
  /\ best' = NoEntry
  /\ UNCHANGED <<list, query, seen, edits>>

Holds(entry, address) ==
  /\ entry.family = address.family
  /\ PrefixMatches(address.bytes, entry.bytes, entry.mask)

Better(entry) == best = NoEntry \/ entry.mask > best.mask

Weigh ==
  /\ pc = "matching" /\ InEntry
  /\ best' = IF Holds(EntryHere, query) /\ Better(EntryHere) THEN EntryHere ELSE best
  /\ part' = part + 1
  /\ UNCHANGED <<list, query, pc, row, seen, edits>>

Answer ==
  /\ pc = "matching" /\ row > Len(list)
  /\ pc' = "answered"
  /\ UNCHANGED <<list, query, row, part, seen, best, edits>>

Matched == best # NoEntry /\ ~best.negated

AclNext ==
  \/ NextEntry \/ Validate \/ Load \/ Match \/ Weigh \/ Answer
  \/ \E entry \in Added : AddEntry(entry) \/ RemoveEntry(entry.ip, entry.subnet)

AclSpec == AclInit /\ [][AclNext]_aclVars

-----------------------------------------------------------------------------
(* Properties.                                                              *)

(* All an ACL's entries resolve to, in whatever order.                      *)
Networks == UNION {{Resolve(list[n])[m] : m \in DOMAIN Resolve(list[n])} : n \in DOMAIN list}

(* An address as a number, and the addresses a network covers.              *)
Number(family, bytes) ==
  MapThenSumSet(LAMBDA n : bytes[n] * 2 ^ (ByteBits * (Bytes[family] - n)), 1 .. Bytes[family])

Network(entry) ==
  <<entry.family, entry.mask,
    Number(entry.family, entry.bytes) \div 2 ^ (ByteBits * Bytes[entry.family] - entry.mask)>>

Covers(entry, address) ==
  /\ entry.family = address.family
  /\ Network(entry) = Network([entry EXCEPT !.bytes = address.bytes])

AclTypeOK ==
  /\ list \in Seq(AclEntries)
  /\ pc \in {"validating", "rejected", "loaded", "matching", "answered"}
  /\ pc \in {"validating", "matching"} => row \in 1 .. Len(list) + 1
  /\ best = NoEntry \/ best \in Networks

(* An address matches exactly when the smallest network of the list that    *)
(* holds it is not an exclusion: the order of the entries does not matter   *)
(* in a list that loads, and lists load unless a network is both.           *)
AclLongest ==
  LET contradicts == \E m, n \in Networks : Network(m) = Network(n) /\ m.negated # n.negated
      holding     == {n \in Networks : Covers(n, query)}
  IN /\ pc = "rejected" => contradicts
     /\ pc = "loaded" /\ edits = 0 => ~contradicts
     /\ pc = "answered" /\ query = Junk => ~Matched
     /\ pc = "answered" /\ query # Junk /\ ~contradicts =>
          Matched = \E n \in holding : ~n.negated /\ \A m \in holding : m.mask <= n.mask
=============================================================================
