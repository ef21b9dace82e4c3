---------------------------- MODULE NetInterfaces ----------------------------
(***************************************************************************)
(* The interfaces of the system as net.c shows them: the iterator over     *)
(* what getifaddrs() returns, and the search for the interface in whose    *)
(* network an address lies.                                                *)
(*                                                                         *)
(* An address is the sequence of its bits, fewer than the real ones, with  *)
(* its family.  A netmask is an address.  An entry without an address, as  *)
(* tunnels have, has NULL for it, and may have NULL for a netmask.         *)
(***************************************************************************)
EXTENDS Bytes, FiniteSets
LOCAL INSTANCE FiniteSetsExt

CONSTANTS
    InterfaceLists, \* lists that getifaddrs may return
    Destinations,   \* addresses that an interface is looked for
    Families        \* values of sa_family, with "unspec" for all of them

ASSUME FamiliesAssumption == "unspec" \in Families

VARIABLES
    ifaddrs,        \* the list
    iterator,       \* family and position of the iterator, NULL without one;
                    \* position 0 stands for an ifa that is NULL
    returned,       \* the positions of this pass over the list
    finished,       \* has_next was FALSE at the end of this pass
    matching        \* the last search with its result, NULL before; the result
                    \* is NULL if it has read through a null pointer

netVars == <<ifaddrs, iterator, returned, finished, matching>>

Masked(addr, mask) == [i \in DOMAIN addr.bits |-> addr.bits[i] * mask.bits[i]]

\* Mutation of NetAddrMatch: the destination is not masked.
MatchFirstMasked(addr1, addr2, mask) ==
    /\ addr1.family = addr2.family /\ addr2.family = mask.family
    /\ Masked(addr1, mask) = addr2.bits

\* net_addr_match
NetAddrMatch(addr1, addr2, mask) ==
    /\ addr1.family = addr2.family /\ addr2.family = mask.family
    /\ Masked(addr1, mask) = Masked(addr2, mask)

\* The test of net_iface_iterator_has_next.
Suits(iface, family) ==
    family = "unspec" \/ (iface.addr # NULL /\ iface.addr.family = family)

\* Mutation of NextSuiting: the loop does not go on.
NextOfAny(ifa, family) == IF ifa < Len(ifaddrs) /\ Suits(ifaddrs[ifa + 1], family) THEN ifa + 1 ELSE 0

\* The position where the loop of net_iface_iterator_has_next ends.
NextSuiting(ifa, family) ==
    LET ahead == {i \in ifa + 1 .. Len(ifaddrs) : Suits(ifaddrs[i], family)}
    IN  IF ahead = {} THEN 0 ELSE Min(ahead)

-----------------------------------------------------------------------------
NetInit ==
    /\ ifaddrs \in InterfaceLists
    /\ iterator = NULL /\ returned = <<>> /\ finished = FALSE /\ matching = NULL

\* net_iface_iterator_new
NewIterator(family) ==
    /\ iterator = NULL
    /\ iterator' = [family |-> family, ifa |-> 0]
    /\ returned' = <<>> /\ finished' = FALSE
    /\ UNCHANGED <<ifaddrs, matching>>

\* net_iface_iterator_has_next: behind the last interface it returns FALSE once, and
\* then begins with the first again.
HasNext ==
    /\ iterator # NULL
    /\ LET next == NextSuiting(iterator.ifa, iterator.family)
           pass == IF iterator.ifa = 0 THEN <<>> ELSE returned
       IN  /\ iterator' = [iterator EXCEPT !.ifa = next]
           /\ returned' = IF next = 0 THEN pass ELSE Append(pass, next)
           /\ finished' = (next = 0)
    /\ UNCHANGED <<ifaddrs, matching>>

\* net_iface_iterator_delete
DeleteIterator ==
    /\ iterator # NULL
    /\ iterator' = NULL /\ returned' = <<>> /\ finished' = FALSE
    /\ UNCHANGED <<ifaddrs, matching>>

\* net_addr_find_matching_iface, with an iterator of its own; -1 if getifaddrs fails.
\* Each interface that is tried has an address of the family, so that net_addr_match
\* reads its netmask, also where there is none.
FindMatchingIface(dest) ==
    LET tried == {i \in DOMAIN ifaddrs :
                     Suits(ifaddrs[i], dest.family) /\ ifaddrs[i].up /\ ifaddrs[i].running}
        ends  == {i \in tried : \/ ifaddrs[i].mask = NULL
                                \/ NetAddrMatch(ifaddrs[i].addr, dest, ifaddrs[i].mask)}
        last  == ifaddrs[Min(ends)]
    IN  /\ matching' \in {[dest |-> dest, ret |-> -1, addr |-> NULL],
                          IF ends = {} THEN [dest |-> dest, ret |-> 0, addr |-> NULL]
                          ELSE IF last.mask = NULL THEN [dest |-> dest, ret |-> NULL, addr |-> NULL]
                          ELSE [dest |-> dest, ret |-> 1, addr |-> last.addr]}
        /\ UNCHANGED <<ifaddrs, iterator, returned, finished>>

\* The program has not ended in a search.
SearchReturned == matching # NULL => matching.ret # NULL

NetNext ==
    /\ SearchReturned
    /\ \/ \E family \in Families : NewIterator(family)
       \/ HasNext \/ DeleteIterator
       \/ \E dest \in Destinations : FindMatchingIface(dest)

NetSpec == NetInit /\ [][NetNext]_netVars

-----------------------------------------------------------------------------
(* Properties.                                                             *)

\* net_iface_iterator: in one pass each interface of the family is returned once and
\* in its order, none is left out when the pass ends, and a pass that was
\* finished can be repeated.
EachInterfaceOnce ==
    iterator # NULL =>
        LET wanted == SelectSeq([i \in DOMAIN ifaddrs |-> i],
                                LAMBDA i : Suits(ifaddrs[i], iterator.family))
        IN  /\ Len(returned) <= Len(wanted)
            /\ returned = Front(wanted, Len(returned))
            /\ finished => returned = wanted

\* The length of the network part.
Prefix(mask) == Cardinality({i \in DOMAIN mask.bits : mask.bits[i] = 1})

\* Interfaces that can send to addresses of this family.
Able(family) ==
    {i \in DOMAIN ifaddrs : /\ ifaddrs[i].addr # NULL /\ ifaddrs[i].addr.family = family
                            /\ ifaddrs[i].up /\ ifaddrs[i].running}

InNetwork(iface, dest) ==
    Front(iface.addr.bits, Prefix(iface.mask)) = Front(dest.bits, Prefix(iface.mask))

\* net_addr_find_matching_iface: an interface is found exactly if a running one has
\* the destination in its network, and it is one of those, however long the
\* networks' prefixes are and whatever else is in the list.  The search ends the
\* program only at a running interface of the family that has no netmask, with
\* none in front of it whose network has the destination.
MatchIsInNetwork ==
    matching # NULL =>
        LET able     == Able(matching.dest.family)
            maskless == {i \in able : ifaddrs[i].mask = NULL}
            good     == {i \in able \ maskless : InNetwork(ifaddrs[i], matching.dest)}
        IN  CASE matching.ret = 1 -> \E i \in good : ifaddrs[i].addr = matching.addr
              [] matching.ret = 0 -> good = {}
              [] matching.ret = NULL -> \E i \in maskless : \A j \in good : i < j
              [] OTHER -> TRUE

\* Interfaces are found, one after the other and by an address in their network.
InterfacesFound == EachInterfaceOnce /\ MatchIsInNetwork

=============================================================================
