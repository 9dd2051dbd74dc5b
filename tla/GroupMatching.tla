---------------------------- MODULE GroupMatching ----------------------------
(* Which redundancy group a client belongs to, by its address. A group is the *)
(* set of the addresses it allows; a group without a list takes all others.   *)
EXTENDS Naturals, Sequences

CONSTANTS Addresses,   \* addresses of clients
          Abbreviated  \* those written with less than eight parts (IPv6, ::)

ASSUME AddressAssumption == Abbreviated \subseteq Addresses

CatchAll == {}   \* allowedClients is NULL

(* setFromString sets only the bytes of the parts that it finds, and equals   *)
(* compares all of them: for an abbreviated address the rest of the structure *)
(* decides (`sameRest`).                                                      *)
Matches(redGroup, ipAddress, sameRest) ==
  ipAddress \in redGroup /\ (ipAddress \in Abbreviated => sameRest)

(* What the loop over the first i groups has found; 0 is NULL. It leaves at   *)
(* the first group that matches. `sameRest` is the set of the groups in which *)
(* the rest of an abbreviated address is that of the client's.                *)
Found(redundancyGroups, ipAddress, sameRest) ==
  LET found[i \in 0..Len(redundancyGroups)] ==
        IF i = 0 THEN [matching |-> 0, catchAll |-> 0]
        ELSE IF found[i-1].matching # 0 THEN found[i-1]
        ELSE IF Matches(redundancyGroups[i], ipAddress, i \in sameRest)
             THEN [found[i-1] EXCEPT !.matching = i]
        ELSE IF redundancyGroups[i] = CatchAll THEN [found[i-1] EXCEPT !.catchAll = i]
        ELSE found[i-1]
  IN found[Len(redundancyGroups)]

(* Mutated form of MatchingGroup: a group without a list matches anything. *)
FirstThatTakes(redundancyGroups, ipAddress, sameRest) ==
  LET found == Found(redundancyGroups, ipAddress, sameRest)
  IN IF found.catchAll # 0 THEN found.catchAll ELSE found.matching

(* getMatchingRedundancyGroup: its index, or 0. *)
MatchingGroup(redundancyGroups, ipAddress, sameRest) ==
  LET found == Found(redundancyGroups, ipAddress, sameRest)
  IN IF found.matching # 0 THEN found.matching ELSE found.catchAll

(* initializeRedundancyGroups adds a group for everybody when there is none.  *)
InitializedGroups(redundancyGroups) ==
  IF redundancyGroups = << >> THEN << CatchAll >> ELSE redundancyGroups
=============================================================================
