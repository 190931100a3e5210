------------------------------ MODULE Refcount ------------------------------
(***************************************************************************)
(* The resource table of winecord-refcount.c.  Every public operation      *)
(* takes rc->g_lock for its whole body, so each is one atomic action.      *)
(*                                                                         *)
(* The table is driven by the clients the library has: whoever received a  *)
(* reference (an event being dispatched, a request's keep and data, a      *)
(* cache entry) drops it once, and whoever claimed a resource unclaims it  *)
(* once.  refs and owned count what these clients hold; the code cannot    *)
(* see them, the properties compare the table with them.                   *)
(*                                                                         *)
(* Adding an address is unconditional: it resets the counts of a live      *)
(* entry.  Two clients of the table can do that, and exposed holds the     *)
(* addresses they did it to, or are about to:                              *)
(*   - winecord_request_begin increments and, refused, adds, in two        *)
(*     critical sections: two threads that begin with the same new data    *)
(*     both add it, and an increment refused at INT_MAX adds over the      *)
(*     entry that was full;                                                *)
(*   - the cache ignores a refused increment and decrements all the same.  *)
(***************************************************************************)
EXTENDS Integers

CONSTANTS
  Data,     \* addresses of the resources
  IntMax,   \* INT_MAX, the largest value of the two int counters
  Threads,  \* threads that begin requests
  NoData,   \* not an address
  MaxHeld   \* bound: references and claims the clients hold on one address

ASSUME IntMaxAssumption == IntMax \in Nat \ {0}
ASSUME NoDataAssumption == NoData \notin Data

VARIABLES
  present,    \* addresses with an entry in the hashtable
  visits,     \* _winecord_refvalue.visits, 0 where there is no entry
  claims,     \* _winecord_refvalue.claims, 0 where there is no entry
  ret,        \* code returned by the last operation
  adding,     \* what a thread goes on to add, its increment having been refused
  refs,       \* history: references the clients hold
  owned,      \* history: successful claims the clients have not given back
  exposed,    \* history: addresses counted wrongly from now on (see above)
  aborted     \* a refused keep, claim or unclaim ended the program (ASSERT_S)

table == <<present, visits, claims>>
history == <<refs, owned, exposed>>
vars == <<table, ret, adding, aborted, history>>

Codes == {"OK", "UNAVAILABLE", "OWNERSHIP"}

Init ==
  /\ present = {}
  /\ visits = [d \in Data |-> 0]
  /\ claims = [d \in Data |-> 0]
  /\ ret = "OK"
  /\ adding = [t \in Threads |-> NoData]
  /\ refs = [d \in Data |-> 0]
  /\ owned = [d \in Data |-> 0]
  /\ exposed = {}
  /\ aborted = FALSE

-----------------------------------------------------------------------------
(* The static helpers; the caller holds g_lock.                            *)

\* chash_assign: a new entry, or the counts of the old one overwritten.
RefvalueInit(d) ==
  /\ present' = present \cup {d}
  /\ visits' = [visits EXCEPT ![d] = 1]
  /\ claims' = [claims EXCEPT ![d] = 0]

RefvalueDelete(d) ==
  /\ present' = present \ {d}
  /\ visits' = [visits EXCEPT ![d] = 0]

\* Mutant: no overflow check.
CanIncrUnchecked(d) == d \in present

CanIncr(d) == d \in present /\ visits[d] # IntMax

IncrNoLock(d) ==
  \/ /\ CanIncr(d)
     /\ visits' = [visits EXCEPT ![d] = @ + 1]
     /\ ret' = "OK"
  \/ /\ ~CanIncr(d)
     /\ ret' = "UNAVAILABLE"
     /\ UNCHANGED visits

\* Mutant: the entry goes while a reference is left.
LastVisitEarly(d) == visits[d] =< 2

\* Mutant: an off-by-one keeps the entry of the last reference.
LastVisitLate(d) == visits[d] =< 0

LastVisit(d) == visits[d] =< 1

\* Mutant: visits may not equal claims, so an owner's unclaim is refused.
DecrRefusedStrict(d, c) == d \notin present \/ visits[d] =< c + 1

DecrRefused(d, c) == d \notin present \/ visits[d] < c

\* c is value->claims as the caller left it: unclaim lowers it first.
DecrNoLock(d, c) ==
  \/ /\ DecrRefused(d, c)
     /\ ret' = "UNAVAILABLE"
     /\ UNCHANGED <<present, visits>>
  \/ /\ ~DecrRefused(d, c) /\ ~LastVisit(d)
     /\ visits' = [visits EXCEPT ![d] = @ - 1]
     /\ ret' = "OK"
     /\ UNCHANGED present
  \/ /\ ~DecrRefused(d, c) /\ LastVisit(d) /\ c # 0   \* --visits, then ++visits
     /\ ret' = "OWNERSHIP"
     /\ UNCHANGED <<present, visits>>
  \/ /\ ~DecrRefused(d, c) /\ LastVisit(d) /\ c = 0
     /\ RefvalueDelete(d)
     /\ ret' = "OK"

-----------------------------------------------------------------------------
(* The public operations, as the library's clients call them.              *)

Held(d) == refs[d] + owned[d]
Room(d) == Held(d) < MaxHeld
Adding(d) == {t \in Threads : adding[t] = d}

(* add_internal and add_client.                                            *)
Add(d) ==
  /\ RefvalueInit(d)
  /\ refs' = [refs EXCEPT ![d] = @ + 1]
  /\ UNCHANGED <<ret, owned, exposed, aborted>>

(* A guild for the cache or the body of a response: memory just allocated, *)
(* so nobody knows its address, and added without an increment before.     *)
AddAllocated(d) ==
  /\ d \notin present /\ Held(d) = 0 /\ Adding(d) = {}
  /\ Room(d)
  /\ Add(d)
  /\ UNCHANGED adding

(* The first half of taking a reference of data that may be unknown: the   *)
(* event of a dispatch, the data of a request or of get_channel_at_pos.    *)
(* Any refusal makes the caller add, be it that the entry is full or that  *)
(* another thread is about to add it.                                      *)
BeginIncr(t, d) ==
  /\ adding[t] = NoData
  /\ Room(d)
  /\ IncrNoLock(d)
  /\ \/ /\ ret' = "OK"
        /\ refs' = [refs EXCEPT ![d] = @ + 1]
        /\ UNCHANGED <<adding, exposed>>
     \/ /\ ret' # "OK"
        /\ adding' = [adding EXCEPT ![t] = d]
        /\ exposed' = IF d \in present \/ Adding(d) # {}
                      THEN exposed \cup {d} ELSE exposed
        /\ UNCHANGED refs
  /\ UNCHANGED <<present, claims, owned, aborted>>

(* The second half.                                                        *)
BeginAdd(t) ==
  /\ adding[t] # NoData
  /\ Add(adding[t])
  /\ adding' = [adding EXCEPT ![t] = NoData]

(* The keep of a request: a refusal is asserted never to happen.           *)
Keep(d) ==
  /\ Room(d)
  /\ IncrNoLock(d)
  /\ refs' = [refs EXCEPT ![d] = IF ret' = "OK" THEN @ + 1 ELSE @]
  /\ aborted' = (ret' # "OK")
  /\ UNCHANGED <<present, claims, adding, owned, exposed>>

(* A callback of the cache stores the message it was given.                *)
Store(d) ==
  /\ refs[d] > 0 /\ Room(d)
  /\ IncrNoLock(d)
  /\ refs' = [refs EXCEPT ![d] = @ + 1]
  /\ exposed' = IF ret' = "OK" THEN exposed ELSE exposed \cup {d}
  /\ UNCHANGED <<present, claims, adding, owned, aborted>>

(* A holder gives its reference back.                                      *)
Decr(d) ==
  /\ refs[d] > 0
  /\ DecrNoLock(d, claims[d])
  /\ refs' = [refs EXCEPT ![d] = @ - 1]
  /\ UNCHANGED <<claims, adding, owned, exposed, aborted>>

(* An int that passes its limits.                                          *)
ToInt(n) ==
  IF n > IntMax THEN -IntMax - 1
  ELSE IF n < -IntMax - 1 THEN IntMax
  ELSE n

(* winecord_claim on an object somebody holds, an owner included.  claims  *)
(* goes up before the code knows whether visits can follow; if it cannot,  *)
(* the program ends.                                                       *)
Claim(d) ==
  /\ Held(d) > 0 /\ Room(d)
  /\ \/ /\ d \in present
        /\ claims' = [claims EXCEPT ![d] = ToInt(@ + 1)]
        /\ IncrNoLock(d)
     \/ /\ d \notin present
        /\ ret' = "UNAVAILABLE"
        /\ UNCHANGED <<visits, claims>>
  /\ owned' = [owned EXCEPT ![d] = IF ret' = "OK" THEN @ + 1 ELSE @]
  /\ aborted' = (ret' # "OK")
  /\ UNCHANGED <<present, adding, refs, exposed>>

(* winecord_unclaim: by an owner, or by mistake on a resource that has no  *)
(* entry or no claim.                                                      *)
Unclaim(d) ==
  /\ owned' = [owned EXCEPT ![d] = IF @ > 0 THEN @ - 1 ELSE @]
  /\ \/ /\ d \in present /\ claims[d] # 0
        /\ claims' = [claims EXCEPT ![d] = ToInt(@ - 1)]
        /\ DecrNoLock(d, ToInt(claims[d] - 1))
     \/ /\ d \notin present \/ claims[d] = 0
        /\ ret' = "UNAVAILABLE"
        /\ UNCHANGED table
  /\ aborted' = (ret' # "OK")
  /\ UNCHANGED <<adding, refs, exposed>>

Next ==
  /\ ~aborted
  /\ \/ \E d \in Data :
          \/ AddAllocated(d) \/ Keep(d) \/ Store(d)
          \/ Decr(d) \/ Claim(d) \/ Unclaim(d)
     \/ \E t \in Threads : BeginAdd(t) \/ \E d \in Data : BeginIncr(t, d)

Spec == Init /\ [][Next]_vars

-----------------------------------------------------------------------------
(* visits never leaves 0..INT_MAX.  claims does only in the step that ends *)
(* the program, or on an exposed address.                                  *)
TypeOK ==
  /\ present \subseteq Data
  /\ visits \in [Data -> 0..IntMax]
  /\ claims \in [Data -> (-IntMax - 1)..IntMax]
  /\ \A d \in Data : claims[d] >= 0 \/ aborted \/ d \in exposed
  /\ ret \in Codes
  /\ adding \in [Threads -> Data \cup {NoData}]
  /\ refs \in [Data -> Nat]
  /\ owned \in [Data -> Nat]
  /\ exposed \subseteq Data
  /\ aborted \in BOOLEAN

(* A resource somebody still references or owns has not been cleaned up:   *)
(* _winecord_refvalue_delete never runs under a reader, whatever order the *)
(* references and the claims are given back in.  It does on an address     *)
(* that was added over its entry or stored although its entry was full.    *)
HeldIsPresent ==
  \A d \in Data \ exposed : Held(d) > 0 => d \in present

(* Nothing is leaked: once the last reference and the last claim are gone  *)
(* the entry is gone, so its cleanup has run, even for an address that was *)
(* added over its entry or claimed past INT_MAX.                           *)
UnheldIsCleaned ==
  \A d \in Data : Held(d) = 0 => d \notin present

(* Whoever gives back what it holds gets WINEBERRY_OK, so a decrement is   *)
(* never lost and an owner's winecord_unclaim never aborts the program;    *)
(* again but for the addresses whose entry was overwritten.                *)
RightfulReleaseSucceeds ==
  [][\A d \in Data \ exposed :
       refs'[d] < refs[d] \/ owned'[d] < owned[d] => ret' = "OK"]_vars
=============================================================================
