------------------------- MODULE KeeperCoordinator --------------------------
(***************************************************************************)
(* The KeeperCoordinator contract (contract/keeper-coordinator/src/lib.rs):*)
(* keepers register, and claim a schedule for some ledgers so that no      *)
(* other keeper executes it meanwhile.  An entry point is one action, and  *)
(* a call that panics is no step; every call is signed by the keeper it    *)
(* names.  claim and release answer false where they change nothing.       *)
(*                                                                         *)
(* A schedule is the pair of a resource and an id.  The storage            *)
(* time-to-live and the events are not in the state.                       *)
(***************************************************************************)
EXTENDS Integers

CONSTANTS
  Keepers,    \* the accounts of keepers
  Schedules,  \* what can be claimed: (resource, id)
  Ttls,       \* for how many ledgers keepers ask, acceptable or not
  MaxLockTtl, \* MAX_LOCK_TTL_LEDGERS
  MaxLedger   \* bound: the ledger sequence stops here

ASSUME TtlsAssumption   == Ttls \subseteq Int
ASSUME LimitsAssumption == MaxLockTtl \in Nat /\ MaxLedger \in Nat

VARIABLES
  ledger,     \* env.ledger().sequence()
  registered, \* DataKey::Keeper(address)
  claims      \* DataKey::Claim(resource, id), for the schedules that have one

coordinatorVars == <<ledger, registered, claims>>

ClaimRecord == [keeper : Keepers, expires_at : Nat]

-----------------------------------------------------------------------------
Init ==
  /\ ledger = 0
  /\ registered = {}
  /\ claims = <<>>

Register(keeper) ==
  /\ registered' = registered \cup {keeper}
  /\ UNCHANGED <<ledger, claims>>

\* The claims of the keeper stay.
Unregister(keeper) ==
  /\ registered' = registered \ {keeper}
  /\ UNCHANGED <<ledger, claims>>

\* A claim is live up to its last ledger and not in it.
Live(s) == s \in DOMAIN claims /\ claims[s].expires_at > ledger

\* claim panics unless this holds.
MayClaim(keeper, ttl) == keeper \in registered /\ ttl > 0 /\ ttl <= MaxLockTtl

HeldByOther(s, keeper) == Live(s) /\ claims[s].keeper # keeper

\* A claim of one's own is renewed, one that is not live is taken over.
Claim(s, keeper, ttl) ==
  /\ MayClaim(keeper, ttl)
  /\ ~HeldByOther(s, keeper)
  /\ claims' = [t \in DOMAIN claims \cup {s} |->
                  IF t = s THEN [keeper |-> keeper, expires_at |-> ledger + ttl] ELSE claims[t]]
  /\ UNCHANGED <<ledger, registered>>

\* ClaimExcludes: whoever asks ends the claim.
FaultyRelease(s, keeper) ==
  /\ s \in DOMAIN claims
  /\ claims' = [t \in DOMAIN claims \ {s} |-> claims[t]]
  /\ UNCHANGED <<ledger, registered>>

\* Neither registration nor expiry is asked for.
Release(s, keeper) ==
  /\ s \in DOMAIN claims
  /\ claims[s].keeper = keeper
  /\ claims' = [t \in DOMAIN claims \ {s} |-> claims[t]]
  /\ UNCHANGED <<ledger, registered>>

\* The network closes a ledger.
CloseLedger ==
  /\ ledger < MaxLedger
  /\ ledger' = ledger + 1
  /\ UNCHANGED <<registered, claims>>

Next ==
  \/ CloseLedger
  \/ \E keeper \in Keepers :
        \/ Register(keeper)
        \/ Unregister(keeper)
        \/ \E s \in Schedules :
              \/ Release(s, keeper)
              \/ \E ttl \in Ttls : Claim(s, keeper, ttl)

Spec == Init /\ [][Next]_coordinatorVars

-----------------------------------------------------------------------------
(* Properties *)

CoordinatorTypeOK ==
  /\ ledger \in 0..MaxLedger
  /\ registered \subseteq Keepers
  /\ DOMAIN claims \subseteq Schedules
  /\ claims \in [DOMAIN claims -> ClaimRecord]

=============================================================================
