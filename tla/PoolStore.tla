----------------------------- MODULE PoolStore -----------------------------
(***************************************************************************)
(* What src/registry.go promises to its callers, with no slices, indexes   *)
(* or pointers in sight: a finite map from permanent pool IDs to pool      *)
(* records, an exported copy of that map, and the error each call returns. *)
(***************************************************************************)

CONSTANTS
  PoolIDs,         \* the permanent IDs the upstream service hands out
  AttrOf,          \* AttrOf[p]: token IDs, type and fee of pool p, fixed at its creation
  Reserves,        \* the values a pair (reserve0, reserve1) can take
  Zero,            \* the pair of reserves a pool is added with
  ConsumersWrite   \* whether the holder of an exported view modifies it in place

VARIABLES
  pools,      \* the tracked pools: a function from IDs to records
  exported,   \* the pools as viewRegistry last copied them
  result      \* the error the last operation returned

vars == <<pools, exported, result>>

Record == [attr : {AttrOf[p] : p \in PoolIDs}, reserve : Reserves]

Init ==
  /\ pools = [p \in {} |-> Zero]
  /\ exported = [p \in {} |-> Zero]
  /\ result = "nil"

\* A call that reports an error has no effect.
Fails(error) == result' = error /\ UNCHANGED <<pools, exported>>

AddPool(p) ==
  \/ /\ p \notin DOMAIN pools
     /\ pools' = [q \in DOMAIN pools \cup {p} |->
                    IF q = p THEN [attr |-> AttrOf[p], reserve |-> Zero] ELSE pools[q]]
     /\ result' = "nil"
     /\ UNCHANGED exported
  \/ p \in DOMAIN pools /\ Fails("ErrPoolExists")
  \/ Fails("DependencyError")

UpdatePool(p, r) ==
  \/ /\ p \in DOMAIN pools
     /\ pools' = [pools EXCEPT ![p].reserve = r]
     /\ result' = "nil"
     /\ UNCHANGED exported
  \/ p \notin DOMAIN pools /\ Fails("ErrPoolNotFound")

DeletePool(p) ==
  \/ /\ p \in DOMAIN pools
     /\ pools' = [q \in DOMAIN pools \ {p} |-> pools[q]]
     /\ result' = "nil"
     /\ UNCHANGED exported
  \/ p \notin DOMAIN pools /\ Fails("ErrPoolNotFound")

Export == exported' = pools /\ UNCHANGED <<pools, result>>

Restore == pools' = exported /\ UNCHANGED <<exported, result>>

\* Whatever a consumer does to its view stays in the view.
WriteView ==
  /\ ConsumersWrite
  /\ \E p \in DOMAIN exported, r \in Reserves : exported' = [exported EXCEPT ![p].reserve = r]
  /\ UNCHANGED <<pools, result>>

Next ==
  \/ \E p \in PoolIDs : AddPool(p) \/ DeletePool(p) \/ \E r \in Reserves : UpdatePool(p, r)
  \/ Export
  \/ Restore
  \/ WriteView

Spec == Init /\ [][Next]_vars
=============================================================================
