-------------------------------- MODULE Logs --------------------------------
(***************************************************************************)
(* The two parsers of src/logs that handleNewBlock calls one after the     *)
(* other on the logs of a block: UpdatedInBlock, which collects the final  *)
(* reserves of each pool from its Sync events, and DiscoverPools, which    *)
(* collects the pools with a Swap event.  Each is a loop over the logs     *)
(* that fills a map and a loop over the map, in an order Go leaves open,   *)
(* that fills slices.                                                      *)
(*                                                                         *)
(* The system module uses their result as the fields sync and swap of a    *)
(* block.                                                                  *)
(***************************************************************************)
EXTENDS Naturals, Sequences, Functions

CONSTANTS
  Addresses,  \* contracts that emit logs
  Reserves,   \* the values 32 bytes of data can take
  Malformed,  \* data that is not 64 bytes long
  LogLists    \* the lists of logs a node may return for a block

Topic == {"Sync", "Swap", "Other"}
Log == [address : Addresses, topics : Seq(Topic), data : (Reserves \X Reserves) \cup {Malformed}]

ASSUME LogsAssumption ==
  /\ Malformed \notin Reserves \X Reserves
  /\ LogLists \subseteq Seq(Log)

VARIABLES
  logs,             \* the argument of both functions
  pc,               \* the loop that is running, or "done"
  next,             \* the position a loop over logs is at
  latestSyncs,      \* map: the reserves of the last Sync event so far
  pools, reserve0, reserve1,  \* the slices UpdatedInBlock returns
  discoveredPools,  \* set: the addresses with a Swap event so far
  discovered        \* the slice DiscoverPools returns

updates == <<latestSyncs, pools, reserve0, reserve1>>
discoveries == <<discoveredPools, discovered>>
vars == <<logs, pc, next, updates, discoveries>>

Init ==
  /\ logs \in LogLists
  /\ pc = "syncs"
  /\ next = 1
  /\ latestSyncs = [a \in {} |-> <<>>]
  /\ pools = << >> /\ reserve0 = << >> /\ reserve1 = << >>
  /\ discoveredPools = {}
  /\ discovered = << >>

-----------------------------------------------------------------------------
\* UpdatedInBlock.

\* Mutant: data of any length is unpacked.
IsSyncOfAnyLength(log) == Len(log.topics) = 1 /\ log.topics[1] = "Sync"

\* The Sync event has no indexed topics, and its data are two words.
IsSync(log) == Len(log.topics) = 1 /\ log.topics[1] = "Sync" /\ log.data # Malformed

\* Mutant: a pool that is in the map already keeps its entry.
StoreFirst(log) ==
  [a \in DOMAIN latestSyncs \cup {log.address} |->
     IF a \in DOMAIN latestSyncs THEN latestSyncs[a] ELSE log.data]

\* Store the reserves or overwrite those of an earlier event.
Store(log) ==
  [a \in DOMAIN latestSyncs \cup {log.address} |->
     IF a = log.address THEN log.data ELSE latestSyncs[a]]

\* One turn of the first loop.
ReadForSyncs ==
  /\ pc = "syncs"
  /\ next \in DOMAIN logs
  /\ latestSyncs' = IF IsSync(logs[next]) THEN Store(logs[next]) ELSE latestSyncs
  /\ next' = next + 1
  /\ UNCHANGED <<logs, pc, pools, reserve0, reserve1, discoveries>>

\* Without a Sync event the function returns nil slices at once.
SyncsRead ==
  /\ pc = "syncs"
  /\ next \notin DOMAIN logs
  /\ pc' = IF DOMAIN latestSyncs = {} THEN "swaps" ELSE "pairing"
  /\ next' = 1
  /\ UNCHANGED <<logs, updates, discoveries>>

\* One turn of the loop over the map, for a key it has not visited.
AppendUpdate(a) ==
  /\ pc = "pairing"
  /\ a \in DOMAIN latestSyncs \ Range(pools)
  /\ pools' = Append(pools, a)
  /\ reserve0' = Append(reserve0, latestSyncs[a][1])
  /\ reserve1' = Append(reserve1, latestSyncs[a][2])
  /\ UNCHANGED <<logs, pc, next, latestSyncs, discoveries>>

ReturnUpdates ==
  /\ pc = "pairing"
  /\ DOMAIN latestSyncs \subseteq Range(pools)
  /\ pc' = "swaps"
  /\ UNCHANGED <<logs, next, updates, discoveries>>

-----------------------------------------------------------------------------
\* DiscoverPools.

\* Mutant: the indexed topics of the event are not expected.
IsSwapUnindexed(log) == Len(log.topics) = 1 /\ log.topics[1] = "Swap"

IsSwap(log) == Len(log.topics) > 0 /\ log.topics[1] = "Swap"

ReadForSwaps ==
  /\ pc = "swaps"
  /\ next \in DOMAIN logs
  /\ discoveredPools' =
       IF IsSwap(logs[next]) THEN discoveredPools \cup {logs[next].address} ELSE discoveredPools
  /\ next' = next + 1
  /\ UNCHANGED <<logs, pc, updates, discovered>>

SwapsRead ==
  /\ pc = "swaps"
  /\ next \notin DOMAIN logs
  /\ pc' = "listing"
  /\ UNCHANGED <<logs, next, updates, discoveries>>

AppendDiscovered(a) ==
  /\ pc = "listing"
  /\ a \in discoveredPools \ Range(discovered)
  /\ discovered' = Append(discovered, a)
  /\ UNCHANGED <<logs, pc, next, updates, discoveredPools>>

ReturnDiscovered ==
  /\ pc = "listing"
  /\ discoveredPools \subseteq Range(discovered)
  /\ pc' = "done"
  /\ UNCHANGED <<logs, next, updates, discoveries>>

-----------------------------------------------------------------------------
Next ==
  \/ ReadForSyncs \/ SyncsRead
  \/ \E a \in Addresses : AppendUpdate(a)
  \/ ReturnUpdates
  \/ ReadForSwaps \/ SwapsRead
  \/ \E a \in Addresses : AppendDiscovered(a)
  \/ ReturnDiscovered

Spec == Init /\ [][Next]_vars

-----------------------------------------------------------------------------
TypeOK ==
  /\ logs \in Seq(Log)
  /\ pc \in {"syncs", "pairing", "swaps", "listing", "done"}
  /\ next \in 1 .. Len(logs) + 1
  /\ DOMAIN latestSyncs \subseteq Addresses
  /\ \A a \in DOMAIN latestSyncs : latestSyncs[a] \in Reserves \X Reserves
  /\ pools \in Seq(Addresses) /\ reserve0 \in Seq(Reserves) /\ reserve1 \in Seq(Reserves)
  /\ discoveredPools \subseteq Addresses
  /\ discovered \in Seq(Addresses)

\* The i-th log is a well-formed Sync event of a: exactly this topic, two words of data.
SyncAt(a, i) == logs[i].address = a /\ logs[i].topics = <<"Sync">> /\ logs[i].data \in Reserves \X Reserves

\* The i-th log is the last well-formed Sync event of a among the first n.
LastSyncAt(a, i, n) == SyncAt(a, i) /\ \A j \in i + 1 .. n : ~SyncAt(a, j)

\* "Returns the final reserve state for each Uniswap V2 pool that emitted a Sync event":
\* in three slices of one length, a pool with well-formed Sync events occurs once, at the
\* index where both reserves of the last of them are; no other pool occurs, and malformed
\* or foreign events in between change nothing.
LastSyncWins ==
  pc \in {"swaps", "listing", "done"} =>
    /\ Len(reserve0) = Len(pools) /\ Len(reserve1) = Len(pools)
    /\ IsInjective(pools)
    /\ \A i \in DOMAIN logs : SyncAt(logs[i].address, i) => logs[i].address \in Range(pools)
    /\ \A k \in DOMAIN pools : \E i \in DOMAIN logs :
         LastSyncAt(pools[k], i, Len(logs)) /\ logs[i].data = <<reserve0[k], reserve1[k]>>

\* The i-th log is a Swap event: this topic first, whatever is indexed after it.
SwapAt(i) == logs[i].topics # << >> /\ Head(logs[i].topics) = "Swap"

\* "Preventing duplicates": exactly the pools with a Swap event are listed, each once.
SwappedOnce ==
  pc = "done" =>
    /\ IsInjective(discovered)
    /\ Range(discovered) = {logs[i].address : i \in {j \in DOMAIN logs : SwapAt(j)}}
=============================================================================
