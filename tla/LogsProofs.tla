----------------------------- MODULE LogsProofs -----------------------------
(***************************************************************************)
(* Proofs about Logs, for lists of any length: what the maps hold is the   *)
(* reference definition applied to the logs read so far, and the slices    *)
(* list the maps without repetition.                                       *)
(***************************************************************************)
EXTENDS Logs, TLAPS

\* The number of logs each loop has read.
ReadForUpdates == IF pc = "syncs" THEN next - 1 ELSE Len(logs)
ReadForDiscovery ==
  IF pc = "syncs" THEN 0 ELSE IF pc \in {"pairing", "swaps"} THEN next - 1 ELSE Len(logs)

\* The first map holds the last Sync event of every pool, among the first n logs.
MapOfSyncs(n) ==
  /\ \A i \in 1 .. n : SyncAt(logs[i].address, i) => logs[i].address \in DOMAIN latestSyncs
  /\ \A a \in DOMAIN latestSyncs : \E i \in 1 .. n :
       LastSyncAt(a, i, n) /\ latestSyncs[a] = logs[i].data

\* The slices list entries of the first map, each once.
SlicesOfSyncs ==
  /\ Len(reserve0) = Len(pools) /\ Len(reserve1) = Len(pools)
  /\ IsInjective(pools)
  /\ \A k \in DOMAIN pools :
       pools[k] \in DOMAIN latestSyncs /\ latestSyncs[pools[k]] = <<reserve0[k], reserve1[k]>>
  /\ pc = "syncs" => pools = << >>
  /\ pc \in {"swaps", "listing", "done"} => DOMAIN latestSyncs \subseteq Range(pools)

\* The set holds the pools with a Swap event among the first n logs.
SetOfSwaps(n) == discoveredPools = {logs[i].address : i \in {j \in 1 .. n : SwapAt(j)}}

\* The slice lists elements of the set, each once.
SliceOfSwaps ==
  /\ IsInjective(discovered)
  /\ Range(discovered) \subseteq discoveredPools
  /\ pc \in {"syncs", "pairing", "swaps"} => discovered = << >>
  /\ pc = "done" => discoveredPools \subseteq Range(discovered)

\* The inductive invariant.
IInv ==
  /\ TypeOK
  /\ MapOfSyncs(ReadForUpdates)
  /\ SlicesOfSyncs
  /\ SetOfSwaps(ReadForDiscovery)
  /\ SliceOfSwaps

-----------------------------------------------------------------------------
\* The parsers recognize exactly the events of the reference definitions.
LEMMA EventsRecognized ==
  ASSUME TypeOK, NEW i \in DOMAIN logs
  PROVE  /\ logs[i] \in Log
         /\ IsSync(logs[i]) <=> SyncAt(logs[i].address, i)
         /\ IsSwap(logs[i]) <=> SwapAt(i)
         /\ IsSync(logs[i]) => logs[i].data \in Reserves \X Reserves
<1>1. logs[i] \in Log
  BY DEF TypeOK
<1>2. logs[i].topics \in Seq(Topic)
  BY <1>1 DEF Log
<1>3. logs[i].data \in (Reserves \X Reserves) \cup {Malformed}
  BY <1>1 DEF Log
<1>4. Len(logs[i].topics) = 1 /\ logs[i].topics[1] = "Sync" <=> logs[i].topics = <<"Sync">>
  <2>1. ASSUME NEW t \in Seq(Topic), Len(t) = 1, t[1] = "Sync" PROVE t = <<"Sync">>
    BY <2>1
  <2>2. Len(<<"Sync">>) = 1 /\ <<"Sync">>[1] = "Sync"
    OBVIOUS
  <2> QED BY <1>2, <2>1, <2>2
<1>5. Len(logs[i].topics) > 0 <=> logs[i].topics # << >>
  BY <1>2
<1>6. logs[i].data # Malformed <=> logs[i].data \in Reserves \X Reserves
  BY <1>3, LogsAssumption
<1>7. logs[i].topics # << >> => Head(logs[i].topics) = logs[i].topics[1]
  BY <1>2
<1> QED BY <1>1, <1>4, <1>5, <1>6, <1>7 DEF IsSync, SyncAt, IsSwap, SwapAt

\* Appending an element that is not in an injective sequence.
LEMMA AppendNew ==
  ASSUME NEW S, NEW s \in Seq(S), NEW e \in S, IsInjective(s), e \notin Range(s)
  PROVE  /\ Append(s, e) \in Seq(S)
         /\ Len(Append(s, e)) = Len(s) + 1
         /\ DOMAIN Append(s, e) = DOMAIN s \cup {Len(s) + 1}
         /\ \A k \in DOMAIN s : Append(s, e)[k] = s[k]
         /\ Append(s, e)[Len(s) + 1] = e
         /\ IsInjective(Append(s, e))
         /\ Range(Append(s, e)) = Range(s) \cup {e}
<1>1. /\ Append(s, e) \in Seq(S)
      /\ Len(Append(s, e)) = Len(s) + 1
      /\ DOMAIN Append(s, e) = DOMAIN s \cup {Len(s) + 1}
      /\ \A k \in DOMAIN s : Append(s, e)[k] = s[k]
      /\ Append(s, e)[Len(s) + 1] = e
  OBVIOUS
<1>2. \A k \in DOMAIN s : s[k] # e
  BY DEF Range
<1>3. IsInjective(Append(s, e))
  BY <1>1, <1>2 DEF IsInjective
<1>4. Range(Append(s, e)) = Range(s) \cup {e}
  BY <1>1 DEF Range
<1> QED BY <1>1, <1>3, <1>4

-----------------------------------------------------------------------------
\* Before the first log, maps and slices are empty.
LEMMA InitIInv == Init => IInv
<1> SUFFICES ASSUME Init PROVE IInv
  OBVIOUS
<1>1. logs \in Seq(Log) /\ Len(logs) \in Nat
  BY LogsAssumption DEF Init
<1>2. TypeOK
  BY <1>1 DEF Init, TypeOK
<1>3. MapOfSyncs(ReadForUpdates)
  BY DEF Init, MapOfSyncs, ReadForUpdates
<1>4. SlicesOfSyncs
  BY DEF Init, SlicesOfSyncs, IsInjective
<1>5. SetOfSwaps(ReadForDiscovery)
  BY DEF Init, SetOfSwaps, ReadForDiscovery
<1>6. SliceOfSwaps
  BY DEF Init, SliceOfSwaps, IsInjective, Range
<1> QED BY <1>2, <1>3, <1>4, <1>5, <1>6 DEF IInv

\* A turn of the first loop extends the map by one log.
LEMMA ReadForSyncsStep == IInv /\ ReadForSyncs => IInv'
<1> SUFFICES ASSUME IInv, ReadForSyncs PROVE IInv'
  OBVIOUS
<1> USE DEF IInv
<1>1. /\ pc = "syncs" /\ next \in DOMAIN logs /\ next' = next + 1
      /\ UNCHANGED <<logs, pc, pools, reserve0, reserve1, discoveredPools, discovered>>
      /\ latestSyncs' = IF IsSync(logs[next]) THEN Store(logs[next]) ELSE latestSyncs
  BY DEF ReadForSyncs, discoveries
<1>2. /\ logs \in Seq(Log) /\ Len(logs) \in Nat /\ next \in Nat
      /\ next \in 1 .. Len(logs)
      /\ ReadForUpdates = next - 1 /\ ReadForUpdates' = next
      /\ next' \in 1 .. Len(logs) + 1
  <2>1. logs \in Seq(Log) /\ next \in 1 .. Len(logs) + 1
    BY DEF TypeOK
  <2>2. DOMAIN logs = 1 .. Len(logs) /\ Len(logs) \in Nat
    BY <2>1
  <2> QED BY <1>1, <2>1, <2>2 DEF ReadForUpdates
<1>3. /\ logs[next] \in Log
      /\ IsSync(logs[next]) <=> SyncAt(logs[next].address, next)
      /\ IsSync(logs[next]) => logs[next].data \in Reserves \X Reserves
  BY <1>1, EventsRecognized
<1> DEFINE b == logs[next].address
<1>4. b \in Addresses
  BY <1>3 DEF Log
<1>5. TypeOK'
  <2>1. CASE IsSync(logs[next])
    <3>1. latestSyncs' = Store(logs[next])
      BY <1>1, <2>1
    <3>2. DOMAIN latestSyncs' = DOMAIN latestSyncs \cup {b}
      BY <3>1 DEF Store
    <3>3. \A a \in DOMAIN latestSyncs' : latestSyncs'[a] \in Reserves \X Reserves
      BY <3>1, <1>3, <2>1 DEF Store, TypeOK
    <3>4. DOMAIN latestSyncs' \subseteq Addresses
      BY <1>4, <3>2 DEF TypeOK
    <3> HIDE DEF b
    <3> QED BY <1>1, <1>2, <3>3, <3>4, Zenon DEF TypeOK
  <2>2. CASE ~IsSync(logs[next])
    <3>1. latestSyncs' = latestSyncs
      BY <1>1, <2>2
    <3> QED BY <1>1, <1>2, <3>1, Zenon DEF TypeOK
  <2> QED BY <2>1, <2>2
<1>6. /\ \A i \in 1 .. next : SyncAt(logs[i].address, i) => logs[i].address \in DOMAIN latestSyncs'
      /\ \A a \in DOMAIN latestSyncs' : \E i \in 1 .. next :
           LastSyncAt(a, i, next) /\ latestSyncs'[a] = logs[i].data
  <2>0. MapOfSyncs(next - 1)
    BY <1>2
  <2>1. CASE IsSync(logs[next])
    <3>1. /\ DOMAIN latestSyncs' = DOMAIN latestSyncs \cup {b}
          /\ latestSyncs'[b] = logs[next].data
          /\ \A a \in DOMAIN latestSyncs \ {b} : latestSyncs'[a] = latestSyncs[a]
      BY <1>1, <2>1 DEF Store
    <3>2. ASSUME NEW a \in DOMAIN latestSyncs'
          PROVE  \E i \in 1 .. next : LastSyncAt(a, i, next) /\ latestSyncs'[a] = logs[i].data
      <4>1. CASE a = b
        BY <4>1, <3>1, <2>1, <1>2, <1>3 DEF LastSyncAt
      <4>2. CASE a # b
        <5>1. PICK i \in 1 .. next - 1 : LastSyncAt(a, i, next - 1) /\ latestSyncs[a] = logs[i].data
          BY <4>2, <3>1, <2>0 DEF MapOfSyncs
        <5>2. ~SyncAt(a, next)
          BY <4>2 DEF SyncAt
        <5>3. LastSyncAt(a, i, next)
          BY <5>1, <5>2, <1>2 DEF LastSyncAt
        <5> QED BY <5>1, <5>3, <3>1, <4>2, <1>2
      <4> QED BY <4>1, <4>2
    <3>3. ASSUME NEW i \in 1 .. next, SyncAt(logs[i].address, i)
          PROVE  logs[i].address \in DOMAIN latestSyncs'
      <4>1. CASE i = next
        BY <4>1, <3>1
      <4>2. CASE i # next
        <5>1. i \in 1 .. next - 1
          BY <4>2, <1>2
        <5> QED BY <5>1, <3>1, <3>3, <2>0 DEF MapOfSyncs
      <4> QED BY <4>1, <4>2
    <3> QED BY <3>2, <3>3
  <2>2. CASE ~IsSync(logs[next])
    <3>1. latestSyncs' = latestSyncs
      BY <1>1, <2>2
    <3>2. \A a : ~SyncAt(a, next)
      BY <1>3, <2>2 DEF SyncAt
    <3>3. ASSUME NEW i \in 1 .. next, SyncAt(logs[i].address, i)
          PROVE  logs[i].address \in DOMAIN latestSyncs'
      <4>1. i \in 1 .. next - 1
        BY <3>2, <3>3, <1>2
      <4> QED BY <4>1, <3>1, <3>3, <2>0 DEF MapOfSyncs
    <3>4. ASSUME NEW a \in DOMAIN latestSyncs'
          PROVE  \E i \in 1 .. next : LastSyncAt(a, i, next) /\ latestSyncs'[a] = logs[i].data
      <4>1. PICK i \in 1 .. next - 1 : LastSyncAt(a, i, next - 1) /\ latestSyncs[a] = logs[i].data
        BY <3>1, <2>0 DEF MapOfSyncs
      <4>2. LastSyncAt(a, i, next)
        BY <4>1, <3>2, <1>2 DEF LastSyncAt
      <4> QED BY <4>1, <4>2, <3>1, <1>2
    <3> QED BY <3>3, <3>4
  <2> QED BY <2>1, <2>2
<1>7. MapOfSyncs(ReadForUpdates)'
  <2>1. logs' = logs /\ ReadForUpdates' = next
    BY <1>1, <1>2
  <2>2. \A a, i : SyncAt(a, i)' <=> SyncAt(a, i)
    BY <2>1 DEF SyncAt
  <2>3. \A a, i : LastSyncAt(a, i, ReadForUpdates)' <=> LastSyncAt(a, i, next)
    BY <2>1 DEF LastSyncAt, SyncAt
  <2> QED BY <1>6, <2>1, <2>2, <2>3 DEF MapOfSyncs
<1>8. SlicesOfSyncs'
  <2>1. pools = << >>
    BY <1>1 DEF SlicesOfSyncs
  <2> QED BY <2>1, <1>1 DEF SlicesOfSyncs
<1>9. SetOfSwaps(ReadForDiscovery)' /\ SliceOfSwaps'
  BY <1>1 DEF SetOfSwaps, ReadForDiscovery, SwapAt, SliceOfSwaps
<1> QED BY <1>5, <1>7, <1>8, <1>9

\* What the map holds does not depend on anything but the logs and the map.
LEMMA SameMap ==
  ASSUME UNCHANGED <<logs, latestSyncs>>, ReadForUpdates' = ReadForUpdates,
         MapOfSyncs(ReadForUpdates)
  PROVE  MapOfSyncs(ReadForUpdates)'
  BY DEF MapOfSyncs, LastSyncAt, SyncAt

\* At the end of the first loop all logs are read.
LEMMA SyncsReadStep == IInv /\ SyncsRead => IInv'
<1> SUFFICES ASSUME IInv, SyncsRead PROVE IInv'
  OBVIOUS
<1> USE DEF IInv
<1>1. /\ pc = "syncs" /\ next \notin DOMAIN logs /\ next' = 1
      /\ pc' = IF DOMAIN latestSyncs = {} THEN "swaps" ELSE "pairing"
      /\ UNCHANGED <<logs, latestSyncs, pools, reserve0, reserve1, discoveredPools, discovered>>
  BY DEF SyncsRead, updates, discoveries
<1>2. Len(logs) \in Nat /\ DOMAIN logs = 1 .. Len(logs) /\ next = Len(logs) + 1
  BY <1>1 DEF TypeOK
<1>3. TypeOK'
  BY <1>1, <1>2 DEF TypeOK
<1>4. MapOfSyncs(ReadForUpdates)'
  <2>1. ReadForUpdates = Len(logs) /\ ReadForUpdates' = Len(logs)
    BY <1>1, <1>2 DEF ReadForUpdates
  <2> QED BY <2>1, <1>1, SameMap
<1>5. SlicesOfSyncs'
  BY <1>1 DEF SlicesOfSyncs
<1>6. SetOfSwaps(ReadForDiscovery)' /\ SliceOfSwaps'
  BY <1>1 DEF SetOfSwaps, ReadForDiscovery, SwapAt, SliceOfSwaps
<1> QED BY <1>3, <1>4, <1>5, <1>6

\* A turn of the loop over the map appends a new row to the slices.
LEMMA AppendUpdateStep == ASSUME NEW a \in Addresses PROVE IInv /\ AppendUpdate(a) => IInv'
<1> SUFFICES ASSUME IInv, AppendUpdate(a) PROVE IInv'
  OBVIOUS
<1> USE DEF IInv
<1>1. /\ pc = "pairing" /\ a \in DOMAIN latestSyncs /\ a \notin Range(pools)
      /\ pools' = Append(pools, a)
      /\ reserve0' = Append(reserve0, latestSyncs[a][1])
      /\ reserve1' = Append(reserve1, latestSyncs[a][2])
      /\ UNCHANGED <<logs, pc, next, latestSyncs, discoveredPools, discovered>>
  BY DEF AppendUpdate, discoveries
<1>2. /\ pools \in Seq(Addresses) /\ IsInjective(pools)
      /\ reserve0 \in Seq(Reserves) /\ reserve1 \in Seq(Reserves)
      /\ Len(reserve0) = Len(pools) /\ Len(reserve1) = Len(pools)
  BY DEF TypeOK, SlicesOfSyncs
<1>3. /\ latestSyncs[a][1] \in Reserves /\ latestSyncs[a][2] \in Reserves
      /\ latestSyncs[a] = <<latestSyncs[a][1], latestSyncs[a][2]>>
  BY <1>1 DEF TypeOK
<1>4. /\ pools' \in Seq(Addresses)
      /\ Len(pools') = Len(pools) + 1
      /\ DOMAIN pools' = DOMAIN pools \cup {Len(pools) + 1}
      /\ \A k \in DOMAIN pools : pools'[k] = pools[k]
      /\ pools'[Len(pools) + 1] = a
      /\ IsInjective(pools')
      /\ Range(pools') = Range(pools) \cup {a}
  BY <1>1, <1>2, AppendNew
<1>5. /\ reserve0' \in Seq(Reserves) /\ reserve1' \in Seq(Reserves)
      /\ Len(reserve0') = Len(pools) + 1 /\ Len(reserve1') = Len(pools) + 1
      /\ \A k \in DOMAIN pools : reserve0'[k] = reserve0[k] /\ reserve1'[k] = reserve1[k]
      /\ reserve0'[Len(pools) + 1] = latestSyncs[a][1]
      /\ reserve1'[Len(pools) + 1] = latestSyncs[a][2]
  BY <1>1, <1>2, <1>3
<1>6. TypeOK'
  BY <1>1, <1>4, <1>5 DEF TypeOK
<1>7. MapOfSyncs(ReadForUpdates)'
  BY <1>1, SameMap DEF ReadForUpdates
<1>8. SlicesOfSyncs'
  BY <1>1, <1>3, <1>4, <1>5 DEF SlicesOfSyncs
<1>9. SetOfSwaps(ReadForDiscovery)' /\ SliceOfSwaps'
  BY <1>1 DEF SetOfSwaps, ReadForDiscovery, SwapAt, SliceOfSwaps
<1> QED BY <1>6, <1>7, <1>8, <1>9

\* When the slices are returned they list the whole map.
LEMMA ReturnUpdatesStep == IInv /\ ReturnUpdates => IInv'
<1> SUFFICES ASSUME IInv, ReturnUpdates PROVE IInv'
  OBVIOUS
<1> USE DEF IInv
<1>1. /\ pc = "pairing" /\ pc' = "swaps" /\ DOMAIN latestSyncs \subseteq Range(pools)
      /\ UNCHANGED <<logs, next, latestSyncs, pools, reserve0, reserve1, discoveredPools, discovered>>
  BY DEF ReturnUpdates, updates, discoveries
<1>2. TypeOK'
  BY <1>1 DEF TypeOK
<1>3. MapOfSyncs(ReadForUpdates)'
  BY <1>1, SameMap DEF ReadForUpdates
<1>4. SlicesOfSyncs'
  BY <1>1 DEF SlicesOfSyncs
<1>5. SetOfSwaps(ReadForDiscovery)' /\ SliceOfSwaps'
  BY <1>1 DEF SetOfSwaps, ReadForDiscovery, SwapAt, SliceOfSwaps
<1> QED BY <1>2, <1>3, <1>4, <1>5

\* A turn of the third loop extends the set by one log.
LEMMA ReadForSwapsStep == IInv /\ ReadForSwaps => IInv'
<1> SUFFICES ASSUME IInv, ReadForSwaps PROVE IInv'
  OBVIOUS
<1> USE DEF IInv
<1>1. /\ pc = "swaps" /\ next \in DOMAIN logs /\ next' = next + 1
      /\ discoveredPools' =
           IF IsSwap(logs[next]) THEN discoveredPools \cup {logs[next].address} ELSE discoveredPools
      /\ UNCHANGED <<logs, pc, latestSyncs, pools, reserve0, reserve1, discovered>>
  BY DEF ReadForSwaps, updates
<1>2. Len(logs) \in Nat /\ next \in 1 .. Len(logs) /\ DOMAIN logs = 1 .. Len(logs)
  BY <1>1 DEF TypeOK
<1>3. /\ logs[next].address \in Addresses
      /\ IsSwap(logs[next]) <=> SwapAt(next)
  BY <1>1, EventsRecognized DEF Log
<1>4. TypeOK'
  BY <1>1, <1>2, <1>3 DEF TypeOK
<1>5. MapOfSyncs(ReadForUpdates)'
  BY <1>1, SameMap DEF ReadForUpdates
<1>6. SlicesOfSyncs'
  BY <1>1 DEF SlicesOfSyncs
<1>7. SetOfSwaps(ReadForDiscovery)'
  <2>1. discoveredPools = {logs[i].address : i \in {j \in 1 .. next - 1 : SwapAt(j)}}
    BY <1>1 DEF SetOfSwaps, ReadForDiscovery
  <2>2. {j \in 1 .. next : SwapAt(j)} =
          IF SwapAt(next) THEN {j \in 1 .. next - 1 : SwapAt(j)} \cup {next}
                          ELSE {j \in 1 .. next - 1 : SwapAt(j)}
    BY <1>2
  <2>3. discoveredPools' = {logs[i].address : i \in {j \in 1 .. next : SwapAt(j)}}
    BY <2>1, <2>2, <1>1, <1>3
  <2>4. ReadForDiscovery' = next /\ logs' = logs
    BY <1>1, <1>2 DEF ReadForDiscovery
  <2>5. \A i : SwapAt(i)' <=> SwapAt(i)
    BY <1>1 DEF SwapAt
  <2> QED BY <2>3, <2>4, <2>5 DEF SetOfSwaps
<1>8. SliceOfSwaps'
  BY <1>1 DEF SliceOfSwaps, Range
<1> QED BY <1>4, <1>5, <1>6, <1>7, <1>8

\* After the last log the set holds every pool with a Swap event.
LEMMA SwapsReadStep == IInv /\ SwapsRead => IInv'
<1> SUFFICES ASSUME IInv, SwapsRead PROVE IInv'
  OBVIOUS
<1> USE DEF IInv
<1>1. /\ pc = "swaps" /\ next \notin DOMAIN logs /\ pc' = "listing"
      /\ UNCHANGED <<logs, next, latestSyncs, pools, reserve0, reserve1, discoveredPools, discovered>>
  BY DEF SwapsRead, updates, discoveries
<1>2. Len(logs) \in Nat /\ next = Len(logs) + 1
  BY <1>1 DEF TypeOK
<1>3. TypeOK'
  BY <1>1 DEF TypeOK
<1>4. MapOfSyncs(ReadForUpdates)'
  BY <1>1, SameMap DEF ReadForUpdates
<1>5. SlicesOfSyncs'
  BY <1>1 DEF SlicesOfSyncs
<1>6. SetOfSwaps(ReadForDiscovery)'
  <2>1. ReadForDiscovery = Len(logs) /\ ReadForDiscovery' = Len(logs)
    BY <1>1, <1>2 DEF ReadForDiscovery
  <2> QED BY <2>1, <1>1 DEF SetOfSwaps, SwapAt
<1>7. SliceOfSwaps'
  BY <1>1 DEF SliceOfSwaps
<1> QED BY <1>3, <1>4, <1>5, <1>6, <1>7

\* A turn of the loop over the set lists one more of its elements.
LEMMA AppendDiscoveredStep == ASSUME NEW a \in Addresses PROVE IInv /\ AppendDiscovered(a) => IInv'
<1> SUFFICES ASSUME IInv, AppendDiscovered(a) PROVE IInv'
  OBVIOUS
<1> USE DEF IInv
<1>1. /\ pc = "listing" /\ a \in discoveredPools /\ a \notin Range(discovered)
      /\ discovered' = Append(discovered, a)
      /\ UNCHANGED <<logs, pc, next, latestSyncs, pools, reserve0, reserve1, discoveredPools>>
  BY DEF AppendDiscovered, updates
<1>2. discovered \in Seq(Addresses) /\ IsInjective(discovered)
  BY DEF TypeOK, SliceOfSwaps
<1>3. /\ discovered' \in Seq(Addresses)
      /\ IsInjective(discovered')
      /\ Range(discovered') = Range(discovered) \cup {a}
  BY <1>1, <1>2, AppendNew
<1>4. TypeOK'
  BY <1>1, <1>3 DEF TypeOK
<1>5. MapOfSyncs(ReadForUpdates)'
  BY <1>1, SameMap DEF ReadForUpdates
<1>6. SlicesOfSyncs' /\ SetOfSwaps(ReadForDiscovery)'
  BY <1>1 DEF SlicesOfSyncs, SetOfSwaps, ReadForDiscovery, SwapAt
<1>7. SliceOfSwaps'
  BY <1>1, <1>3 DEF SliceOfSwaps
<1> QED BY <1>4, <1>5, <1>6, <1>7

\* When the slice is returned it lists the whole set.
LEMMA ReturnDiscoveredStep == IInv /\ ReturnDiscovered => IInv'
<1> SUFFICES ASSUME IInv, ReturnDiscovered PROVE IInv'
  OBVIOUS
<1> USE DEF IInv
<1>1. /\ pc = "listing" /\ pc' = "done" /\ discoveredPools \subseteq Range(discovered)
      /\ UNCHANGED <<logs, next, latestSyncs, pools, reserve0, reserve1, discoveredPools, discovered>>
  BY DEF ReturnDiscovered, updates, discoveries
<1>2. TypeOK' /\ SlicesOfSyncs' /\ SliceOfSwaps'
  BY <1>1 DEF TypeOK, SlicesOfSyncs, SliceOfSwaps
<1>3. MapOfSyncs(ReadForUpdates)'
  BY <1>1, SameMap DEF ReadForUpdates
<1>4. SetOfSwaps(ReadForDiscovery)'
  BY <1>1 DEF SetOfSwaps, ReadForDiscovery, SwapAt
<1> QED BY <1>2, <1>3, <1>4

\* Nothing changes, and the invariant with it.
LEMMA StutterStep == IInv /\ UNCHANGED vars => IInv'
<1> SUFFICES ASSUME IInv, UNCHANGED vars PROVE IInv'
  OBVIOUS
<1> USE DEF IInv
<1>1. UNCHANGED <<logs, pc, next, latestSyncs, pools, reserve0, reserve1, discoveredPools, discovered>>
  BY DEF vars, updates, discoveries
<1>2. MapOfSyncs(ReadForUpdates)'
  BY <1>1, SameMap DEF ReadForUpdates
<1> QED BY <1>1, <1>2 DEF TypeOK, SlicesOfSyncs, SetOfSwaps, ReadForDiscovery, SwapAt, SliceOfSwaps

\* The inductive invariant always holds.
LEMMA Invariance == Spec => []IInv
<1>1. IInv /\ [Next]_vars => IInv'
  BY ReadForSyncsStep, SyncsReadStep, AppendUpdateStep, ReturnUpdatesStep, ReadForSwapsStep,
     SwapsReadStep, AppendDiscoveredStep, ReturnDiscoveredStep, StutterStep DEF Next
<1> QED BY InitIInv, <1>1, PTL DEF Spec

-----------------------------------------------------------------------------
\* The maps, slices and positions always have their types, for lists of any length.
THEOREM TypeCorrect == Spec => []TypeOK
<1>1. IInv => TypeOK
  BY DEF IInv
<1> QED BY <1>1, Invariance, PTL

\* UpdatedInBlock returns, for every list of logs, each pool with its last valid Sync event.
THEOREM LastSync == Spec => []LastSyncWins
<1>1. IInv => LastSyncWins
  <2> SUFFICES ASSUME IInv, pc \in {"swaps", "listing", "done"}
               PROVE  /\ Len(reserve0) = Len(pools) /\ Len(reserve1) = Len(pools)
                      /\ IsInjective(pools)
                      /\ \A i \in DOMAIN logs :
                           SyncAt(logs[i].address, i) => logs[i].address \in Range(pools)
                      /\ \A k \in DOMAIN pools : \E i \in DOMAIN logs :
                           /\ LastSyncAt(pools[k], i, Len(logs))
                           /\ logs[i].data = <<reserve0[k], reserve1[k]>>
    BY DEF LastSyncWins
  <2>1. DOMAIN logs = 1 .. Len(logs) /\ MapOfSyncs(Len(logs)) /\ SlicesOfSyncs
    BY DEF IInv, TypeOK, ReadForUpdates
  <2> QED BY <2>1 DEF MapOfSyncs, SlicesOfSyncs
<1> QED BY <1>1, Invariance, PTL

\* DiscoverPools returns, for every list of logs, each pool with a Swap event once.
THEOREM EachSwapOnce == Spec => []SwappedOnce
<1>1. IInv => SwappedOnce
  <2> SUFFICES ASSUME IInv, pc = "done"
               PROVE  /\ IsInjective(discovered)
                      /\ Range(discovered) = {logs[i].address : i \in {j \in DOMAIN logs : SwapAt(j)}}
    BY DEF SwappedOnce
  <2>1. DOMAIN logs = 1 .. Len(logs) /\ SetOfSwaps(Len(logs)) /\ SliceOfSwaps
    BY DEF IInv, TypeOK, ReadForDiscovery
  <2> QED BY <2>1 DEF SetOfSwaps, SliceOfSwaps
<1> QED BY <1>1, Invariance, PTL
=============================================================================
