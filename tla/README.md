# TLA+ models of dedot

Dedot is a JavaScript client for Polkadot and Substrate chains. Its core is a
JSON-RPC client that follows a chain through a subscription of the node
(`chainHead_v1`), keeps the blocks it needs pinned there, runs operations on
them, and goes on across stops of the subscription and losses of the
connection. These modules model that core, the state machines of
`packages/utils`, `packages/providers` and `packages/api/src/json-rpc`, and
what is built on it: the events listeners see, the tracking of transactions,
storage subscriptions, runtime upgrades, and three parts that compute without
awaiting anything.

`PROJECT.json` holds the details that are not repeated here: for every
definition the source lines it models, for every run its configuration and
properties, for every property a mutation of a modelled definition that breaks
it, the hazards of the code, the findings, and the theorems.

## The system and its parts

Everything runs in one JavaScript thread. What interleaves are turns of the
event loop (socket messages, timers, calls of the application) and, inside a
turn, microtasks (continuations of settled promises, in FIFO order). An `await`
is where another actor gets in.

| Part (packages/…) | State | Operations | What is hard | Module |
|---|---|---|---|---|
| `ThrottleQueue` (utils) | running counter, parked callers | `add`, `cancel` | a slot is handed over in one microtask and counted in a later one | `ThrottleQueue` |
| `AsyncQueue` (utils) | waiting works, `_working`, `_currentWork` | `enqueue`, `clear`, `cancel` | the body of a cancelled work runs on and completes late | `AsyncQueue` |
| `LRUCache` (utils) | two maps and a doubly linked list | `get`, `set`, `has`, `delete`, `clear`, `keys` | the list is edited in five places, under a clock | `LRUCache`, `AbstractLRU` |
| `WsProvider` (providers) | socket, status, attempts, `#recovering`, `_handlers` | connect, retry, disconnect, switch, send, answers, time-outs | losses at any moment; requests queued and in flight | `WsProvider` |
| `SubscriptionProvider` and re-subscription (providers) | `_subscriptions`, `_pendingNotifications`, `_handlers` | subscribe, notify, unsubscribe, renew | early notifications, losses during a renewal | `WsSubscriptions` |
| `ChainHead`: pins (api) | `#pinnedBlocks`, `#finalizedQueue`, `#blockUsage`, `#cache` | follow events, body/call/storage, holdBlock/releaseBlock | forks, pruning and unpinning against operations in progress | `ChainHeadBlocks`, `ChainHeadPins` |
| `ChainHead`: follow and recovery (api) | `#subscriptionId`, `#recovering`, `#pendingRequests`, `#handlers`, `#retryQueue` | doFollow, stop, retry, reconnection | stop and loss in any order, with operations in every stage | `ChainHeadFollow` |
| `ChainHead`: what is emitted | `#bestHash`, `#finalizedHash`, `#lastBestBlockNumber`, block numbers | bestBlock, finalizedBlock | gaps, forks, blocks missed while not followed, headers awaited | `ChainHeadEvents`, `BlockStream` |
| `SubmittableExtrinsicV2` (api) | the searches for a transaction, held blocks | send, best and finalized block listeners, unsubscribe | searches cancelled in the middle, reorganisations | `TxTracker`, `WorkQueue` |
| `NewStorageQuery` (api) | last values, pull queue | subscribe, pulls on best blocks, unsubscribe | dropped, failing and late pulls | `StorageSubscription` |
| `V2Client` (api) | metadata, runtime version, local cache | `onRuntimeUpgrade`, `setupMetadata` | overlapping upgrades, forks that take one back | `RuntimeUpgrade` |
| merkleized metadata | none | transform, decode, prove | order of leaves and nodes, what a payload refers to | `MetadataProof`, `MerkleTree` |
| `CheckMortality` (api), `$Era` (codecs) | none | init, encode, decode | rounding, quantization, finality lag | `Mortality` |
| `LegacyClient`, `DedotClient` (api), other codecs, shape, types, code generation, CLI, contracts, chain types, smoldot worker, local storage | none that changes over time, or I/O | | | not modelled |

How they interact. An operation such as `chainHead.call()` picks a block and
claims it (`BlockUsage`), waits for a slot of a `ThrottleQueue`, waits for
`#recovering` when the subscription is being renewed, and sends a request
through the provider, which may park it in turn until it has a connection. The
answer is an operationId; the result arrives as an event of the follow
subscription. All events go through one `AsyncQueue`; operations that are tried
again go through another. Results are kept in an `LRUCache`. When the socket is
lost, `WsProvider` reconnects, sends again what may be sent again and rejects
the `chainHead_` requests; the client then follows the chain again. The follow
events become `bestBlock` and `finalizedBlock`, emitted to listeners inside the
step that handles the event: a transaction tracker, which claims the blocks it
reads, storage subscriptions, and the client itself, which looks for runtime
upgrades.

What makes each part correct: the queues forget nobody and keep their order;
the cache is what its comment promises; the provider has one connection, and
requests and subscriptions move to it; what is in use stays pinned and nothing
else does; the client is followed in the end and every operation is answered;
listeners get the finalized chain in order and every best block; what a listener
has told its callback agrees with the chain once it has nothing under way.

## Modules

* **ThrottleQueue** works at the granularity of microtasks: `micro` is the
  FIFO of scheduled continuations, `pc` says which continuation of a call is in
  it. `Call` and `Settle` are the surroundings; `Run` executes the head of
  `micro`: `AddNow`/`AddLater` (`add` up to its `await`), `Resume` (after it),
  `FinishAndWake`/`FinishAlone` (the `finally` block). `Cancel` is `cancel()`.
* **AsyncQueue**: `Enqueue`, `Clear` and `Cancel` are the methods; `Complete` is
  the end of a body, whoever is current then. All of them end in `Dequeue`,
  as in the code, where the caller's values of the fields are its parameters.
* **LRUCache** has the two maps and the list as one record, `cache`, and the
  life that is left of each node, so that no clock is needed. `Removed`,
  `Unlinked`, `ToHead`, `Pushed` and `Fitting` are the edits of the list;
  `Get`, `Set`, … use them in the order of the code. `set()` cleans up after it
  has linked the new node and stores the value last; with a TTL of 0, which the
  constructor accepts, or one that runs out in between, it stores the value of a
  node that is gone (`outlived`). **AbstractLRU** is what
  the class promises: its entries, which of two was used later, as a relation
  of pairs, and the values such a `set()` leaves behind. `LRUCache` instantiates it with the pairs of the walk of `keys()`
  (`Newer`).
* **WsProvider**: `Connect`, `Fire` (a timer of `#retry`), `Selected` and
  `NotSelected` (the endpoint selector), `Open`, the ways to lose a connection
  (`CloseNormally`, `Lose`, `GiveUp`, `Abandon`, `Disconnect`), `SwitchEndpoint`;
  for a request `Park`, `Send`, `Refuse`, `Answer`, `Expire`. `Connect` asks, as
  `connect()` does, for no more than that there is no socket yet: attempts
  may overlap, and the second replaces the socket of the first. `orphans` counts
  the sockets replaced this way by their stage; their handlers stay attached and
  act on the socket in their place (`OpenOrphan`, and the second disjunct of
  `Lost`). `Options` are the ways to make a provider: with or without retries
  and time-outs, which a delay of 0 disables. A request is "stranded" when the
  deferred it waits for is no longer the value of `#recovering`.
* **WsSubscriptions** follows a subscription across keys: a record of
  `_subscriptions` carries the key, the callback's owner and which object
  (the application's or an internal one) is updated by a renewal. `Open`
  renews every durable record and then repeats every pending request, those
  renewals included, as the code does. Notifications are numbered per key.
* **ChainHeadBlocks** holds what the `finalized` handler computes, as functions
  of the client's state; **ChainHeadPins** the handlers (`NewBlock`,
  `BestBlockChanged`, `Finalized`, `Initialized`), the life of an operation
  (`StartAt`, `StartAtBest`, `Perform`, `Respond`, `Complete`, `Unwind`) and the
  trackers (`HoldBlock`, `ReleaseBlock`), next to the node: what it reported and
  what it pins. `Hit` is an operation answered from the cache: `storage()` then
  gives back a claim it never took, and if the block is in use, the history
  variable `robbed` remembers it until nobody claims the block any more. Node and client move in one step, because events are handled in
  the order in which they are sent.
* **ChainHeadFollow** takes the follow apart that is one step of ChainHeadPins.
  Subscription *i* is the one `doFollow()` number *i* makes. `events` is the
  follow queue and what is on its way to it; `handling` is the `initialized`
  whose handler waits for a header. `HandleStop`, `Recovered` (the `.then()`),
  `Refuse` (the `.catch()`) and `Cleanup` (the timer of the `.finally()`) are the
  recovery; `Lose` and `Reconnect` what the provider and the client do to it;
  `Call`, `Answer`, `Finish` an operation, `Continue` the retry queue.

* **ChainHeadEvents** extends ChainHeadBlocks with what the handlers emit (`out`
  is what the last step emitted). `Initialized` is the handler up to its first
  `await`, `HeadersAnswered` and `MissingAnswered` the rest, `HeadersFail` its
  end by an exception; `Filling` is `#fillBestBlockGaps`. Numbers are kept as
  the difference (`offset`) between the number of a pinned block and its height.
  **BlockStream** is what a listener of `finalizedBlock` is promised: the
  finalized chain, block after block from the `place` the client has reached.
  Three steps say what may happen to that place: `Deliver` moves it with all the
  blocks up to the new one, `Skip` moves it up in silence, `Rewind` moves it
  down, if nodes may lag, and what is above is delivered again. ChainHeadEvents
  instantiates it with its `Place` and the finalized blocks of `out`.
* **WorkQueue** is `AsyncQueue` as a value: `WithWork`, `Completed`, `Cleared`,
  `Cancelled` return the queue after a call, and `settled` is the list of
  deferreds whose reactions have not run. **Filters** is what it and
  ChainHeadBlocks take elements out of a sequence with.
* **TxTracker** extends ChainHeadEvents. `ChainStep` is a step of the chain head
  with the listeners it calls (`OnBest` and `OnFinalized` up to their awaits);
  `Searched` and `SearchFails` are the end of the body of a search, `Conclude`
  what `checkBestBlockIncluded` does after its await; `FinalSearched`,
  `StillValid`, `NotValid` and `FinalFails` the body of a work on a finalized
  block; `Stopped` is `stopTracking()`, called by `Unsubscribe` and after a final
  status (`Ended`). `usage` is the count of `BlockUsage`. `Discovered` lists the
  blocks as the client got to know them, parents first: the order of the keys of
  `#pinnedBlocks`, in which a gap is filled.
* **StorageSubscription** and **RuntimeUpgrade** are listeners too;
  **BestBlockListeners** composes them: one `BestBlock` step reaches both. Their
  best blocks need not be descendants of each other. In RuntimeUpgrade a fetch
  is a series of requests (`NextRequest`), each made at the best block of its
  moment; the one that brings the metadata ends it.
* **MerkleTree** holds the tree, `generateProof()` and, as the reference, the
  root and the verification RFC 78 defines. **MetadataProof** first writes a
  payload, by the definitions of the registry alone, and notes which types and
  variants it `held`; the payload may then be altered. Then the decoder reads it,
  token by token, by the references of the transformed types, and the leaves it
  has met are proved: the decoder has no choice, and what it met is compared with
  what was written. **Mortality** holds the header and the period
  `CheckMortality` picks, `$Era`, and the reference: where the runtime finds the
  start of the era. **MCSequential** runs `LRUCache`, `MetadataProof` and
  `Mortality` side by side: a behaviour is one of one of them.

`MC…` modules instantiate these for TLC; `…Proofs` modules hold the proofs.
Definitions marked "mutant" are faulty variants of the definition above or
below them; no specification uses them. They document what each property is
able to notice.

## What is checked

| Run | Instance | Question |
|---|---|---|
| `queues` | ThrottleQueue: 5 calls, limit 2, calls also between continuations; AsyncQueue: 4 works, `clear` and `cancel` at any moment | Are slots counted, is no caller or work stranded, do they start in order, are all answered? |
| `ws` | a repeatable request and one that is not, 3 kinds of options (retries or not, time-outs or not), retry limit 2, 3 close events, 2 `connect()` at any moment | How many connections, are requests on them, are all answered? |
| `ws_subs` | a durable and a bound subscription, 2 losses, 3 notifications | Is delivery complete, in order, once; are subscriptions renewed? |
| `pins_tracker` | 5 blocks with a fork, 1 storage operation, 1 tracker, 1 re-follow, queue of 2 | Do client and node agree, is what is needed pinned and the rest not? |
| `pins_ops` | 2 forks of one block, a body or call operation and 2 of `storage()`, queue of 1 | Are usage counts exact, does no operation lose its block? |
| `follow` | 2 operations, 2 stops, 1 loss, WebSocket or light client | Is the client followed in the end, is every operation answered? |
| `events` | 5 blocks with a fork, 3 subscriptions, lagging nodes, failing headers | Does a listener see the finalized chain from the client's place (BlockStream) and the best one, a reader the right numbers? |
| `tx` | a fork with the transaction on both sides, 3 best blocks, 1 failing request, a block somebody else holds | Do statuses agree with the chain, is the final one told and last, are holds returned? |
| `best_block` | 6 best blocks, 2 values, 2 runtimes, 3 upgrades | Is the last value delivered the last one, is the metadata that of the best block? |
| `sequential` | 4 keys in a cache of 3, TTL 1; 14 types of every kind, payloads of up to 11 tokens, genuine or altered; 6 periods on 4 kinds of chains | Does the cache implement `AbstractLRU`, does every proof verify and suffice, does a transaction live one period? |
| `tx_cancel`, `tx_gap_strayed` | the chain of `tx` without failures; 7 blocks, a fork of two heights, 2 best blocks, which may skip some | Statements of comments that the code does not keep (below) |

**Bounds.** Five calls against two slots let two callers line up behind two
woken ones. Four works allow a current work, its replacement and two waiting
ones. Four keys in a cache of three give nodes that are head, tail, both and
neither, and an eviction by capacity; a TTL of 1 lets entries age and expire,
also during a `set()`. Three close events lose an open connection, an attempt
and the connection after it, and with a retry limit of two the provider also
gives up;
two calls of `connect()` overlap each other, a retry and a selection.
Three operations on one block, two of them of `storage()`, are the fewest with
which a cached result takes the claim of another operation. Two losses interrupt a renewal. The chain has a
fork below the tip, so blocks are pruned, left behind and finalized past; queue
sizes of one and two make every finalized event trim. Two stops make recoveries
overlap; one loss meets every stage of a follow. `MaxLosses`, `MaxNotes`,
`MaxKeys`, `MaxConnects`, `MaxRefollows` and `MaxStops` bound the surroundings
only (`MaxNotes` is a total over all keys). In `events` the first block is not
the genesis, so that relative numbers are wrong ones, and three subscriptions
abandon one initialization and recover from it; the fork is pruned, left behind
or announced to fill a gap. In `tx` three best blocks change the chain twice,
the shortest way to meet a search that outlives its cancellation. In
`tx_gap_strayed` one side of the fork is two blocks longer than the other, so
that a best block can leave a gap of two heights, and the other side holds the
transaction too at the second; only then does what fills a gap change what is
told; `BestAgrees` on such chains is the matter of `BestAlwaysAgrees`, which
proves it for every chain. In
`best_block` six blocks fill the pull queue of four (one running, three
waiting) and drop it. The registry of `sequential` has wrappers, compacts, empty
types, types with one variant and with several, recursion through a sequence and
a type nothing refers to from the payload; `Grow` visits the blocks next to the
ends of an era, where validity can change. `follow` also passes with three
stops (half a million states). Deadlock checking is off where the bounded
surroundings run out: in these instances the system comes to rest.

**Fairness.** All of it is weak. A continuation at the head of the microtask
queue runs; timers fire; the bodies of tasks settle; a node answers what it
received and goes on reporting blocks; a socket that is connecting opens or
closes; a lost connection is retried. Nothing is assumed about the application,
nor that losses or stops happen. In `ws` a request the node has is answered or,
where the interval of `#setupRequestTimeoutHandler` ticks, expires; nothing is
assumed about the sockets that were replaced. In `ws_subs` a node answers, with a result or an error. In `tx` the
requests of searches and of the broadcast are answered or fail and reactions
run; nothing is assumed about the chain: `FinalizedTold` starts from a finalized
block the tracker has heard of.

**Conditions.** Some properties hold except after a rare event which the model
has, and which a history variable records: `failed` (an attempt to connect
failed), `ended` (connection ended for good), `abandoned` (one lost with retries
disabled, and `connect()` not called again), `overlaps` (the calls of `connect()`
that overlap another attempt) and `orphaned` (a socket was replaced); in
ThrottleQueue `barged` (how many calls took a slot freed for another one); in
LRUCache `outlived` (the keys whose `set()` stored a value after its node was
gone); in ChainHeadPins `robbed` (a block in use lost a claim to a cached
`storage()` result); `cut` (a loss during a renewal),
`rejected` (the node refused a renewal), `overtaken` (a stop during a
recovery), `torn` (a loss that cut an initialization, an accepted re-follow or
a started operation); in ChainHeadEvents `lost` (the place in the finalized
chain was moved without a delivery, and nothing delivered since) and `botched` (headers of an initialization failed); in
TxTracker `skipped` (a best block left out while a search could still retract
the transaction), `strayed` (blocks of other forks were announced to fill a gap,
and the best chain has not changed since), `overlap` (a search started while a
cancelled one ran) and `crossed` (a final status before `txUnsub` is assigned,
or an end in the middle of a change); in StorageSubscription `missed` (the last pull failed); in
RuntimeUpgrade `disorder` (fetches out of order, or failed). TxTracker also
assumes that reactions run before the next message of the node, that the best
chain does not shrink to an ancestor, and that the blocks are known from the
start. In each case the behaviour beyond the condition is one
listed in the next section.

## Where the code departs from what it says

Shown by a run:

* `tx_cancel`: when a cancelled search ends after its successor has started, the
  queue forgets the successor, and the next change of the best chain does not
  cancel it.
* `tx_gap_strayed`: a gap between two best blocks is filled with the pinned
  blocks of all forks, announced as best blocks. A tracker looks for its
  transaction in the fork and reports that block as the one of the best chain;
  the best block that follows is not flagged as a change, so that nothing
  corrects it before the chain does change.

Reproducible with `tlc -config <cfg> <module>`, kept next to the runs:

* `WsProviderStranded.cfg` (MCWsProvider): every abnormal close replaces
  `#recovering` without settling it; requests queued before a failed attempt
  wait for ever (the comment of `WsProvider.ts:137` says "Recovering promise for
  request queueing during reconnection").
* `WsProviderNoRetries.cfg` (MCWsProvider): with retries disabled a close event
  still replaces `#recovering`, which nobody settles: what is queued after it
  waits until the application connects again (`WsProvider.ts:263`, `:401`).
* `WsProviderTwoSockets.cfg` (MCWsProvider): "Websocket connection already
  exists" is asserted before the endpoint is awaited and not after
  (`WsProvider.ts:225-230`): two calls of `connect()`, or one during a retry's
  selection, make a socket each.
* `LRUCacheZeroTtl.cfg` (LRUCache): with a TTL of 0 `set()` evicts the node it
  has just linked and then stores its value, which no clean-up will find
  (`LRUCache.ts:196-198`).
* `MetadataProofBits.cfg` (MCSequential): a bit sequence takes no bytes of the
  payload (`decoder.ts:129`), so that a genuine payload with one is misread or
  refused.
* `ChainHeadEventsAgain.cfg` (MCChainHeadEvents): after a re-follow to a node that
  lags, finalized blocks are emitted a second time (`ChainHead.ts:337`, `:404`).
* `WsSubscriptionsUnsubscribe.cfg` (MCWsSubscriptions): the object an
  application unsubscribes with follows only the first renewal; an
  `unsubscribe()` during a renewal or after a second one leaves the callback in
  place (`WsProvider.ts:314`).
* `ChainHeadPinsCacheHit.cfg` (MCChainHeadPins): `storage()` answered from the
  cache releases a block it did not use; a block that a transaction tracker
  holds may be unpinned (`ChainHead.ts:1095`, against the comment of line 449).
* `ChainHeadFollowForgotten.cfg` (MCChainHeadFollow): a stop handled during a
  recovery replaces `#recovering`; what waited for the first deferred is
  forgotten (`ChainHead.ts:490`).

Seen while modelling, part of the models but not of a run:

* `ThrottleQueue`: a call made by a continuation that runs before a woken
  caller's takes the slot too, and more than the limit run: one more for each
  such call (`SlotsCounted`, `AlwaysLimitUnlessBarged`). `ChainHead` makes its calls from
  microtasks, so this is not a matter of unusual surroundings.
* `AsyncQueue`: after `cancel()` two bodies run, and the late completion of the
  first clears the flags of the second.
* `WsProvider`: when it gives up it settles a deferred nobody waits for;
  requests in flight then have no time-out any more; a request that was refused
  keeps its handler and is sent by a later connection.
* Subscriptions: each renewal is sent twice on reconnection, and the node keeps
  a subscription nobody ends; a loss during a renewal leaves two records, and
  the callback is called twice.
* `ChainHead`: after a loss, operations that had an operationId are not
  rejected as they are after a stop; a loss while `initialized` awaits its
  header blocks the follow queue; a loss after a re-follow was accepted leaves
  `#recovering` pending; a parked `follow` is repeated with a wrong parameter
  and fails the recovery it belongs to.
* What `ChainHead` emits: block numbers stay relative after an initialization
  whose headers failed, and later ones may be derived from them; finalized
  blocks are skipped when the list of the new node does not reach back to the
  last one, and emitted again after a node that ends below it; the best block is reset to the finalized one without an event; a gap
  is filled with the blocks of all forks, all but the first of a height flagged
  as a change.
* Transactions: a search that was cancelled and finds the transaction drops the
  searches of the new chain; a status may follow the final one when the tracking
  stops in the middle of a change; a final status before the broadcast is
  answered does not stop the tracking; a broadcast that fails leaves listeners
  and holds behind; without a callback the holds are given back twice.
* Storage subscriptions: a best block that arrives during the initial pull is
  not pulled; a pull that ends after the subscription was left still calls the
  callback; a failed pull leaves the old value.
* Runtime upgrades: fetches that end out of order leave the older metadata; what
  is fetched while the runtime changes is stored under the later version.
* `CheckMortality` and `$Era`: a transaction with a period above 4096 that
  starts from a block the quantization rounds is never valid; over the new
  JSON-RPC the finality lag is not bounded; rounding up may exceed
  `blockHashCount`.
* Merkleized metadata: the proof of a tree of one leaf holds the hashed leaf.

## What is proved

The proofs hold for every value of the constants that meets the named
assumptions (sizes positive or natural, sets finite, sentinels outside of their
sets). Each follows the same argument: an inductive invariant, a lemma for each
action or group of actions, a temporal step at the end.

* `LocalProofs`, on what waits for no peer. For the queues, `IInv` adds to the type invariant of
  `ThrottleQueue` that the lines `queue` and `micro` are without repetition and
  agree with `pc`: only then does moving one caller change the counted sets by
  one. It gives `TypeCorrect`, `WakeupNeverLost` and `AlwaysInOrder` (an action
  property: nobody starts before one who waits). `AlwaysLimitUnlessBarged`, and
  `SlotsAlwaysCounted` with it, need more: running and woken tasks together stay
  within the limit and the calls that barged in. For `AsyncQueue`, `AsyncIInv` says the waiting line
  agrees with the stages; `DequeueOK` shows that `dequeue()` restores it from
  whatever its caller left. It gives `AsyncTypeCorrect`, `AlwaysStartInOrder` and
  `NeverStranded`, `cancel()` included; `SequentialWithoutCancel` adds that the
  running body is the current work.
* Its second part is about `LRUCache`, for any keys, capacity and TTL, 0 included. `Linked`
  says that the links put the nodes in the order of a relation (`Chain`), without
  speaking of walks: `next` leads to the node that follows, except from the tail,
  whose `next` may be anything, and `prev` likewise. Each edit of the list is then
  a change of the relation: `RemovedWithout` (a node leaves it), `ToHeadRenews`,
  `PushedFront`, `FittingLeft` (the last one leaves), and `SweptLeft` for the loop
  of `#evictTTL()`, whatever the order the expired nodes are in. `KeysWalk` shows
  that `keys()` meets every node once and ends at the tail, so that the order it
  tells is that relation (`ReadOK`). `LruInv` is inductive with it, and gives
  `CacheAlwaysConsistent` and, one operation at a time, `CacheKeepsPromise`:
  the refinement of `AbstractLRU`.
* Its third part is about `Mortality`. `EveryEraExact` is the arithmetic of the
  fifteen periods `$Era` can express, `StartOfEra` follows a period and a block
  through the encoding, the decoding and the runtime. `AlwaysLivesOnePeriod` holds
  for every period asked for, `AlwaysAliveWhenSigned` for chains that meet
  `ChainsAssumption`: they remember five blocks or more, as many as the lag that is
  allowed for, and their constants lead to a period of at most 4096 blocks, above
  which the phase is rounded.
* `ChainHeadBlocksProofs` holds what the two modules after it need to know about
  chains: `Below` is an order, the blocks below one are a chain, `Segment` lists
  what lies between; and about the functions of the `finalized` handler (`Filter`,
  `Enqueued`, `Trimmed`, `ToUnpin`). `PathTo` is a recursive function and
  sequences are filtered by another; the induction this takes is a proof from
  the least element of a set of numbers (`LeastNumber`), since the library's
  induction theorems take an operator.
* `ChainHeadPinsProofs`. `UsageAlwaysExact`, `HeldAlwaysPinned` and
  `OperatedAlwaysPinned`, for every tree of blocks, all operations, `storage()`
  among them, and all trackers. The usage is compared with a set of claims whose
  cardinality each action changes by as much as it changes the counter
  (`CountMany`, `ExactKept`); a block that is held or operated on has a positive
  count, and what has one is never unpinned. Only a cached `storage()` result
  gives back what it has not taken: the count of that block may then be too low,
  never too high, and is exact again once nobody claims it (`Unclaimed`). `PinsAlwaysAgree`, `PathsAlwaysPinned` and `PinsAlwaysBounded` hold
  whatever is in use. Their invariant, `ChainInv`, says what makes it safe to
  unpin everything at or below the finalized height: above the finalized block
  the client has pinned exactly what the node reported, without a gap
  (`Reported`), and the queue holds blocks of the finalized chain only
  (`Queued`), so that nothing else is to be walked through.
* `ChainHeadEventsProofs`. `EventsInv` says what the client knows in each stage
  of a follow: what is pinned has no gap above the finalized block, the list of
  `initialized` is a chain that ends in it, and the last block emitted is the
  finalized one of this subscription or, until the missed blocks have been
  emitted, of the one before (`Placed`). It gives `AlwaysCaughtUp` and
  `NumbersAlwaysRight`; `BestAlwaysCovered` (an action property) needs that the
  number of the last best block is that of its height; `FinalizedInOrder` is the
  refinement of `BlockStream`, one step at a time: an event or the end of
  `initialized` delivers the segment above the place, `initialized` itself may
  move the place and everything else is a pause. `NothingAgain` adds that only a
  node that lags moves it down: otherwise no block is emitted twice.
* The second part of `ChainHeadEventsProofs` is about `TxTracker`, for every
  tree, any blocks that hold the transaction or that another tracker holds, with
  a callback or without. `TxInv` follows the two queues: what is pending runs or
  waits, without overlapping searches only the current one runs, on the
  finalized chain one work runs even after the tracking has stopped, and nothing
  waits then (`Sound`, `Searching`, `Finalizing`). The lemmas on the functions of
  `WorkQueue` say what each call makes of that, and which reactions it adds.
  `HoldsAlwaysReturned` counts the holds across the three ways to stop.
  `FinalAlwaysEnds` (an action property) needs `FinalStays`: after a final status
  that came in order the work on the finalized chain is over, and a reaction
  that is still to come is that of a search which was cancelled, has found
  nothing and has nothing to take back.
* The third part of `ChainHeadEventsProofs` proves `BestAlwaysAgrees`: once its
  searches are over the tracker has told the block of the best chain that holds
  the transaction, or none. `BestAgrees` speaks of the moments at rest only; its
  invariant, `SearchRight`, speaks of the others through the `Outcome` of the
  searches, which is what `txFound` will be once the reactions to the settled
  ones have run. `Line` says which of them can still matter: only the last
  settled one has found something or answers a change, and a search that runs
  while something was found was started by a change and is alone. `Told` says
  that every pending search is about a block of the best chain, and that the
  outcome is right of the best block or the search that will make it right is
  pending. A search that finds nothing leaves the ones behind it to decide
  (`Found` is the same from every block above the one it returns, `FoundStays`);
  one that finds something may drop them. One step of the chain head announces
  several blocks, and the listeners run on each (`BestRun`): without stray blocks
  they climb the segment to the new best block (`FillsExtend`), while a
  last event that is flagged as a change starts anew whatever came before it
  (`ChangedRight`). That the blocks filling a gap are on that segment needs
  `ChainRight`: the last number announced is the height of the best block.
* `ChainHeadFollowProofs`, for any operations, stops and losses.
  `FollowedAlwaysWhenQuiet` needs that a connected client is followed, has a stop
  to handle or has asked to follow (`Renewing`), and that the last subscription
  begun is the one it uses unless its 'initialized' is still queued (`Latest`).
  `OperationsAlwaysRecovered` adds that without a torn recovery there is one
  subscription at a time (`OneFollow`) and that the end of one that was
  initialized follows in the queue (`Ends`): an abandoned header then leaves a
  stop behind. `WaitersAlwaysReleased` is `Recovering`: a deferred is pending
  exactly as long as its `doFollow()` is under way, and a timer that will clear
  `#recovering` exists only afterwards. That a step ends no `doFollow()` under way
  but by settling it is `KeptOrEnded`. Every `doFollow()` answers a stop or a loss,
  so that there is always a number left for the next (`Counted`).
* `WsProviderProofs`, for any requests, options and bounds, with attempts that
  overlap and sockets that are replaced. `IInv` counts what is under way and
  relates `#recovering`, the sockets and the stages of requests. It gives
  `TypeCorrect`, `OneConnectionAlways` (each call of `connect()` that overlaps an
  attempt adds one connection, and nothing else does), `AlwaysTransmitted` (the
  replaced sockets included) and, without failed attempts and replaced sockets,
  `QueuedAlwaysProceed`: a deferred exists only between two connections, with one
  on its way unless retries are disabled.
* `WsSubscriptionsProofs`. `NotificationsInOrder` and `RecordsAlwaysAgree`, for
  any subscriptions, losses and notifications. The invariant follows a key
  through its life: a key belongs to one subscription, is either asked for,
  recorded or given up, and what was sent for it is what its callback got or
  what waits in `_pendingNotifications`. A renewal is a second request for a
  record that is still there: without a cut no subscription has two of them.
* `BestBlockListenersProofs`. `UpgradeIInv` says that fetches are numbered, that
  the client's version is the one of the best block, and that the newest fetch
  was answered with it if at all: fetches that end in order therefore leave the
  right metadata (`MetadataAlwaysFollows`). `StorageIInv` says that one pull runs
  and that the last one waiting, or the one that runs if none waits, is that of
  the newest block: dropping the others loses nothing (`StorageAlwaysFresh`).

**Only model-checked.** Liveness under fairness everywhere, and what rests on
ENABLED. `ProofVerifies` and `ProofSuffices` of `MetadataProof`, which compute by
recursion over types and trees. Where the type invariant is proved it is not
among the properties of a run, but for that of `TxTracker`, which `BestAgrees`
holds.

## What is left out

* In ChainHeadPins: several items in one `storage()`, the fallback to the
  archive, `unfollow()`, and the stages of a re-follow (ChainHeadFollow).
* In ChainHeadFollow: the second copy of requests repeated while the first is
  in flight, time-outs of requests, events other than `initialized` and `stop`
  that wait behind an initialization, and `unfollow()`.
* In WsSubscriptions: time-outs, which are those of any request (WsProvider),
  overlapping attempts and replaced sockets.
* In ChainHeadEvents: `newBlock` and `bestChainChanged` as events of their own
  (the first is emitted as it comes, the second is a flag of `bestBlock`), and the
  runtimes of blocks.
* In TxTracker: stopping the broadcast, the runtime of validation, and the
  deferreds of `txDefer()`, among them those of
  `signAndSend().untilFinalized()`, which stay pending when validation or the
  broadcast rejects.
* In StorageSubscription: several keys in one subscription, and `query()`. In
  RuntimeUpgrade: the deferred of `getRuntimeVersion()`, which a second upgrade
  replaces without settling it, preloaded metadata and the staling detection.
* In MetadataProof: names, bytes and the extrinsic metadata; in Mortality:
  immortal transactions and those rebuilt from a payload.
* Formatting, encoding, logging, and all of the parts listed as not modelled in
  `PROJECT.json`, with the reasons there: pure functions, generated code, I/O,
  or parts without a state of their own.

## Plan

Done, in this order: the queues, the provider, the subscriptions, the cache,
pins and follow, with the proofs above; `ChainHeadEvents` with `BlockStream`;
`TxTracker`; `StorageSubscription` and `RuntimeUpgrade`; `MetadataProof` and
`Mortality`. What is left:

1. The deferred of `getRuntimeVersion()` in `RuntimeUpgrade`, next to the
   initialization of the client.
2. The archive fallback of chain head operations, and several items in one
   `storage()`.
