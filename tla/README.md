# A verification of Rabbit LQC

This directory specifies and checks the consensus code of the Rabbit network
(a go-ethereum fork): the permissionless registry, block production and
verification, and, step by step, the protocols built on them. The modules are
TLA+; small instances are model-checked with TLC, and the properties that
matter most are proved for every value of the constants with TLAPS.

## The system

| Part | Code | State | Operations | What makes it hard |
|---|---|---|---|---|
| Canonical registry | `consensus/lqc/canonical_registry.go` | an entry per address: registration, heartbeat, missed turns, jail, sequence, active | register, heartbeat, exit; missed turn, producer heartbeat; activation and recovery of an emergency producer | every node must derive the same value; sequence numbers against replay; 64-bit limits |
| Registry chain | `registry_snapshot.go`, `registry_engine.go`, `registry_header.go` | a snapshot per block hash, a cache, database checkpoints | prepare, verify, reconstruct, submit | preparing and verifying are separate code; recovery empties or keeps the registry; cache and checkpoints must equal a replay |
| Operation pool | `registry_pool.go` | two maps, `byHash` and `byAddress` | add, replace, expire, list | submissions are checked against a head that may be old when they are added |
| Header timing | `lqc.go` | timestamps, fallback windows, the recovery timeout, each node's clock | prepare a timestamp, verify it | producer and verifier clocks differ; a timeout races the block it replaces |
| Work seats (Rabbit Work V1) | `work_protocol_v1*.go`, `work_v1_engine_*_lab.go` | tickets, epochs, seats, liveness of seats, a runtime per block | submit work, close an epoch, select seats, miss and produce by seat | runtime state per branch; checkpoints; selection one epoch later |
| Committee participation | `committee_*_v1.go`, `work_v1_engine_v4_runtime_lab.go`, `eth/lqc_committee_*.go` | claims in pools, reservations of a producer, a ledger of paid positions per block | sign, gossip, pool, provide, include, pay | no position is paid twice although claims travel, wait and survive reorganizations |
| Rewards | `work_v1_engine_reward*_lab.go`, `core/vesting/rewardlocker.go` | balances, locked balances | distribute, lock, release | rounding, ordering, at most one payment |
| Rabbit VRF | `rabbit_vrf_*.go`, `eth/rabbit_vrf_*_lab.go`, `internal/rabbitvrfstate` | sessions, shares, keysets, partial signatures, finalizations | key generation, certification, signing, finalizing, replaying | crashes between signing and storing; requests after a reorganization |
| Gossip | `eth/lqc_registry_protocol.go`, `eth/lqc_work_v1_transport.go` | known sets and queues per peer | handshake, broadcast, relay | losses, marking known before sending |
| Fair verifier | `eth/lqc_work_v1_fair_verifier.go` | a queue per peer | run, close | round robin, closing while tasks run |
| Local insertion and recovery | `core/rabbit_lqc_*.go`, `miner/miner.go` | the head, a recovery marker | insert if the parent is current, recover state after a crash | crash between two writes, heads of equal height |

How the parts interact. Peers send registry operations, work candidates and
committee claims; each lands in a pool of the node. When the node may produce,
the miner captures a parent, `Prepare` asks the pools for what belongs into the
next block, and the block is inserted only if the parent is still the head.
Every node verifies a block against state it derives from the block's own
branch: the registry snapshot, the work runtime and the claim ledger, each of
them a function of the branch. A reorganization therefore changes all three at
once, while the pools and reservations of the node still refer to the old
branch. Most of what is hard lies in that gap, and it is where the modules put
their detail.

## The modules

| Module | Models | State | Actions and the code they stand for |
|---|---|---|---|
| `CanonicalRegistry` | the registry as a value | none (operators) | `ApplyOperation` and the loop over a block's operations, missed turn, producer heartbeat, activation, recovery, the order of producers, the canonical order of operations |
| `RegistryChain` | a node that prepares, verifies and imports blocks, with its operation pool and its clock | registry of the head, order of producers, pool, submissions in flight, prepared block | begin and end of `SubmitRegistryOperation`, listing the pool, resolving the local account and `Prepare`, inserting the own block, importing a foreign one |
| `CommitteeClaims` | claims, pool, provider, ledger, fork choice and rewards of the V4 rules | a tree of blocks with their ledgers, the pool, a reservation, a captured parent and a candidate block | signing, accepting, pruning, providing, building, inserting, importing a foreign block |
| `FairVerifier` | `lqcWorkV1FairVerifier` | queue, pending peers, worker, result channels, close | each critical section and each channel operation of `Run`, `loop` and `Close` |
| `WorkEpochs` | the work state of a branch | open epoch, seats, difficulties, and the history of tickets | a bootstrap block, a block inside a commit window, a block that closes one |
| `WorkPool` | candidate pool, journal, provider and admission of candidates | chain, pool, journal, reservation, removed candidates, scan position, verifications in flight | a context refresh, arrival, admission, providing, a new block, a reorganization, a restart |
| `MCRegistryChain`, `MCFairVerifier`, `MCWorkPool` | the signed operations, callers, peers and tickets of the runs | | |
| `CanonicalRegistryProofs`, `RegistryChainProofs`, `CommitteeClaimsProofs`, `FairVerifierProofs`, `WorkEpochsProofs`, `WorkPoolProofs` | the proofs about the module of the same name | | |

Definitions keep the names of the functions they translate. `PROJECT.json` maps
each of them to its lines. A definition with a suffix after an underscore
(`CanAdd_SameTicketOnly`) is a plausible bug of the definition it stands before;
no specification uses it, and replacing the definition by it makes a property
fail.

## What is abstracted

- Signatures are valid in exactly the context they were made for, and hashes are
  injective: a claim carries the identity of its target's parent, a ticket
  stands for its proof hash, a root for what it is the root of.
- `RegistryChain` keeps one branch. The owners of addresses sign a set of
  operations (`Signed`), and everybody may offer each of them at any time, again
  and again: a foreign block carries any list of them, repeated and outdated
  ones included, and the verification decides. Preparing and verifying are
  written separately, each from its own code: `PreparedRegistry` and `Filled`
  from `prepareCanonicalRegistryExtra`, which skips what does not apply, and
  `VerifiedRegistry`, `validateRegistryHeaderOperations` and `CanApplyOperations`
  from `applyHeaderWithOpenActivation`, which refuses the block. Only the methods
  of the registry that both call are shared. Times are seconds after the parent:
  the account is resolved at one reading of the clock, the block built at a later
  one and verified at a third. The hash of a block is a choice of the order it
  gives the next producers. 64-bit limits are kept as `MaxUint`; times are small.
  The queue is the one before the V3 liveness fork, and blocks with work seats
  are left to the modules of Work V1.
- `CommitteeClaims` starts at the parent of the block that activates the V4
  rules; claims for targets before it are left out. All seat blocks have
  committees of one size, and choosing seats is reduced to the kind of selection
  a block has (seats, too few seats, fallback, recovery). Providing claims is one
  step, as it is under the provider's lock. Which of two heads of equal height
  has the smaller hash is decided anew at each import, so every order is covered.
- `FairVerifier` takes one step for each critical section. A refused `Run`
  changes nothing and is left out.
- `WorkEpochs` is one branch. Tickets arrive in every order the header rules
  admit.
- `WorkPool` treats each candidate of a packet as an arrival of its own. One
  call meets one outcome of the journal: it stores, fails before writing, or
  writes and then fails to synchronize. Reconciling with the chain (the context,
  `ResetCommitEpochV1` and the scan of the window) is one step at one head; the
  provider's lock does not stop the chain, so in the code the head may move
  between these reads. A machine that loses writes it reported
  as synchronized, and reorganizations so deep that they replace the anchors of
  an epoch, are not modelled.

## What the runs check

| Run | Instance | Shows |
|---|---|---|
| `registry_chain` | 3 addresses, heights to 4, stabilization at 3, two operations per block out of four that are offered forever | an operation takes effect once in the life of a registry, no newcomer produces before its delay, penalties are bounded and never extended, and no missed turn, penalty or foreign operation takes a place in the queue away (only one's own operation or an emptied registry does) |
| `registry_pool` | 3 addresses for a pool of 2, one local account, submissions overlapping with imports, recovery after 2 seconds | the two indexes of the pool agree and stay within the capacity, and a prepared block is accepted by the verifier at every later reading of the clock |
| `claims` | 4 blocks in any tree, window 2 | on every branch a position is claimed once, the ledger is what a replay of the branch gives, claims belong to the branch that carries them, and the pool keeps a claim while the head's child may include it, unless a preparation on an older parent drops it |
| `claims_reward` | committee of 2, reward 15 (its shares leave a remainder) | what all blocks of a branch pay for a target never exceeds one block reward |
| `fair_verifier` | 5 callers of 4 peers | a peer has one task, each task is answered once, no peer starts two verifications while another caller waits, every `Run` returns and the worker ends after `Close` |
| `work_epochs` | epochs of 2 blocks, several windows | a participant is seated once, a branch can always be extended, the seats a block needs are final, the bounded state equals a replay, difficulty stays within its clamps |
| `work_pool` | 4 tickets of 3 participants, 2 peers, capacity 2, a full window and the start of the next, one reorganization, one restart | the journal can always be loaded, pooled candidates are in it, an accepted candidate is kept while its window is open, and none leaves the pool unless it is canonical |
| `registry_reentry`, `registry_inactivity`, `claims_reorg`, `claims_recovery`, `work_pool_offer` | as above, smaller | violations, see below |

The bounds are the smallest at which every branch of the code is taken: a commit
window needs two blocks so that one can lie inside it, the claim window of two
lets a record expire while its claim is still in a pool, capacity two with three
participants fills a pool, and three addresses let one be skipped by two others.
Two operations in a block let an address leave and return in it. One side of a
bound is not met: in `work_epochs` three participants with a target of two tickets
make difficulty fall to its half and to its floor, but never rise to four times
its value.
Each property is shown to fail for a plausible bug under the same bounds.

**Fairness** is assumed only in `FairVerifier`: the worker goroutine, a goroutine
inside `Close`, and a caller whose result is ready are scheduled again (weak
fairness of each), and a verification returns. Nothing is assumed about callers
that have not called, or about `Close` ever being called; `WorkerExits` speaks
only of the case that it is. Deadlock is allowed where the modelled system may
stop: after `Close`, and in the registry and epoch runs when the bound on heights is
reached.

## What is proved

The proofs hold for every value of the constants under the named assumptions of
each module (sizes are positive, limits are consistent with each other,
addresses and tickets are finite sets).

- **`RegistryChainProofs`**: `TypeCorrect`, `PoolSafe`, `PreparedSafe`,
  `NoReplay`, `ActivationDelayed`, `PenaltiesBounded`, `QueueKept` and
  `PenaltyKept`. The inductive invariant has four parts: the chain (the log of
  applied operations is remembered by the sequence numbers of the entries, which
  grow with every operation, also within a block; no early producer; bounded
  penalties), the pool (each index is the inverse of the other), the types of
  what is being submitted and prepared, and the candidate (one for the height
  after the head is accepted). `PreparedSafe` compares the two paths: by
  `FilledSound` the operations that the preparing loop kept, whatever the pool
  held, apply one after the other in the verifier's loop and give the root the
  block carries; they are in canonical order because a sublist of the sorted pool
  is (`AppendCanonical`); by `RecoveryStays` and `SlotOfPrepared` the recovery
  decision is the same for the timestamp before and after it was moved, and the
  slot is reached at every later reading of the clock, because the miner waited
  for it.
- **`CanonicalRegistryProofs`**: the lemmas of the previous item about the
  registry as a value. What the loop over a block's operations does to an entry
  (`ApplyOperationsEffect`) is proved by the least counterexample among the
  positions of the list (`LeastNumber`), which stands in for induction.
- **`CommitteeClaimsProofs`**: `PaidOnce`, `LedgerExact`, `BranchBound`,
  `ClaimsKept`. `ClaimedOnce` alone is not inductive: the ledger must be known to
  hold exactly the claims of its branch within the window, and claims to be on
  the branch of their target, before a new claim can be seen to be new.
  `ClaimsKept` needs that neither a pooled claim nor a captured parent is ahead
  of the head (`BehindHead`), which holds because the head never loses height.
- **`FairVerifierProofs`**: `OneVerificationPerPeer`, `EveryTaskAnsweredOnce`,
  `OvertakenAtMostOnce`, `QueueBounded`. The strengthening says that the pending
  set is exactly the peers queued or running, and that a peer that passed a
  waiting caller has nothing ahead of it.
- **`WorkEpochsProofs`**: `BranchNeverStuck`, `SelectionSourceReady`,
  `OneSeatForLife`. The strengthening is the schedule: at every height, which
  epoch is open, which difficulties are known, and which seats have been merged.
- **`WorkPoolProofs`**: `AlwaysRestorable`, `NothingLost`. Soundness is stated
  for a state of the node, and each operator of the provider is shown to
  preserve it; it adds to the two properties that removed candidates and tickets
  of the chain have been seen.

Only model-checked: both liveness properties of `FairVerifier`,
`IssuanceBounded` (a sum over a branch), `StateIsReplay` and `RetargetBounded`
(recursion over the history; rounding), and in `WorkPool` `TypeOK` (a rank among
priorities), `AcceptedKept` and `RemovedOnlyIncluded`.

## Disagreements between code and text

Each of the first five is a run that TLC ends with a violation.

- `registry_reentry`: recovery before the stabilization block empties the
  registry, sequences start again, and a registration that was used before is
  applied a second time (`registry_snapshot.go:145`); the registry specification,
  line 80, says "re-entry requires a new sequence".
- `registry_inactivity`: a participant that is inactive for longer than the
  heartbeat window and grace stays in the queue (`canonical_registry.go:193`,
  whose comment says so); the registry specification, lines 78-79, says that
  inactivity "automatically removes the participant from the queue".
- `claims_reorg`: the provider hands out the claims it reserved for a height
  again after a reorganization to a head of the same height, and building the
  header fails; its comment says that a reorganization "cannot poison block
  preparation".
- `claims_recovery`: claims for the committee of an emergency recovery block are
  paid out of that block's reward; the reward rules say "emergency recovery
  unsubsidized".
- `work_pool_offer`: a ticket that is already in the chain is offered for the
  next block, because whether it is canonical is checked before its verification
  and each block of the window is scanned once. Two other ways to the same state
  exist: the scan looks only for the first eight candidates
  (`lqc_work_v1_engine_provider_lab.go:271`), and a store that fails leaves the
  ticket behind a scan position that moves on (line 301).

Met while modelling, described by the models and not kept as runs:

- a heartbeat of a producer activated by recovery gives it an activation delay
  (`canonical_registry.go:200`; comment at 190-192);
- preparing a block with seats takes up to 64 registry operations under the V4
  rules (`work_v1_engine_selection_lab.go:1003`; `COMMITTEE-PARTICIPATION-V4.md`,
  line 31, says 48);
- the claim pool has no bound of its own and is pruned only when its pending
  claims are listed (`lqc_committee_claim_pool.go:39`; its comment at line 19).

## Plan

Modelled so far, in the order in which the rest depends on it: registry, claims,
fair verifier, work epochs, work pool. Next, most important first:

1. **Header timing of several nodes** (`lqc.go`): `RegistryChain` has the slots,
   fallback windows and recovery timeout of one node and one clock; next a clock
   per node, what the tolerance allows between them, and that a block is
   eventually produced.
2. **Snapshot cache** (`registry_engine.go`, `work_v1_engine_checkpoint_lab.go`):
   an abstract specification in which a snapshot is the replay of its branch, and
   the cache with checkpoints, restarts and reorganizations as its
   implementation, by refinement.
3. **Rabbit VRF**: the partial-signature store across crashes, the request
   cursor under reorganizations, sessions of key generation, certification and
   finalization.
4. **Work seats**: selection and the liveness of seats.
5. **Local recovery and fork choice**: the recovery marker across crashes, and
   several nodes that import in different orders.
6. **Vesting** as a pure module, checked against the sum of its stages; **gossip**
   with loss.

Not modelled and not planned: RandomX and signature schemes (numeric functions),
RLP and header codecs beyond their fields, RPC views, the first-generation work
tickets (superseded in the production build), and what is inherited unchanged
from go-ethereum.
