# Simplex consensus in TLA+

This directory verifies the Simplex consensus of the TON validator
(`src/validator/consensus/`). A *group* of validators agrees on a chain of block
candidates, at most one per *slot*; consecutive slots form *leader windows*. Three
kinds of certificate, each signed by more than two thirds of the weight, drive it:
a slot is *notarized* (with a candidate), *skipped*, or *finalized*.

## The parts of the system

| part | what it does | modules |
|---|---|---|
| the protocol | what honest validators may vote for, and the certificates | `SimplexWeights`, `SimplexProtocol` |
| `ConsensusImpl`, `Db` | decides the votes, alarms, leader windows; votes to disk | `SimplexConsensus` |
| `PoolImpl`, votes | counts votes, assembles certificates, reports misbehavior | `SimplexVotes` |
| `PoolImpl`, certificates | saves them, bases, skipped runs, windows, `WaitForParent` | `SimplexCertificates`, `SimplexPool` |
| `PoolImpl`, standstill | repeats votes and certificates when nothing becomes final | `Standstill` |
| `CandidateResolver` | stores, serves and fetches candidates | `CandidateResolver` |
| `StateResolver`, `BlockAccepter`, `BlockValidator` | accepts blocks, resolves states, waits with validation | `AcceptedChain`, `StateResolver` |
| `BlockProducer` | collates, signs and publishes a window's candidates | `BlockProducer` |

The actors talk over a bus. A request runs its single processor first and its
handlers only on success: a vote (`BroadcastVote`) is on disk before the pool signs
and sends it, and a window (`LeaderWindowObserved`) before `ConsensusImpl` acts on
it. `PROJECT.json` lists every part, also those left out, and the hazards by line.

What is hard: votes decided in memory and lost in a crash; coroutines that resume
after their slot was skipped, pruned or overtaken; alarms racing notarizations;
certificates in any order, also when replayed from disk; a crash between two
writes; Byzantine validators that equivocate.

How the modules fit together: `SimplexConsensus` implements `SimplexProtocol`.
`SimplexVotes` and `SimplexPool` start from what the group signs and certifies, of
which they assume only what `SimplexProtocol` is proved to guarantee
(`PoolPremise`). `SimplexConsensus` sees the pool through its events, which may come
at any time once the certificates behind them exist; that the pool's announcements
are such events is `AnnouncedBaseValid`. A validator votes only for candidates it
stored (`NotarizedIsStored`), where `CandidateResolver` starts. `BlockProducer` is given
windows in increasing order, as it CHECKs (block-producer.cpp:59): that
`ConsensusImpl` starts them so is `LeadsInOrder`. `StateResolver`
takes finalized candidates and implements `AcceptedChain`.

## The modules

`SimplexWeights`: weights are an additive function on sets of validators, with less
than a third Byzantine; nothing else is assumed of them.

`SimplexProtocol`: the votes of honest validators and the certificates. Byzantine
votes are not state: a certificate can be formed once the honest members of some
quorum voted for it.

`SimplexConsensus`: one validator in detail; the others take protocol steps.
`notarize[self]`, `skip[self]`, `finalize[self]`, `stored` and `dbWindow` are its
disk, `published` its votes on the way there (in order: `start()` puts each
`publish` in the mailbox of `ConsensusImpl`, there is one `Db` actor, and
`KeyValueAsync` writes in order). Each handler, the alarm and each resumption of
`try_notarize` and `start_generation` is an action; `Restart` is a crash followed by
`start_up`. Steps of `try_notarize` that touch no state are one stage.

`SimplexVotes`: the votes of one slot. `signed`, chosen initially, is what each
validator will ever sign; Byzantine ones sign everything. `HandleVote`,
`HandleCertificate`, `CertificateSaved` and `Prune` are the handlers of the pool.

`SimplexCertificates` has the certificates as the pool sees them, and `Consistent`,
what a group guarantees of them. `SimplexPool`: `issued`, chosen initially, is a
consistent set of certificates; they arrive in any order, are saved
asynchronously, and after a crash are replayed in any order (the code reads them by
hash). `first`, `now`, `base`, `skip_intervals`, `lastFinal` are the fields of the
pool, `answer` the `WaitForParent` requests. At pool.cpp:620 a reference into a
temporary is used before any await; the model takes the slot it refers to.

`Standstill`: the pools of several honest validators that lose messages, and
`standstill_resolution_task`, which suspends for its quota between messages while
slots become final under it. One candidate per slot, no crash.

`CandidateResolver`: several validators and one candidate: the two writes of
`StoreCandidate`, the vote after them, the shared resolve task, requests to random
peers that are lost, refused or time out, crashes anywhere. Entries for different
candidates are independent.

`StateResolver`: one validator. `fin` and `cache` say where each coroutine of
`finalize_blocks` and `resolve_state` stands, `request` where a validation is,
`accepted` and `saved` are the manager and the disk. `AcceptedChain` is what is
promised to the manager: in a shard no block before its predecessor, in the
masterchain none without a final certificate. In the masterchain, `finalize_blocks`
of a full candidate marks the parent done without accepting it
(state-resolver.cpp:183), so there the chain may have gaps.

`BlockProducer`: the coroutine of every window, with windows that overtake each
other at any await. A coroutine starts from the mailbox and reads
`current_leader_window_` by then (block-producer.cpp:87), so it may take a later
window for its own and close it. A signature may fail (block-producer.cpp:199): the
coroutine then ends in the middle of its window and leaves `current_leader_window_`
set. `CutShort` says that these two, and a later window, are all that ends a window
early. `signed` are the candidates given to the keyring, whatever becomes of them.

The `MC` modules give the constants their values. Definitions placed before an
action and named for a mistake (`VoteBeforeStored`, `AlarmForgets`, ...) are
deliberate errors: each checked property is known to be violated by one of them.

## What the runs check

| run | instance | distinct states | checks |
|---|---|---|---|
| `protocol` | 3 honest and 1 Byzantine validator, 3 slots, 4 candidates | 493,795 | `TypeOK`, `Agreement`, `FinalExcludesSkip`, `NotarizedChainComplete` |
| `protocol_live` | 2 slots, 3 candidates | 47,998 | `SlotsSettle` |
| `consensus_slot` | 1 slot, 2 candidates, 2 crashes | 62,754 | `ImplementsProtocol`, `NotarizedIsStored`, `MemoryCoversVotes` |
| `consensus_window` | one window of 2 slots, 1 crash | 401,155 | `ImplementsProtocol`, `MemoryCoversVotes`, `AnnouncedWindowClosed` |
| `consensus_leader` | 4 windows of 1 slot in a group of 3, 1 crash | 941,718 | `LeadsInOrder`, `TimeoutArithmeticSafe` |
| `votes` | 4 validators, 2 candidates | 807,445 | `CertificatesVerify`, `QuorumIsCertified`, `CertifiedVoteHasCertificate`, `HonestNotReported` |
| `pool` | 3 slots, 4 candidates, 2 requests, 1 crash | 940,789 | `SkipIntervalsExact`, `BaseIsBest`, `AnnouncedBaseValid`, `AnnouncementsIncrease`, `ParentAnswerExact`, `MisbehaviorJustified` |
| `candidates` | 3 validators, 1 resolver with 2 requests, 1 crash | 89,754 | `AwaitersHaveTask`, `IndexedIsReadable`, `VotedCanServe`, `NotarizedIsResolved` |
| `finalization` | chain of 3 with an empty candidate, 1 fork, masterchain and shard, 1 crash | 166,081 | `ImplementsAcceptedChain`, `ManagerHasBlock`, `MasterchainOnFinal`, `WaitersHaveTask`, `NoLostWakeup`, `FinalIsAccepted` |
| `finalization_restart` | the same | violated | `ApplyFits` |
| `producer` | 2 windows of 3 slots, heights to 3 | 1,543,710 | `SignsOncePerSlot`, `WindowIsChain`, `FullWithinFinal`, `CutShort` |
| `standstill` | 2 pools, 2 slots, 2 quorum systems | 12,516 | `TaskNeverAborts`, `CertificatesSpread`, `QuorumSettles` |

### The violated run

`finalization_restart` shows that `ChainState::apply` can abort the process after a
restart. The process crashes after the manager accepted a block and before the
`finalizedBlock` key is written (state-resolver.cpp:204, 212). Until the replayed
finalization ends, `is_finalized` is false; a `ResolveState` in that time walks down
to the start of the session, whose state already has the block, and applies the
block again. chain-state.cpp:124 asserts that the update fits.

### Bounds

Three slots hold a candidate that passes over a skipped slot beside one that extends
the same parent directly, and a chain of two candidates. The detailed validator has
two slots: a window with an end, an alarm over two slots, a candidate over a skipped
slot, but no chain of two candidates; its theorems have no such bound. In
`SimplexConsensus` the other honest validator and the Byzantine one are a quorum, so
every certificate is possible without this validator's vote. In `consensus_leader`
windows follow each other, and of four windows of a group of three the validator
leads two, so a `start_generation` can be overtaken, or repeated after a crash. Two crashes (one slot)
allow a crash during recovery. Three slots of a window and a height of 3 let a
collation outlive its slot and reach the limits of `should_generate_empty_block`.
Slots, heights, crashes, requests and the standstill's votes (`Agenda`) are bounded
by constants. Deadlock is not checked: with finitely many slots the system comes to
rest.

### Fairness

- `protocol_live`: the alarm of an honest validator goes off for a slot that is not
  notarized once all slots before it are settled, and honest skip votes are
  assembled in the end: alarms are armed for every announced window, and the
  standstill task repeats votes.
- `consensus_window`: the process runs (weak, of these steps together): writes
  complete, the announced window is delivered, an armed alarm fires. Nothing is
  assumed of the others.
- `candidates`: a task proceeds and requests time out (weak); a random peer is every
  peer again and again, and of the requests to it some are answered (strong).
- `finalization`: the coroutines of the process proceed (weak, of all of them
  together). Loading, accepting and saving retry until they succeed.
- `standstill`: rounds start, the task runs on, and from some point the network
  delivers (weak).

## What is proved

TLAPS checks all theorems, for every value of the constants that satisfies the
`ASSUME`s of the module: every group, weight, number of slots, candidate tree, window
length and number of crashes. Every safety property of the passing runs has a
theorem. In the proof modules Zenon is the default backend; leaves that need
arithmetic or records cite SMT.

`SimplexProtocolProofs`. `Agreement` is not inductive. `IInv` adds that a validator
notarizes one candidate of a slot, finalizes only what it notarized, saw certified
and did not skip, notarizes only candidates with a certified parent and skipped
slots between, and that every certificate has a quorum behind it. Two quorums share
an honest validator (`QuorumIntersection`), so a finalized slot has no skip
certificate and one notarized candidate (`FinalSlot`). A certified candidate above a
finalized one cannot pass over it; the one of the least slot outside the finalized
one's descendants gives a contradiction (`Descent`). `PoolPremise`: the certificates
are `Consistent`, if the slots are an initial segment of the naturals.

`SimplexConsensusProofs`. `IInv` relates disk, votes on their way and memory: memory
has every vote cast, finalization votes follow notarization votes in the queue, a
running `try_notarize` has cast nothing, votes on their way are ones the protocol
allows. `Refinement` follows, since only `PersistVote` makes a vote of the protocol.
`TimeoutsNeverWrap` has its own invariant (`Timing`), as has `WindowsLedInOrder`
(`Leading`: windows led are on disk and before those announced, and the actor's
window, if it is being prepared, is beyond them; an overtaken one cannot start).
`GroupIsSafe` puts this together with the theorems of `SimplexProtocolProofs`,
instantiated (`SameProtocol` relates the two instances): agreement holds in a group
where a validator runs this code, through any crashes. `PoolsGetConsistent` carries
`PoolPremise` over in the same way.

`SimplexVotesProofs`. The weight counted for a vote is that of the validators whose
ballot has it with a signature, below the threshold as long as the certificate is
needed; ballots hold signed votes only. `CertificatesAgree`: any two certificates of
a slot share an honest signer and so do not contradict each other, which is what the
CHECKs of `handle_typed_saved_certificate` require.

`SimplexPoolProofs`. A certificate changes one slot and what follows from it for the
first slot after it that is not skipped; lemmas about sets of certificates say which
slot that is and what the ends of the runs and the best bases become. That such a
slot exists would be induction over the slots; `RunsEnd` is part of the inductive
invariant instead, kept when a certificate is added or slots are dropped. The
invariant further has that a certificate is handled once, that slots from `first` to
`now` are decided (so the present slot has a base) and that `nonannounced` is beyond
all announcements. `DiskRemembered` and `SlotsNeverBack` are not checked by a run:
after `start_up` every certificate on disk is in its slot or below the finalized
ones, and in one life neither `first` nor `now` goes back.

`CandidateResolverProofs`. The two writes, the answer and the vote come in this
order, so whoever voted can serve after any crash; an asking task has awaiters.

`StateResolverProofs`. How far the work on a candidate has come says what the
manager has: in a shard a candidate whose parent is done has the blocks below it
accepted, in the masterchain it has a certificate for its block. `Refinement` maps
`finals` and `accepted` to `AcceptedChain`.

`BlockProducerProofs`. For each window: where its coroutine is, what is signed and
published up to its slot, what its next candidate builds on, and why a running
collation was due; together with which window the actor has (`Actor`).

`StandstillProofs`. A pool's first slot is a function of its last final
certificate, so while that is the one the task started with no slot it looks up has
gone.

Only model-checked: the liveness properties `SlotsSettle`, `AnnouncedWindowClosed`,
`NotarizedIsResolved`, `FinalIsAccepted`, `CertificatesSpread` and `QuorumSettles`,
since liveness under fairness is out of the prover's reach.

## Not modelled

- Clocks and durations, signatures of votes (a vote that arrives was signed; one whose
  signing fails is one that was lost), serialisation, block contents, statistics.
- `NoncriticalParamsUpdated`. `StopRequested` is a crash, or the end of the group;
  cancellation tokens only matter then.
- `PrecheckCandidateBroadcast`, bans after a bad signature, the replay of our own
  votes into the pool at start.
- The lifecycle of the `Bridge` and the overlays: the network loses, repeats and
  reorders.
- Composition: there is no single model of pool and consensus together; they are
  connected by the properties named above.
- The rest of the repository: transport (ADNL, RLDP2, DHT), the virtual machine,
  collator and validation of block contents, the manager, compilers and tools. They
  are sequential computation or input and output, without a finite-state model of
  useful size. By lines they are nearly all of the repository: the models cover
  about half a percent of it, most of `consensus/simplex/` and the actors beside it.

## Running

    tlc -config SimplexPool.cfg MCSimplexPool
    tlapm SimplexPoolProofs.tla

`PROJECT.json` has the module and configuration of each run. `SimplexConsensusProofs`
takes several minutes, `SimplexPoolProofs` and `BlockProducerProofs` a few, the
others less than one.
