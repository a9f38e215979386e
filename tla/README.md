# TLA+ models of FastMulThreshold-DSA

This directory holds TLA+ models of the threshold-signature node in `src/`.
For each part of the code there is:

- a module that models it;
- an MC module and `.cfg` files that model-check it with TLC on small instances;
- for the round engine, the acceptance records, the reshare request, the reshare listing and the safe-prime pool, TLAPS proofs in a `*Proofs` module; they hold for every value of the constants;
- for three of them, an abstract module written from the spec (`RoundBarrier`, `ReshareAtomic`, `KeyPairAtomic`), which the detailed module is shown to implement.

`PROJECT.json` lists the components, every run, the mutants that show each property can fail, and the source lines each definition translates (the map). It also lists the findings, the hazards and the theorems.

## The system and its parts

A node runs MPC sessions (keygen, signing, reshare) with its peers. Each session is a DNode that steps through rounds through the `smpc.Round` contract:

- `Start` resets the `ok` bitmap, does the local step and broadcasts;
- `CanAccept` checks a message;
- `Update` walks the round's message slice;
- `NextRound` moves to the next round.

The round files under `src/smpc-lib` implement this contract. Around the sessions, `src/smpc` keeps one acceptance record per request, in LevelDB tables:

- the pending record sits in `reqaddr_info`, `sign_info` or `reshare_info`;
- a record that is no longer pending is moved to `pubkey_data`.

The `Accept*` functions update these records. `reqreshare.go` drives a reshare request: `_reshare` calls `smpc_reshare`, which runs `ReShare_ec2` with retries and answers the RPC. `reqreshare.go` also lists the pending reshares (`GetCurNodeReShareInfo`). The Paillier scheme in `crypto/ec2/paillier.go` is used inside the rounds (MtA and range proofs). It draws its safe primes from the shared channel `SafePrimeCh`.

How the parts interact:

- Sessions share the key-value store: through the Accept functions, and through the listing that reads `reshare_info`.
- Sessions share the prime pool.
- A reshare request runs a DNode session per attempt and finishes by writing its acceptance record.

The modules follow these seams. Each module takes the parts it uses from its neighbours as fixed inputs. For example, the outcome of a reshare attempt is a parameter of `ReshareRetry`, and the keys of `Paillier` are the pairs of distinct primes that `SafePrimePool` hands out.

## Modules and their correspondence to the code

### RoundEngine: `smpc-lib/*/round_*.go`

`RoundEngine` models N parties running rounds 0 .. LastRound.

**Rounds modelled.**

- Round 0 appends presence messages to a slice (`kgRound0Messages`, `reshareRound0Messages`).
- Rounds 1 .. LastRound-1 keep one slot per party index (`signRound1Messages[curIndex]`).
- Round `VerifyRound` checks every decommitment of the previous round in `Start` (round6, `ed.Verify(CSB, DSB)`).
- Round `LastRound` writes the save data to `end` (round7).

**State.**

- `round`, `started` and `ok` are the fields of `base`.
- `list0` and `store` are the temp message slices.
- `status` is the session outcome.
- `net` and `sent` are the transport.

**Actions.**

- `StartSend`, `StartError`, `StartVerifyFail` and `StartTerminal` are the shapes of `Start`. `StartError` is a slot round's `Start` that sets `started`, resets `ok` and then returns a local error before it sends (round_1.go: `GetDNodeIDIndex`, the hash, the randomness, `Commit`, `Prove2`); the session aborts. Whether these errors happen is the constant `StartErrors`. Round 0 and the terminal round have no such error.
- `UpdateRound` is `Update` followed, when it returns true, by `NextRound`. The DNode calls the two together.
- `Deliver`/`StoreMsg` is the DNode's buffering of an inbound message. The DNode is not under `src`, so it is modelled from the spec and marked `spec_modelled`. Messages are addressed by (session, sender, round), so a round-0 sender is appended once.
- `Duplicate` and `Lose` are transport faults.
- `Timeout` is the `wait_msg` timer.

**Abstraction.** Cryptographic data is reduced to whether a message of the decommit round opens its commitment (`Good`/`Bad`). A party in `Faulty` has a decommitment that does not open its commitment, and it may equivocate: each peer receives either version (`Sendable`, one choice per recipient, the party's own slot included). Honest parties always send `Good`.

**What the Round contract promises: `RoundBarrier`.** This abstract module is written from the spec (section 4.3). It keeps only `round` and `status`. `Advance(p)` moves a running party one round on, and only when every party has reached its round. `Finish` happens only in round `LastRound`. `Abort` happens only in a round strictly between 0 and `LastRound`, the rounds whose `Start` can fail. `Expire` is the timer. An ended party takes no step. `RoundEngine` implements it through `Barrier == INSTANCE RoundBarrier WITH round <- round, status <- status`; the property is `BarrierRounds == Barrier!Spec`. A completing `UpdateRound` is `Advance`, `StartTerminal` is `Finish`, `StartVerifyFail` and `StartError` are `Abort` and `Timeout` is `Expire`. Every other step leaves both variables unchanged.

### AcceptStore: `smpc/accept.go`

`AcceptStore` models one request's record and the goroutines calling `AcceptX` on it.

**State.**

- `info` and `pub` are the two table entries.
- `pc` gives the point each call has reached in its sequence of table accesses.
- `arg` and `ac2` are the call's arguments and the merged record.

**Actions.** One action per table access:

- `CheckPub` is `GetPubKeyData` and the "has been processed" early return. This test differs between the kinds: `AcceptSign` also returns when `Rsv != ""`.
- `GetInfo` reads the info entry and merges (`x := ac.X; if x' != "" { x = x' }`).
- `DelInfo` is `DeleteXInfoData`.
- `PutPub` and `PutInfo` are the Puts.
- `PutFail` is a Put that returns an error.
- `Crash` is a process death between accesses.

The record keeps Status and the one result field (PubKey, Rsv or NewSk). The other fields merge the same way. Encoding and compression are taken not to fail.

Nothing locks the sequence of table accesses, so with `MaxInFlight` 2 the calls interleave between them. Several properties of the record hold only with one call in flight; the runs below say which.

### Paillier: `crypto/ec2/paillier.go`

`Paillier` computes the scheme with integers on small primes:

- `KeyOf` is the body of `GenerateKeyPair`/`CreatPair`.
- `Encrypt`, `Decrypt`, `HomoAdd`, `HomoMul`, `ZkFactProve` and `ZkFactVerify` are operators, line for line.
- `PowMod` is `big.Int.Exp`, by square and multiply.
- SHA3 is an injective function of the two commitments.

The state is a ciphertext built by a sequence of MtA steps (`EncryptMsg`, `AddMsg`, `MulScalar`), with the reference plaintext in Z_N beside it. It also holds the verdict of the last factorisation proof (`ProveFact`). The plaintexts offered are 0 .. N+1. `Encrypt` refuses only m > N, as the code does, so m = N is accepted; it encrypts G^N = 1 mod N², a ciphertext of 0, and the model's reference plaintext `m % N` is 0 too. DecryptCorrect therefore holds on it; only the spec's contract m < N tells the two apart, and no run checks that contract.

### SafePrimePool: `GenerateKeyPair` on `SafePrimeCh`

Callers run `Take1`, `Take2`, `Put1` and `Put2`: the two receives and the two sends of `GenerateKeyPair`. The channel has capacity `Cap`. The producer goroutine is not under `src`; `Produce` is modelled from the spec, which calls it a lazy producer that sends primes in order.

**What keygen promises: `KeyPairAtomic`.** This abstract module is written from the spec (section 4.1). It has a pool that only grows (`Generate`). It has one atomic `KeyGen` per caller, which returns a key built from two different primes of the pool. `SafePrimePool` implements it through `Atomic == INSTANCE KeyPairAtomic WITH made <- made, keys <- keys`; `AtomicKeygen == Atomic!Spec` is proved for every value of the constants (theorem `Refinement`) rather than checked by a run.

### ReShareInfoList: `GetCurNodeReShareInfo`

The actions follow the code:

- `IterNext` is the iterator, which starts one goroutine per record.
- `Goroutine` is the filter: not Deal, status Pending. It ends with the send on the data channel of capacity `Cap` (1000), which blocks while the channel is full.
- `IterEnd` is the end of the loop and the `wg.Wait`.
- `Collect` drains `len(data)` values and sorts them with `Less` (newest first; `sort.Sort` may leave equal stamps in any order).

### ReshareRetry: `_reshare`, `smpc_reshare`, `ReShare_ec2`

One request on one node:

- `FindWorker` looks up the worker.
- `Attempt` is one iteration of the `recalc_times` loop. Its outcome is `AttemptOutcome`: the early returns of `ReShare_ec2` in their order, then whether `processReshare` succeeds.
- `Collect` is the timed wait on `rch`.
- `Finish` is the success path: notify the group, run `AcceptReShare`, answer.

What the node's tables hold for the request is the fixed `Profile`. The readiness of the group and the success of `processReshare` are chosen per attempt. `processReshare` and the inbound-message goroutine are not under `src`.

**What the request promises its caller: `ReshareAtomic`.** This abstract module is written from the spec: reshare retries up to `recalc_times` times and reports a timeout when all attempts fail. It keeps the attempts, the answer and the two records:

- `Try` makes one more attempt, while nothing has been answered, no attempt has succeeded and fewer than `RecalcTimes` were made.
- `Succeed` follows a success. In one step it tells the group, writes the record and answers "success", or "error" when the write fails.
- `Refuse` answers an error before any attempt.
- `GiveUp` answers a timeout after `RecalcTimes` failed attempts.

`ReshareRetry` implements it through `Atomic == INSTANCE ReshareAtomic WITH ...`, mapping each variable to itself; the property is `AtomicReshare == Atomic!Spec`. `Attempt` is `Try`. `Finish` is `Succeed`. `Collect` with an error on `rch` is `Refuse`, and with an empty `rch` it is `GiveUp`. `FindWorker` and `Collect` with a result leave the abstract state unchanged.

## Runs

All runs use `CHECK_DEADLOCK FALSE`: every modelled activity ends, or (in `prime_refill`) the point is that it blocks. A session ends with a status, a call returns, a request is answered, and a run reaches a final state where nothing is enabled. The liveness properties state what must happen before that end.

| Run | Checks | Shows |
|---|---|---|
| round_faults | TypeOK, Lockstep, VerifiedBeforeOutput, EveryoneTerminates, ReachesVerifyRound, BarrierRounds | Two parties, one equivocating, whose slot-round Starts may fail, on a transport that loses and duplicates: no party is two rounds ahead, no output is written without verified decommitments, every session ends, without loss every party reaches the verifying round unless some party's Start failed before it (messages of a later round are buffered, not dropped), and round and status move only as `RoundBarrier` allows |
| accept_faults | TypeOK, NoPendingShadow, ResultKept | Calls one at a time, with a crash and failing Puts: a final record is never shadowed by a pending one, and no write loses a result stored in that table |
| paillier_homomorphic | TypeOK, DecryptCorrect, ProofComplete | Every chain of up to 3 MtA operations decrypts correctly, and honest proofs verify |
| prime_room | DistinctFactors | Three concurrent keygens, four primes, a channel of two refilled while keygens hold primes: each key uses two distinct primes |
| listing_fits | ListingExact, Returns | The listing is exact and sorted, whatever order the goroutines ran in |
| reshare_retry | TypeOK, AtMostOneReply, SuccessRecorded, TimeoutAfterRetries, Answered, AtomicReshare | Every profile and outcome sequence gets exactly one answer: a success only with a recorded result, a timeout only after all retries; the request implements `ReshareAtomic` |

The violation runs (`round_zero`, `accept_concurrent`, `accept_putfail`, `prime_refill`, `listing_full`, `reshare_storage`) each check one statement of the spec or of a code comment that the code does not keep. They are described under the findings in `PROJECT.json`:

- round-0 `Update` is complete before every sender has delivered;
- concurrent `AcceptX` calls overwrite a terminal record;
- `Delete` before a failing `Put` loses the record;
- a keygen whose put-back finds the channel refilled never returns, though the spec says keygen blocks only until two primes are available;
- more than `Cap` pending reshares deadlock the listing;
- storage errors are retried.

Further disagreements are recorded as hazards in `PROJECT.json` rather than as runs: with two Accept calls in flight, a stale `PutXInfoData` after another call's `PutPubKeyData` leaves a pending shadow beside the final record (TLC finds this sequence when `accept_faults` is run with `MaxInFlight` 2; it is the same unlocked read-merge-write as `accept_concurrent`), `Encrypt` accepts m = N (paillier.go:83), the pool hands the same safe primes to later key pairs (paillier.go:62), and every retry of a reshare runs under the same `msgprex` (reqreshare.go:332).

### Bounds

**RoundEngine** uses 2 parties and 5 rounds: round 0, two slot rounds, the verifying round and the terminal round. This gives every shape of round and the verify step. Party 2 is faulty, and because it may send `Good` to one party and `Bad` to the other, the run reaches all three outcomes (`done`, `aborted`, `timeout`); with `StartErrors` a Start of either slot round can also fail. `MaxDup` 2 duplicates messages of every round; loss makes the timer the only way out of a wait. The run has 201,621 distinct states.

**AcceptStore** uses 2 callers and 4 calls, enough for a pending update followed by two finalising calls. `MaxInFlight` 1 keeps the run that passes sequential: with overlap, the violation run shows the race, and `NoPendingShadow` and `ResultKept` fail too.

**Paillier** uses N = 7·11. Its plaintexts are 0..N+1 and its units are {2, 3}. The scalars {0, 2, 76} include 0 and N−1.

**SafePrimePool** has three callers and four primes over a channel of two, so the callers contend for primes and the producer refills the channel while a keygen holds two primes. `prime_room` checks distinctness under these interleavings; `prime_refill`, with the same constants, shows the put-back blocking forever.

**ReShareInfoList** has three records with two timestamps, so sorting has ties. Cap 3 fits all three records and Cap 2 does not.

**ReshareRetry** ranges over all 64 profiles with two attempts: a first failure and a retry.

## Fairness

The liveness properties rest on weak fairness of these actions:

- the DNode loop actions (`Start`, `Update`, delivery of a message that is in flight) and the `wait_msg` timer;
- each goroutine of the listing, the pool and its producer;
- the reshare request's goroutine.

Go's scheduler runs a goroutine that stays runnable, and a channel operation that stays ready completes. The timer of a session always fires. Losses and duplicates get no fairness: the transport may do neither.

## What is proved

### RoundEngineProofs

**`TypeCorrect`: `Spec => []TypeOK`.** It rests on `TypeInit` and `TypeStep`, with one step per action. Each step takes the action's primed equalities apart with Zenon, then types each variable with SMT.

The invariants below share a base, `IInv`:

- `TypeOK`;
- `NoSelfSend`: nobody sends to itself. `Bcast` excludes the sender.
- `NetSent`: the transport only holds sent messages.

The proofs use only these assumptions: `NAssumption` (N ≥ 1), `RoundAssumption` (1 < VerifyRound < LastRound), `MaxDupAssumption`, `LossyAssumption` and `StartErrorsAssumption`; they hold whether or not a slot round's `Start` may fail.

**`VerifiedDecommits`: `Spec => []VerifiedBeforeOutput`.** No party writes its save data before every peer's decommitment opened. `VerifiedBeforeOutput` is not inductive on its own. A delivery may overwrite a slot of the decommit round after the check. A faulty party may send `Bad` to one peer and `Good` to another. The proof uses `VInv`, which extends `IInv` with these conjuncts:

- `OneVersion`: a sender sends one version per recipient and round. A `Start` broadcasts once per round, so a duplicate is the same message.
- `SentBefore`: every sent message is from a round its sender has started.
- `StoredSent`: a peer's slot holds what that peer sent.
- `Verified`: a party at or past the verifying round, unless it aborted there, has decommitments that open.
- `DoneAtLast`: `done` only in the terminal round.

The step for `Deliver` is the heart of the argument. By `StoredSent` and `OneVersion`, a redelivered decommitment carries the value already stored, so a slot that was `Good` stays `Good`. `StartSend` keeps `OneVersion` because, by `SentBefore`, no earlier message of the party has the current round. TLC checked `VInv` on the `round_faults` configuration as it was before `StartError` was added (171,666 states); the proof covers that action too.

**`RoundsInLockstep`: `Spec => []Lockstep`.** No started party is more than one round ahead of another. `Lockstep` is not inductive alone: `UpdateRound` moves a party on without looking at its peers' counters. The proof uses `LInv`, which is `VInv` with one more conjunct:

- `OkPresent`: an `ok` flag of the party's current slot round is set only when the slot is stored.

When `UpdateRound` finds the round complete, every slot of the round is stored (`OkPresent`, or `Reached` for the slot just delivered). By `StoredSent` each stored slot was sent by its peer, and by `SentBefore` that peer had already started the round. So no peer is behind the advancing party. TLC checked `LInv` with N = 2. The N = 3 run of `LInv` did not finish within its time limit. That argument is the lemma `CompleteBarrier`: when `Update` completes p's round, every party has reached that round.

**`ImplementsBarrier`: `Spec => BarrierRounds`.** The session refines `RoundBarrier` under the same assumptions, and `LInv` is all it needs. `BarrierInit` maps the initial state. In `BarrierStep`, a completing `UpdateRound` is `Advance`, whose guard is `CompleteBarrier`. The terminal steps copy their guards into `Finish` (`round[p] = LastRound`), `Abort` (`StartVerifyFail` and `StartError` happen in `VerifyRound` or a slot round, all strictly between 0 and `LastRound`) and `Expire` (`status[p] = "running"`). Every other step leaves `round` and `status` unchanged. `Lockstep` only bounds the distance between counters. The refinement also says that a party moves one round at a time, that it leaves a round only once all have reached it, and where a session can end.

### AcceptStoreProofs

These proofs hold for every finite non-empty set of callers (`CallerAssumption`) and every bound.

**`TypeCorrect`: `Spec => []TypeOK`.** It holds with crashes and failing Puts. The merge is typed by `MergeType`.

The record properties (`NoPendingShadow`, `RecordAtRest`, `ResultKept`, `TerminalFinal`) are not proved: each fails once two calls overlap, and nothing in `accept.go` keeps calls of one request from overlapping. They stay with TLC's runs, which say on which instances they hold and where they fail.

### ReshareRetryProofs

These proofs hold for every `recalc_times` (`RecalcAssumption`).

- **`OneReply`**: `Spec => []AtMostOneReply`.
- **`Recorded`**: `Spec => []SuccessRecorded`.
- **`TimeoutOnlyAfterRetries`**: `Spec => []TimeoutAfterRetries`.

None of the three is inductive alone. The invariant `IInv` adds `Progress`, which records what the goroutine has done at each point:

- before `done`, nothing has been answered;
- in the loop, the counter `i` equals the number of failed attempts, below `recalc_times`, and `rch` is empty;
- at `collect`, an empty `rch` means every one of the `recalc_times` attempts failed, and a result on `rch` means one succeeded;
- at `finish`, an attempt has succeeded.

TLC checked `IInv` for `recalc_times` 0, 1, 2 and 3.

**`TypeCorrect`: `Spec => []TypeOK`.** It follows from the same `IInv`.

**`Refinement`: `Spec => AtomicReshare`.** The request implements `ReshareAtomic`. The invariant `RInv` is `IInv` plus `ErrorFirst`: an error value on `rch` is the one `FindWorker` puts there, before any attempt. `Refuse` needs it, because it answers an error only when no attempt was made. `Progress` gives the guards of the other abstract steps. In the loop, fewer than `recalc_times` attempts have been made and none succeeded (`Try`). At `finish`, one succeeded (`Succeed`). An empty `rch` at `collect` means all `recalc_times` attempts failed (`GiveUp`). TLC checked `RInv` for `recalc_times` 0, 1, 2 and 3.

### ReShareInfoListProofs

**`ListingIsExact`: `Spec => []ListingExact`.** It holds for every set of keys and every channel capacity (`KeyAssumption`, `CapAssumption`). The inductive invariant `IInv` has these conjuncts:

- `TypeOK`;
- `Phases`: the iterator and the goroutines never hold a key together, and `wg.Wait` follows the loop;
- `Channel`: the channel holds each finished goroutine's key once when its record passed the filter;
- `Returned`: after the sort, the slice is that set without repetition and newest first.

A goroutine appends only its own key, which no finished goroutine sent (`AppendNew`). The sort keeps each key's count (`SortedPerm`), and a count of one on both sides rules out repetition (`CountOne`, `CountTwo`). A slice without repetition has as many entries as distinct keys (`NoDupCard`). The capacity matters only for liveness: a full channel blocks a goroutine, and then `wg.Wait` never returns. `TypeCorrect` follows from the same invariant. TLC checked `IInv` with capacities 3, 2 and 1 (about 148,000 states each).

### SafePrimePoolProofs

**`DistinctPrimes`: `Spec => []DistinctFactors`.** It holds for every capacity, number of primes and set of callers (`PoolAssumption`). `GenerateKeyPair` never builds a modulus from one prime taken twice. The inductive invariant is a conservation law with these conjuncts:

- `PoolNoRep`: the channel holds no prime twice;
- `HeldApart`: a prime a caller holds is not in the channel;
- `HeldDisjoint`: no two callers hold the same prime;
- `Received`: what a caller received is a prime;
- `TwoPrimes`: a caller past its second receive holds two different primes.

Together they say each generated prime is in the channel once or is held by exactly one caller. The invariant also needs `Generated`: the channel and the callers hold only primes numbered 1..made. So the prime that `Produce` sends is fresh. `Take1` and `Take2` move the head of the channel into one caller (`TailSeq`). `Put1` and `Put2` send back primes that the sender alone held (`AppendSeq`). `TypeCorrect` follows from the same invariant. TLC checked it with Cap/MaxPrimes set to 4/4, 2/4, 1/5 and 3/6.

**`Refinement`: `Spec => AtomicKeygen`.** The pool and the keygens implement `KeyPairAtomic`, the spec's atomic keygen (section 4.1). `KeyPairAtomic` has one step that draws two different primes generated so far, and a pool that only grows. The invariant `RInv` adds two conjuncts to `IInv`:

- `Drawn`: the primes a caller has received are numbered 1..made.
- `KeyedDone`: a caller has a key exactly when it has finished.

`Produce` is `Generate`. `Put2` is `KeyGen` of the two primes the caller holds: they are different by `TwoPrimes` and drawn by `Drawn`, and the caller has no key yet by `KeyedDone`. `Take1`, `Take2` and `Put1` are stutters. TLC checked `RInv` on the same four configurations.

**Left to TLC.** The liveness properties (`EveryoneTerminates`, `ReachesVerifyRound`, `Returns`, `Answered`, and `KeygenCompletes`, which TLC shows failing) and everything that involves ENABLED are out of TLAPS's reach.

The Paillier properties (`TypeOK`, `DecryptCorrect`, `ProofComplete`) are out of reach too:

- They rest on `PowMod`, a function defined by recursion over the bits of the exponent.
- Unfolding that definition, or saying what it computes, needs the library's induction theorems, which take an operator parameter that the installed provers cannot instantiate.
- They also rest on modular arithmetic over exponents.

These are only model-checked.

## Not modelled

- **`cmd/gsmpc/main.go`**: CLI, configuration and P2P start-up; pure I/O.
- **`internal/common/list.go`**: a mutex around each `container/list` call. Its users are not under `src`.
- **Reply tallies** `GetRawReply` and the tally part of `CheckReply`, and the nonce helpers. They are read-only or their callers are outside `src`.
- **The elliptic-curve arithmetic inside the rounds.**
- **Paillier JSON marshalling.**

## Plan for later work

- Model the reply tallies (`GetRawReply`/`CheckReply`) as pure operators and check them against a reference count.
- Compose `ReshareRetry` with `AcceptStore`, so that the final `AcceptReShare` runs against the store model.
