# circular in TLA+

`circular` is a Core Lightning plugin that rebalances channels: it pays its own
node, out through one channel and back in through another. `circular` and
`circular-node` make one rebalance; `circular-pull` and `circular-push` fill or
drain a target channel with many rebalances at once ("splits"). This directory
holds TLA+ models of its logic, TLC instances of them, and proofs checked by
TLAPS. Every definition that models code names its lines in `PROJECT.json`
("map").

Contents: [the system](#the-system), [the modules](#the-modules),
[the runs](#the-runs), [the proofs](#the-proofs),
[what was found](#what-was-found), [what is left out](#what-is-left-out),
[the plan](#the-plan).

## The system

| part | state | operations | properties that make it correct |
|---|---|---|---|
| parallel run (`rebalance/parallel`: `parallel.go`, `candidates.go`, `result.go`, `pull.go`, `push.go`) | the deque of candidates, the splits in flight and the channel of their results, counters of amounts, splits and fees, the limit learned from the target, the reasons to stop | `FireCandidates`, `launch`, `waitForRound`, `judgeCandidate`, `targetBusy`, `targetSucceeded`, `noteStop`, `endRun` | moves at most the amount, pays at most the budget, one split per candidate, no candidate lost, ends, and says why it fell short |
| slow mode (`result.go`), economics (`economics.go`) | rounds, the price step, the idle rounds, the wait; what a split may pay at the fee ratio | `anotherRound`, `nextStep`, `countIdle`, `waitRetry`, `newRound`, `splitEconomics` | a probe stays small, prices follow what was paid, the budget holds over the rounds, gives up, ends |
| one rebalance (`rebalance`) | the attempt, the exclusions, the short route, the amount | `Run`, `runAttempt`, `shrink`, `learnFromFailure` | payments bounded by `attempts`, no failure repeated, stops when told, result the run can rely on |
| payment (`node/payment.go`, `node/invoice.go`) | the invoice, the HTLC, the keys in the database | `SendPay`, `manageTimeout`, `OnPaymentFailure`, `OnPaymentSuccess` | what is reported is what happened, then and later; no invoice is left |
| run registry (`parallel/runs.go`) | the list of runs | `startRun`, `endRun` | what ended last can be read |
| circular-stop (`node/control.go`) | `Node.Stopped` | stop, resume | nothing is sent once it is set |
| peer table (`node/peers.go`, `node/cron.go`) | peers, channels, connections, the index by channel | whole and single refresh, connect, disconnect | a late read undoes no newer one, the index follows, our channels stay in the graph |
| graph (`graph/graph.go`, `graph/channel.go`) | channels, adjacency, avoid list | refresh, prune, gossip updates | no older policy wins, the newest comes in force |
| beliefs (`graph/beliefs.go`, `graph.go`) | what each channel may hold | learn from payments, decay, reset | a bound is one the channel respects, as far as what was learned tells |
| route search (`graph/pathfinder.go`, `pq.go`, `route.go`) | labels, during a search | Dijkstra on channels, backwards | the route obeys its limits at the price it will have, and no better one is missed |
| gossip follower (`node/gossip.go`) | position in the gossip store | follow, reopen on compaction | no update skipped |
| learned state (`node/file.go`, `node.go`) | `learned.json`, its copies | load, apply, save | what was saved is never lost |
| candidate records, quotes, statistics | success rates, estimates, reports | ranking, listings | read-only |

How they interact. A run fires splits; each is a goroutine with its own
`Rebalance`, which reads the graph and the peer table under their locks, sends
payments through `Node.SendPay`, and ends by sending its result on the run's
channel. The run's own goroutine takes the results one at a time; in slow mode
it does so round after round. The operator flips `Node.Stopped`; the run sets
`halt`, which its splits read before each payment. lightningd calls the plugin
back when a payment ends, which touches only the database, and when a peer
connects, which touches the peer table. Timers refresh the peers, the graph and
the beliefs; the follower applies gossip; both refreshes end by writing to the
graph, and the graph's by saving what was learned.

What is hard: results and stops arrive in any order; counters are kept by hand
in one goroutine for work done in others; fees and amounts are known only when
a split returns; a payment that times out may still settle; what one
payment teaches of a channel is learned after others have crossed it; a stop is
read and acted on at different moments; a route is remembered and reused after what is
known of it has changed; what is known of a peer or a channel is read at one
time and applied at another, by several threads; a crash comes between two
file operations; labels are dropped in a search by rules that must lose
nothing. `PROJECT.json` ("hazards") lists these, each at its line, with the
properties that guard against it.

## The modules

| module | models | extends |
|---|---|---|
| `Tally` | sums over a finite set | |
| `SplitResult` | the results a split can return | |
| `TargetLimit` | the limit learned from the target, its growth, its probe, the busy refusals (`result.go`, `candidates.go`) | |
| `ParallelRun` | one round of a run: the queue, the splits, the counters, the stops, the end | `TargetLimit`, `SplitResult`, `Tally` |
| `RunContract` | what a run promises; `ParallelRun` implements it | `SplitResult`, `Tally` |
| `SlowMode` | the rounds of a slow run, and what the fee ratio does to them | `Tally` |
| `Split` | one rebalance: `Run`, `runAttempt`, `shrink`, `learnFromFailure` | `SplitResult` |
| `Payment` | one payment, lightningd, the notifications, the database | |
| `RunRegistry` | the list `circular-results` shows | |
| `PeerTable` | the peers, their refreshes and notifications, our channels in the graph | |
| `Channels` | other nodes' channels: policies and beliefs | |
| `LearnedStore` | `learned.json`: load, apply, save, file by file | `Channels` |
| `Gossip` | the gossip store and its follower | `Channels` |
| `Learning` | what overlapping payments do to the channels they cross, and teach of them (`failure.go`, `payment.go`) | `LearnedStore`, `Tally` |
| `NodeState` | all of these together, with refreshes, payments, time, crashes and stops | `Learning`, `Gossip` |
| `RouteSearch` | the search of a route, and the walks it is compared with | |
| `MC...` | small instances | |
| `CollectionProofs` | lemmas the proofs share: induction over numbers, sums over sets, sequences without repetitions | |
| `ParallelRunProofs`, `SlowModeProofs`, `SplitProofs`, `PaymentProofs`, `PeerTableProofs`, `NodeStateProofs`, `RouteSearchProofs` | proofs | the module's own model |

The levels meet through what each promises the one above. `RunContract` says
what a run may ask for and must keep; `ParallelRun` implements it, with
`promised <- asked`, `moved <- AmountRebalanced`, `paid <- feesPaid` and
`open <- ~StopFlag` (checked by TLC and proved). `ParallelRun` takes a split to
be the set of results in `SplitResult`; `Split` is checked to return nothing
else (`ResultAllowed`). `Split` takes a payment to be a success or a failure,
reported once; `Payment` shows that what `SendPay` reports is what happened,
except where lightningd left a call unanswered. `Split` takes the search to
return any route with nothing excluded; `RouteSearch` says which.

### ParallelRun

`pc` is the run's own goroutine: in `Call`'s first `FireCandidates` ("call"),
in a later one ("fire"), in `waitForRound`'s receive ("wait"), before `endRun`
("end"), or done. `queue` is the deque of candidates; `asked[c]` is what the
split of `c` in flight asked for (0: none); `running` are the splits whose
goroutine has not ended; `results` is `RebalanceResultChan`. The other
variables have the names of the code.

One turn of `FireCandidates`' loop is one step (`FireSplit`, `HeldBack`,
`OverBudget`, `NoneLeft`, `NothingToFire`): the loop reads `Node.Stopped` and
the length of the channel at each turn. Handling one result is one step:
meanwhile the other goroutines can only append results and flip
`Node.Stopped`, and the handling reads that flag once. A candidate that
`GetNextCandidate` passes over (its peer offline, its balance too low, not
worth its price) is `Skip`ped: which ones are is a choice, at each turn. The
timer fires once (`TimeUp`), and circular-stop and circular-resume at any time
(`Toggle`). `gone` and `refusedAlone` record why a candidate left the queue.

Each judgement of a failed split is an action of its own: a policy read again
(`StalePolicy`, which needs a retry and so happens in `stops` and `ranout`, whose
`MaxPayments` allows one), a failure of the candidate or of the routes
(`CandidateFailed`), a target that is busy (`BusyTarget`), that refused a split
with nothing else in flight (`RecheckTarget`, `RefusedAnother`, `LeaveOut`), or
that takes no more (`TargetEnds`).

### Split

`pc` is where `Run` is: at the start of `runAttempt` ("attempt"), in the search
("search"), with a route ("pay"), with a payment on its way ("flying"), done.
`way` says how the payment's route came: the route that worked before, a
search, or the short route sent less. A route is the sequence of its channels
between our two; the node that forwards over its first is the out-peer.

What the graph believes of a channel and what it charges are shared with the
other splits, the refreshes and time, so each use of them is a choice: a search
finds any route with nothing excluded, or none; a route at hand can be used or
not. What is kept is the split's own: the exclusions, the short route and the
channels it was short on, the failures per node. `learnFromFailure` is one
action per kind of outcome: `Succeeds`, `EndsTheSplit` (timeout, RPC error, our
own channels, the in-peer), `RunsShort`, `OutPeerDrained`, `Fails`,
`OutPeerFails`. It is assumed that lightningd names the channel of a channel's
failure (`erring_channel`), as it does for failures of hops of the route.
`shortAt`, `broken` and `lateSent` are ghosts that only the properties read.

### Payment

For each payment: `pc` is the split's goroutine in `payInvoice`, `SendPay` and
`manageTimeout`, one step per call of lightningd or of the database; `htlc`,
`invoice` and `outcome` are lightningd; `note` is the notification and its
handler; `db` the payment's keys. lightningd is external and modelled from what
the code relies on: an HTLC that arrives is settled only against an unpaid
invoice, an invoice is deleted only in the status named. A call to lightningd
may fail without an answer, done or not (`unanswered` records for which
payment), and the plugin may restart, which ends goroutines and handlers where
they are and leaves the rest.

### RunRegistry

Runs are numbered by the order of their start, which is the order of the list
and stays so; the list is the set of the runs in it.

### SlowMode

Inside a round, `ParallelRun` seen from further away: `inFlight` has, by slot,
what a split asked for and the most it may pay; `queue` is how many more splits
the round's candidates are good for; the target's limit and the stops of a
round (target, fail streak) are choices. What the rounds decide is in full:
`pc` goes from firing and waiting to "close" (`anotherRound`), to "retry"
(`waitRetry`) if the next round waits, to "start" (`newRound`), or to "end"
(`endRun`). `NextStep` is `nextStep`'s table: the price, whether the next round
is a probe, whether it waits. `CountIdle`, `StepCap`, `HeldLimit` and `AtTop`
are the functions of those names, with the limits the fee ratio gave the splits
(`Mosts`, `LimitOf`) noted as each is fired. `set` is the call's settings,
which do not change. `paidMost` is a ghost. Fees are rates times amounts, exact.

### PeerTable

`real` is what lightningd would answer; `changes` records when a peer's channel
changed. Every thread's call and its application are steps of their own:
`whole` is the one refresh of all peers, `single[r]` any number of goroutines
that read one peer, `notifications` are handled in any order. Each reading of
the clock and each event is a tick, so that times are ordered as `time.Now()`
orders them. `setPeers` and `setPeerChannels` decide by `peersReadAt`,
`channelsReadAt` and `connectedAt`; the addition to the graph comes once the
lock is released, and a graph refresh (`sync`) may come between: its list, the
ids it keeps (`localChannelIds`) and `SyncChannels` are three steps.

### NodeState

One direction of a channel is an id; its entry has the time of its policy
(`LastUpdate`), the belief (`Liquidity`, `Upper`) and when it was learned
(`Timestamp`). `Channels` has each function that changes entries as an
operator over them, `LearnedStore` each file operation of a save as a step,
`Gossip` the follower record by record next to lightningd, which appends a
record, completes it, marks the one before deleted and compacts. `NodeState`
puts them under the plugin's threads: the refresh (`refresh`: list, sync,
prune, apply, save), single reads, payments, the two liquidity jobs, `Close`,
a crash at any step, and the next start. `Compact` says that the store keeps the
records that were not deleted, in their order, by the positions they had. A
belief that fades may go any part of the way: an estimate to the default, a
bound to the capacity.

`Learning` has the payments. Splits pay at once, and each payment is several
steps, between which the steps of others may come: its HTLC reaches a channel,
which carries it if what it holds less the HTLCs on it allows and refuses it
otherwise (`SendPay`); the payment succeeds, which moves its amount, or fails
further on (`Settle`); its split learns, once waitsendpay has returned
(`Learns`), or waitsendpay times out first (`TimesOut`), which is a success if
the invoice is paid already and teaches nothing otherwise, while the channel
still carries the HTLC (`SettleAlone`). A stop ends the goroutines and not the
HTLCs (`SplitsStop`). A payment is followed at one channel of its route, since
each `Learn...` call is about one channel and takes `channelsLock` for itself.
`balance` is what the channel really holds and `Holds(id)` what a direction
does. `Told(id)` is what it would hold if the payments learned were those that
moved it: `Holds(id)`, corrected by payments that moved it and are not learned
yet, and by those learned as paid that have not moved it yet. With no such
payment, it is the balance.

The rest are histories for the properties: `saved` is what the last completed
save wrote; `missed` the ids that were not in the graph at some time since the
follower opened its file; `shared` the splits whose channel carried another
payment since theirs reached it; `behind` the ids that received something since
what is being saved ("data"), or what was saved ("saved"), was read off the
graph. `doubted` has the ids whose bound may be too low, and that `BoundHolds`
does not speak of. Each is so by what the code does, in one of these ways, and
TLC violates `BoundHolds` if any of them is taken out:

- A failure is learned, of a payment whose channel carried another as it reached
  it or since (`failure.go:126`, and 117 for the other direction). The bound may
  be stale, when the other moved liquidity in and was learned first; or wrong
  from the start, when the other's HTLC held the liquidity for a while and then
  failed. Of a channel that carried no other, the bound is right, whatever was
  learned of it between.
- A success is learned before another one the other way: if that one came first,
  it made room for this one, which `LearnPayment` stops at the capacity of a
  channel it believes full; learning the other then takes off too much.
- A success is not learned: it comes after a timeout or after a stop, or the
  stop comes before its split learns of it, or before it is saved.
- While what the start read is not applied yet, the graph drops a channel it had
  learned of, or a payment moves a channel whose other direction the graph
  lacks, and `applyLearned` then gives it the bound from before.

In all of them the code knows nothing that would tell it.

### RouteSearch

A label is a path to our channel in, with what it carries, its fee, its cost
and its delay. `labels` is the heap, `best` and `expanded` what dominates, and
`Pop`, `Drop`, `Complete`, `Expand` one turn of the search's loop. `NextSearch`
is what both of `GetCircularRoute` (length by length) and
`GetLikelyCircularRoute` (with uncertainty, then the other) search next. With a
riskppm the first search is the one that weighs uncertainty; without, `Init`
has no label yet and `NextSearch` starts the searches on fees, from two
hops, or none at all when `maxhops` is 1. The reference is independent of
labels: `Routes` are the walks of the graph priced forwards as the payment will
be (`recomputeFeeAndDelay`) that obey every limit. `MaxHops` bounds the
`maxhops` of the requests, so that the walks can be enumerated.

Labels are dropped for others with no more hops, fee and cost (`NoWorse`,
`Covers`), which is not all that the rest of their route depends on. `WellPriced` says under which
policies that is safe, in four parts the proof of `AnswerIsBest` needs one by
one; every graph and request of the `search` run satisfies it.

- `LengthTellsDelay`: labels are not compared on delay (`pathfinder.go:30`), so
  whether a route is within `MAX_ROUTE_DELAY` must follow from its length; as
  when all delays are equal, or no route of `maxhops` channels comes near the limit.
- `NoneTooSmall`: no channel's htlc minimum is above the amount delivered.
- `FeesLeaveRoom`: the saturation of additions is not reached, but by a fee that
  is the greatest amount itself. It matters only to inbound discounts.
- `ChargesGrow`, when uncertainty is weighed: what a node charges for a pair of
  channels does not fall as the amount grows. It holds wherever no inbound rate
  is a discount.

## The runs

| run | instance | shows |
|---|---|---|
| `limit` | push and pull alike, 3 candidates, 3 splits, amount 4, halving, fees up to 1000 ppm, budget 3 msat, every kind of failure | counters are sums, the budget and the amount are kept, the queue, the target's limit, the contract |
| `stops` | 2 candidates, 2 splits at once of 3, fail streak 2, time limit, budget 2 msat, circular-stop | every result finds room and is counted; each stop halts, is told to the splits, and is the reason given |
| `ends` | 2 candidates, 2 splits, a limit that grows twice, time limit, budget, circular-stop, with fairness | every run ends; a growth of the limit has its probe in flight |
| `slow` | amount 4, 2 splits of 2, budget 7; stepping with and without a fee ratio, in a pull and a push, with an odd step, and no stepping; with fairness | probes small, prices proven, budget kept, gives up, ends |
| `split` | 3 routes, 5 attempts, a known route, two halvings, 3 failures per node, circular-stop and halt | payments bounded, no failure repeated, allowed results, at most one late payment |
| `payment` | 2 payments, unanswered calls, a restart | what is reported is what happened; no invoice is left; no key is lost |
| `peers` | 1 peer, 1 whole and 2 single readers, clock to 4 | fresh as read, notifications hold, the index is the table's, our channels stay |
| `node` | 1 channel, both directions, capacity 3; 2 splits; seven mixes of events; with fairness | what was saved is not lost, bounds hold while payments overlap, gossip is applied, no policy goes back, policies catch up |
| `search` | 12 channels, 5,000 graphs, 6 searches on each | the answer is a route within its limits, and the best |
| `ranout`, `marker`, `results` | small | the three disagreements [below](#what-was-found) |

Bounds. Amounts of a few splits are enough: what matters is whether what is
left is a whole split, part of one or nothing, and whether two splits together
pass a limit that each is within. Three candidates with three splits reach
every mix of busy refusals, explained refusals and rechecks while another split
is in flight; two candidates with two splits suffice for the stops. There the
budget lets two splits be in flight and the third be refused, or not, by what
the first two cost. `MaxPayments` bounds the payments of a failing split (the
streak needs 0 and more); `WithStop`, `RpcMayFail`, `MayRestart` switch an
event off where a run does not need it; `MaxRuns` is two more than `RUNS_KEPT`,
which is 2 for 20. Two payments are enough for `payment`, since payments do not
touch each other: the proofs use just that. In `split` the out-peer and a
middle node each have two channels, so that one channel of a node can be
excluded without the other; five attempts allow three failures at one node with
the two halvings between. In every instance amounts are small numbers of sats,
and `maxppm` is such that fees are a few msat and the fee of half an amount is
less than half the fee or none.

In `slow` the steps are such that a price goes up twice before its cap, a fee
ratio gives limits below, between and above them, and a probe (3) is smaller
than the amount and larger than a split; rounds are not bounded. In `peers` four
ticks order a change, a notification and two readings in every way; peers are
independent but for the threads that read them, and the proofs are for any
number. In `node` each mix bounds how many events of a kind come from outside
(payments, ticks, changes of the store, reads, stops, failures), because all at
once are out of reach; refreshes, jobs, saves and the follower are not bounded.
Two payments overlap in every way, with a stop or with a tick between; with one
payment two ticks come, or two stops and a failure. Policies are followed apart,
as payments do not touch them: with two changes of the store and a tick and a
failure, or a single read and a stop; and with one change and two ticks. After
two ticks a channel that no list renewed is pruned and a belief is reset, both
one tick past their limit of 1; with one tick neither happens. `Holdings` is
what direction 0 holds at first: all of the capacity (3), so that one direction
can refuse 1 until a payment the other way moved it there, and payments leave
both in part full. Half the capacity is 1: a belief may be above it, below or at
it. A file of an earlier version is there at the start in the mixes with one
payment only; with two it would multiply the states by what the one payment's
mixes cover. One channel with its two directions is what beliefs relate. In
`search` rates are in tenths, so that rounding matters at an amount of 10, and
the graphs combine discounts, surcharges, fixed and proportional fees, channels
that are closed, doubtful, too small or priced off, parallel channels, a way
back and a channel of ours to a middle node.

Symmetry permutes the candidates (they start queued in every order), the
payments and the single readers, in runs without liveness. Deadlock is not
checked: a run, a split, a payment and a search end, and so do the events of
`peers` and `node`.

Fairness. `ends` and `slow` assume weak fairness of the run's own goroutine and
of its splits': Go schedules runnable goroutines, and `Run` returns: it makes
at most `attempts` payments and one more (`NoMorePayments`, proved), each ended
by waitsendpay's answer or its 120 s. Waits between rounds end (`RetryTimer`).
No fairness is assumed of the operator. A slow run always has a time limit;
`SlowRunEnds` takes strong fairness of its firing as a premise (`TimeLimit`),
since a deadline that passed stays ready until the run waits; `GivesUp` does
without it, given that from some round on no round moves anything and its price
is why. `node` assumes weak fairness of the refreshes (a cron job), the save,
the follower, single reads under way, the end of `Close`, and of lightningd
completing a record it began; none of events and failures, which are bounded.

## The proofs

All proofs hold for any constants that satisfy the named assumptions of the
modules: any finite set of candidates, any amounts, limits and number of
splits; any prices and settings; any routes; any payments; any peers and
readers; any channels, capacity and events; any graph and request.

`CollectionProofs`: `Induction` is the induction over numbers the others use,
for a set instead of a predicate, by way of a least number that is not in it.
The sums (`SumOver`) and the sequences without repetitions are for the run.

`ParallelRunProofs`: `SplitsInvariant` is inductive. To the properties it adds
`OneResultEach`, that each split in flight either runs or has exactly one
result in the channel, which asked for what the run recorded: without it the
counters, which are kept when splits are fired and when results are taken,
could not be related to what the goroutines do between. From it follow
`TypeCorrect`, `CountersAreSums`, `BudgetKept`, `TargetKept`, `OnePlaceEach`
and `SplitsReport`. The budget rests on `WorstFeeGrows` (a split that delivers
less costs no more) and on sums over the splits in flight; the queue on what
removing and adding an element does to a sequence without repetitions.

In the same module `OutcomeInvariant` adds `OutcomeInv` to `SplitsInv`, in
parts. `ReasonsInv`: a reason noted comes with its flag, no flag is taken back,
and only `endRun` says "held" or "ranout"; the reason given is otherwise not
inductive, since it is noted at one time and shown at another. The other parts
say where each candidate is and why it left, what holds once nothing can be
fired, and that the probe of a growth is the split it was given to. From it
follow `HaltedByStops`, `ReasonGiven`, `EndsWhenDone`, `CandidatesKept`,
`LimitKept`, `ProbeAlive` and `NothingAfterStop`. `ContractKept` is the
refinement: the initial state maps to the contract's, and each action to an
`Ask`, a `Settle`, a `Stop` or a stutter; the counters being sums is what makes
the guards of `Ask` follow from those of `FireCandidates`.

`SlowModeProofs`: `SlowInvariant` adds to the properties that nothing is in
flight between rounds, when the price changes, so that what is reserved is
always what is in flight at the round's price; that a split's limit is at most
that price, so that its fee is within its reserve; that a probe always has a
goal, and what a round paid at most is part of what the run did. From it follow
`GoalsKept`, `SlowBudgetKept` and `PricesProven`.

Why runs end, without fairness. `RunEnds`, `SlowRunEnds` and `GivesUp` are
liveness, but what could be wrong in the code is that candidates come back for
ever, and that is safety: each step takes the run down a lexicographic order
without infinite descents.

- `RunWindsDown`: in a parallel run, every step but circular-stop and
  circular-resume `Learns` or `Works`. `Learns` is what a run can do a bounded
  number of times whatever fails: move more, reach its time limit, use up a
  candidate's retry, read the target again, lower the limit. Only a result that
  does one of these puts its candidate back. `Works` is the rest: a candidate is
  out for good, or leaves the queue, or a split ends, or the goroutine goes on.
  That a busy target always lowers the limit is `WithinTargetLimit`, the splits
  in flight being at most the limit it has; the limit grows with successes only,
  and those move something.
- `WaitsForSplits`: a waiting run has a result to take or a split in flight, whose
  result there is room for. It follows from the counters being what the
  goroutines are (`SplitsInv`).
- `EveryRoundEnds`: the same for a round of slow mode, between two `NewRound`s.
- `FutileRoundsCount`: a round that moved nothing because of its price is followed
  by one at a higher price, which `PricesProven` bounds by `capppm`, or adds one
  to `idleRounds`, which `GiveUp` bounds. The hard case is a round below its top
  whose splits a fee ratio held below maxppm: there is none, since what they
  could pay is then the top (`RoundKnown`, inductive beside `SlowInv`).

`SplitProofs`: `SplitInvariant` says what the exclusions hold. `Learned`:
whatever failed is in them, and so is every node that failed too many payments.
`TakenBack`: the channels `shrink` takes out of them ran short and nothing
else. `OnItsWay`: the route about to be paid has nothing excluded but those,
each with less than it was short of. `Counted` relates payments to attempts,
`Late` the payments sent since a stop to where `Run` is. From it follow
`AttemptsBound`, `NodesSpared`, `NoFailureTwice` and `StopsAtOnce`.

`PaymentProofs`: `PaymentInvariant` relates, for each payment, the invoice, the
HTLC and what waitsendpay knows (`HtlcInvoice`), and says that what the
goroutine concluded from one of them is so of the others (`Concluded`,
`Returned`), and that the key is in the database until the goroutine replaces
it or a notification takes it (`KeyKept`). From it follow
`NeverPaidAfterFailure`, `PaidWhenSaidSo`, `InvoiceGone` and
`KeyThereUntilTimeout`.

`PeerTableProofs`: `IndexKept` needs types only. `OrderInvariant` says that no
time recorded is ahead of the clock, that a peer with a later single read or
notification is known, and that what a thread carries has every change from
before the time it will be applied under: the freshness of the table is that of
a reading which began long before. From it follow `TableIsFresh` and
`NotificationsHold`. `OwnChannelsKept` relates the table, the thread that still
has to add, and a graph refresh under way: an entry missing from what the
refresh keeps is newer than its list.

`SplitProofs`, second part: `ResultKept` is what `ParallelRun` takes from
`Split`. What a rebalance delivers is the amount halved some number of times, so
`ResultInv` carries that number (`Shrunk`), which each `shrink` raises by one
(`ShrunkAgain`), and the halves of `SplitResult` (`Halves`) are shown to be the
function their equation describes (`HalvesStep`), by a chain of finite ones that
agree. A failure is allowed because of where it is found: only one after a
payment may be told to try again now.

`NodeStateProofs`: every step that touches the graph is one of few kinds (it
leaves, moves or loosens every entry), shown once for each function of the graph
(`RefreshChannelsMoves`, `LearnMoves`, `DecayMoves`, ...). `TypeCorrect` and
`NeverOlder` follow from these alone.

- `SavedKept`: `SaveInv` follows a save file by file. Before learned.json is
  moved away, what replaces it is complete aside; graph.json is removed only
  with learned.json in place; and nobody saves before what the start read was
  applied. Without the last, a stop during the first refresh would overwrite
  the file with an empty graph's beliefs: that is the check in `Close`.
- `GossipInForce`: `FollowInv` says how far the follower can be in a file it has
  open, and that a record before its place is complete. What was applied stays
  because no policy goes back (`AppliedStays`), and a channel that leaves the
  graph is in `missed` until the file is opened again.
- `BoundsKept`: that a bound is one its channel respects, as far as the payments
  learned tell, for any number of payments at once. Three invariants carry it.
  `Afforded`: no channel carries more than it holds, without which payments that
  succeed could move more than there is. `AloneInv`: while no
  other payment is carried by the channel a payment is at, what that payment's
  failure will say is true of it: refused for a, it holds less than a; carried a
  and failed further on, it holds a; and nothing moves between. `BoundInv`
  carries the bound along the way it travels: from the graph to what is being
  saved, to the file, to what a start reads and to the graph again. Each of
  these is sound but for the ids that received since (`behind`), or its entry is
  older than what the graph has (`PendingSound`), which is what makes
  `applyLearned` leave it out. What the steps need of each other is `Told`: a
  success changes `Told` when it is learned, by as much as `LearnPayment`
  changes the beliefs (`SuccessTeaches`), not when it moves the balance; and
  whatever raises `Told` is newer than everything saved (`MovesAreNoted`). The
  sums over the payments at a channel change by one payment at a time
  (`SplitChanges`). The theorem says nothing of the ids in `doubted`.

`RouteSearchProofs`: `SearchInv` says that a label is a path to our channel in,
through no excluded node or channel, not through us nor back to the in-peer;
that its fee is what pricing that path as the payment will be gives (`Priced`),
each channel believed to carry its amount; its delay likewise (`Timed`). The
search prices backwards one hop at a time and the reference is a function over
the whole path: `Carries` and `Holds` state the equations of those functions,
which have one solution each (`CarriesOne`, `HoldsOne`), and putting a channel
before a path extends it (`ExtensionPriced`). What is dropped does not matter to
this. `AnswerKept` is `AnswerHolds`. `CheckRulesOutNothing` is about the check
before the search: what the hops of a path carry never shrinks towards our
channel out (`CarriesGrow`), so that every route within the rate pays the
in-peer at least `LeastForwardFee`.

`BestAnswer` is `AnswerIsBest`, given `WellPriced`: no answer means that there is
no route, the search on fees answers the fewest channels and then the least fee,
the one that weighs uncertainty the least of both. The inductive invariant is
`BestInv` (`NothingBetterLost`). Its part `NothingLost` (`Kept`) speaks of marks,
what is left of a label when its path is forgotten: every mark there was on a
channel is of a label still to be popped, or is settled, that is, completed
into a route no dearer, expanded by something no worse, or beyond what any route
may have; and what an expansion gave a channel is marked there, or something no
worse is. A label put before two marks, one no worse than the other, keeps them
in that order (`CoversAhead`, `NoWorseAhead`): that is where the four parts of
`WellPriced` are needed. From it `CheapestLeft`: take any route of the length
looked for and what a label over it would be marked (`RouteMarks`), and the
furthest channel from our channel in on which there was a mark no worse. Its
label led to the next channel, against the choice, or to a route, or is still in
the heap: while such a route is left, so is a label that costs no more. The
label popped first costs least, and so the first one completed is the best
(`AnswerBest`); when the heap is empty no route of that length is left, which
`NoneShorter` carries to the next length. The reference sums the charges and doubts of a route with
`PathCost`, `Sums` its equations.

Only model-checked, and why:

- `RunEnds`, `SlowRunEnds`, `GivesUp`, `PoliciesCatchUp`: liveness under
  fairness is out of the prover's reach. Of the first three the safety half is
  proved (`RunWindsDown`, `WaitsForSplits`, `EveryRoundEnds`,
  `FutileRoundsCount`).

`AnswerIsBest` is proved under `WellPriced` and not without. Where labels differ
in delay, as `pathfinder.go:30` says, where a channel's htlc minimum is above
the amount, and where charges fall (both under [What was
found](#what-was-found)), it is false. `FeesLeaveRoom` is used where the proof
has to add without saturating; whether it could be spared was not settled.

## What was found

- `ranout`: `endRun` reads `Node.Stopped` a second time to tell a run held back
  by circular-stop from one out of candidates. A circular-resume between the
  two reads makes it say the second with candidates still queued.
- `marker`: `manageTimeout` replaces the payment's key by a timeout marker in
  two writes; a notification between them finds neither and is ignored, and the
  marker stays until it expires.
- `results`: `endRun` of the registry trims finished runs by the order in which
  they started. A long run that ends after `RUNS_KEPT` runs started later is
  dropped as it ends, and `circular-results` never shows its result.

Met while modelling, without a run of their own:

- A channel marked unusable keeps its belief of 0 when a newer policy comes
  (`refreshChannels`, `ApplyChannelUpdate`), though `beliefs.go:90` and
  `README.md:69` say that ends it; the hard reset does.
- A bound may be below what its channel holds, though only our payments moved
  it: most easily when two splits' payments cross the channel and one's failure
  is learned after (`failure.go:126`), and in the other ways listed under
  [NodeState](#nodestate). It hides a direction from the search until it fades
  or is reset. No comment promises otherwise but in passing (`Upper`: "Liquidity
  is a bound from a failure"); `BoundHolds` excuses exactly these.
- In slow mode a circular-stop read by `anotherRound` alone ends the run
  without `heldByStop`, and `endRun` says it ran out of candidates.
- `GetCircularRoute` may miss the route its comment promises when a label is
  dropped for a cheaper one whose smaller amount is below the htlc minimum of a
  channel further on.
- With a riskppm the search may miss the route of least cost that
  `pathfinder.go:26` promises, when a node's charge falls as the amount grows: a
  label is dropped for one of no more cost, but the cost counts its fees, so that
  the other may carry less and the next node charge it more. On the network
  of `search`, with a base fee of 20 on `pa` and an inbound discount of half the
  amount over our channel out, TLC finds a dearer answer. `ChargesGrow` excludes
  it. The search on fees compares what labels carry, and does not need it.

## What is left out

Not modelled: quotes, the candidate records (the queue starts in any order),
the parsing of parameters and their defaults (the constants), the scores of
nodes, statistics and listings, progress lines, rates, worst nodes, the entry
point, `util`. They change nothing the modelled parts read but a rank, a
constant or a text. `AddActivePayment` is a report too. Panics in a split's
goroutine are a result with side "none".

Of the modelled parts: in `SlowMode`, `probefailstreak` (the fail streak is a
choice) and what a channel earns (any of `RatioPPM`); in `PeerTable`, peers
with several channels, and balances in the graph; in `Channels`, the adjacency
list, inbound fees and the avoid list; in `Gossip`, the bytes of records; in
`Learning`, other people's payments (with them no bound is safe), channels that
answer temporary_channel_failure for another reason than liquidity, and the
order of a route's channels among themselves: each is learned of for itself; in
`LearnedStore`, what is saved beside the beliefs. Beliefs of channels that the
first list after a start did not have are dropped with the next save: the code
does so, and `SavedIsNeverLost` speaks of files. `RouteSearch`'s instances give
every channel the same delay (the code documents that a label may hide one of
shorter delay), no htlc minimum, and inbound rates of no less than -100 %.
Counters never overflow at amounts of real channels, and saturating additions
are plain ones, but in `RouteSearch`, where they saturate.

## The plan

1. Done: `ParallelRun`, `SlowMode`, `Split`, `Payment`, `RunRegistry`,
   `PeerTable`, `NodeState` with `Learning`, `RouteSearch`; `RunContract` and its
   refinement;
   proofs of every safety invariant and action property the runs check,
   `AnswerIsBest` under `WellPriced`; the descents behind `RunEnds`,
   `SlowRunEnds` and `GivesUp`.
2. Next, proofs: the descent behind `PoliciesCatchUp`, that the follower comes
   nearer to the end of the file between two appends.
3. Then models: `probefailstreak` in `SlowMode`, the avoid list with its
   lifting by newer policies in `Channels`, htlc minimums in `RouteSearch` with
   the property weakened to what the code does.
