# A TLA+ model of webstack

webstack is a Cosmos SDK chain with an EVM.  Its own logic is in three modules:
`x/network` (operators, activation keys, nodes, fee-less transactions under
daily quotas), `x/license` (license types and licenses, from which activation
limits are derived) and `x/permission` (who may do what in the other two).
This directory models them, checks the models with TLC and proves what matters
most with TLAPS.  Paths are relative to the repository.

Transactions are executed one after the other, so the hard behaviours are not
data races.  They are:

- state kept twice (records next to tallies, indexes and inverse maps) by
  handlers that change it step by step, and rebuilt by `InitGenesis`;
- limits that mix the past and the present (all-time, two-day and current
  counts against a license count that goes up and down, under parameters that
  governance changes);
- a fee-less transaction, which writes its counters in the ante handler and may
  then fail in the message handler;
- counters that nothing resets: they are rolled when next used;
- message handlers of one module that rely on state of another;
- a transaction of several messages, all of which are admitted before the first
  is handled;
- limits on a rate, which must let go again.

## 1. Inventory

| Component | State | Operations | Interacts with | What makes it correct |
|---|---|---|---|---|
| `x/network` fleet (`x/network/keeper`) | `Params`, `NodeTypes` and its inverse `NodeTypeByLicenseType`, `ActivationKeys` and `OperatorActivationKeys`, `Nodes` and `OperatorNodes`, `OperatorNodeCounts`, `RecentNodeActivity`, `Operators` | `CreateOperatorAccount`, `CreateNodeType`, `AuthorizeActivationKey`, `DeauthorizeActivationKey`, `ActivateNode`, `DeactivateNode`, `UpdateNodeStatus`, `UpdateParams` | reads license counts and types, reads grants, creates accounts, transfers the deauthorize fee | tallies and indexes are those of the records; addresses are single-use; an activation is within what the licenses entitle to; the churn of nodes and keys buys no extra allowance |
| activation limit | none: arithmetic on `uint64` | `ActivateNode` steps 2-6, `consumeActivateQuota`, `CountActiveLicenses` | the fleet and the ante handler call it | stopping the license walk early never changes an answer |
| gasless admission (`x/network/ante`, `keeper/admission.go`) | `NodeStatusCounters`, `GaslessCounters`; while a transaction is delivered, the branches of the store | `CheckAndConsumeGaslessQuota` for four messages, the caps decorator, the admission decorator | runs in the ante handler, for every message, before the first message handler | what it admits the handler accepts; the counters are daily quotas; nobody keeps the free channel without a license; an unlicensed operator can still wind its fleet down; batching messages gains nothing |
| `x/license` | `LicenseTypes`, `Licenses`, `LicensesByType`, `ActiveLicensesByHolder`, `NextLicenseID` | `CreateLicenseType`, `UpdateLicenseType`, `IssueLicenses`, `RevokeLicenses` | reads grants and ownership of the `license` namespace, creates accounts; read by `x/network` and by the scope validator of `x/permission` | caps on outstanding licenses; ids used once; counters and indexes are those of the records |
| `x/permission` | `Namespaces`, `Grants`, the registry of specs | `UpdateNamespaceOwner`, `TransferOwnership`, `GrantPermissions`, `RevokePermissions` | calls the scope validator of the consuming module | every grant satisfies its module's spec; a partly invalid message grants nothing |
| genesis export and import | all of the above | `InitGenesis`, `ExportGenesis`, `GenesisState.Validate` | order of modules in `app.go` | a reachable state exports to one that validates and rebuilds to itself |
| keeper wiring (`app/app.go`, `depinject.go`) | none of its own | construction of the keepers, `RegisterNamespace` | hands each module the others | what one module expects of the others they do |
| query servers | none | paginated reads, `NodeCounts` | reads the three modules | `NodeCounts` foretells the verdict on an activation |
| ante chain (`app/ante`) | none of its own | order of the decorators | SDK and EVM decorators, admission | admission is charged even if the handlers fail |
| license precompile (`x/license/precompile`) | none of its own | `createLicenseType`, `updateLicenseType`, `issueLicenses`, `revokeLicenses`, listings | contracts call it; it calls the license handlers with the caller as signer | what a call returns and logs is the whole change it made; a listing is what the outputs of the licenses say |
| start-up, mempool configuration, CLI (`app`, `cmd`) | SDK, IBC and EVM state | construction | | (not modelled) |

`PROJECT.json` has the same list with its status, and under `hazards` the lines
where each hard behaviour bites, with the properties that watch it.

## 2. Modules

```
ActivationLimit <---- Network <---- NetworkProperties <---- NetworkHistory
                       ^  ^ ^          ^  ^     |                  ^
                       |  | |          |  |     INSTANCE DailyQuota|
                       |  | |          |  MCNetwork <---- MCNetworkHistory
                       |  | |          NetworkLiveness <---- MCNetworkLiveness
                       |  | GaslessTx <---- GaslessTxFate <---- MCGaslessTx
                       |  |                      |
                       |  +------ INSTANCE ------+
                       +--------- INSTANCE ------ Webstack <---- MCWebstack
                                                    |  |
Permission <---- MCPermission                       |  EXTENDS License <---- LicensePrecompile <---- MCLicense
   ^   ^                                            |           |   |
   |   +---------------------- INSTANCE ------------+           |   INSTANCE LicenseLedger
   +-------------------------- INSTANCE ------------------------+

ActivationLimitProofs, NetworkProperties <---- NetworkProofs <---- NetworkRecordsProofs
                                                    ^                     ^
    GaslessTxFate <---- GaslessTxProofs ------------+                     |
                                    NetworkHistory <---- NetworkQuotaProofs
LicensePrecompile <---- LicenseProofs    Permission <---- PermissionProofs    Webstack <---- WebstackProofs
```

(`<----` is EXTENDS.  The MC modules also extend `MCNetwork` or each other for
the values of constants.)

**`ActivationLimit`** is `msg_server_activate_node.go` steps 2-6 and the ceiling
of `consumeActivateQuota`, with products modulo `WordSize` (2^64 in the
program) and `CountActiveLicenses` with its `stopAt`.  `DocumentedVerdict` is the
algorithm as `x/network/README.md` words it, over plain integers and the full
license count.

**`Network`** has one variable per collection of the network keeper, under the
collection's name, plus what the handlers touch elsewhere (accounts, balances,
the fee collector) and what the environment changes (licenses, license types,
grants, block time).  Each message handler is one operator under its Go name; a
refusal is a disabled action.  A transaction is a handler wrapped by the form
it travels in:

- `Paid...` runs the handler alone; it needs a signer with an account, and
  somebody that pays the fee (`Funded`): the first signer, or an address that
  signs along for nothing else (`DeductFeeDecorator` charges the fee payer only).
- `Gasless...` runs `Admit...` (the ante handler) and then, if `ok`, the
  handler.  With `ok = FALSE` the counters written by the ante handler stay and
  everything else is unchanged, which is what baseapp does when a handler fails;
  a handler can always fail by running out of gas.

Abstractions: addresses are model values (one address may play several roles),
payloads are dropped, a time is its UTC day except for a key's `created_at`, and
a transaction carries one message (`GaslessTx` lifts that).  What `x/license`,
`x/permission` and consensus do is an environment: license counts go up by
batches and down, license types appear, the grants change, block time moves on
(`Webstack` replaces the first two by the modules).

**`NetworkProperties`** states what is promised, over the records and not over
the tallies and indexes the handlers read.  **`NetworkHistory`** adds history
variables (day of activation, holdings per day, heartbeats accepted per day) for
promises about a stretch of time; no action reads them.  **`DailyQuota`** is the
abstract quota that the lazily rolled counters implement.

**`NetworkLiveness`** adds days without end and fairness.  `Network`'s clock stops
at `MaxTime`; here the frame of reference moves along (`FrameMoves`): the clock
reads a day less and everything recorded is a day older.  The code compares
recorded times with today, yesterday and the key window only, so a state before
and after such a move behave alike, provided `MaxTime` leaves room for these
(`FrameAssumption`).

**`GaslessTx`** delivers a transaction of up to `MaxMsgs` messages step by step:
the decorators before admission (`Begin`), one admission after the other
(`AdmitNext`), a refusal that drops the ante branch (`Refuse`), one handler after
the other (`HandleNext`), a failure that drops the message branch and keeps the
admissions (`Fail`).  The variables of `Network` are the store as the current
branch sees it, `saved` is the store below.  Nothing runs concurrently: baseapp
delivers one transaction at a time.  **`GaslessTxFate`** shows that this
implements `Network`.  A transaction that will be refused must map to no step at
all and one that will fail to a charge without effects, while the steps before
look the same: so a prophecy variable (`fate`) guesses the end, and a history
variable (`charged`) keeps the counters before each admission, so that each
charge can be shown together with its message's handler.

**`Webstack`** composes `Network`, `License` and `Permission` as `app.go` wires
them.  The licenses `Network` sees are what `CountActiveLicenses` returns for the
canonical string of an operator, its license types are those of `License`, its
grants the module-wide ones of the namespace `network`, and accounts are one set
that all three write.  Every message of the three modules is a step here,
`UpdateParams` included.  A holder may be spelled in several ways: `x/license`
accepts any bech32 string that decodes, `x/network` only the canonical one.

**`Permission`** is the four handlers and `validateGrantPair`, with the registry
(vocabulary, module-wide permissions, which modules have a scope validator) as
constants and the scopes that exist as a variable of the consumers.

**`License`** is the four handlers over an instance of `Permission`, in which the
existing scopes are the existing license types, as `RegisterNamespace` wires it.
A batch is modelled by its flattening: one `<<type, holder>>` per license, in the
order ids are assigned.  A holder string and the address it decodes to are kept
apart, as in the code (the index is keyed by the string, the account by the
address).  Dates are left out: nothing on chain reads them.
**`LicenseLedger`** is what `CountActiveLicenses` answers, seen as a table of
capped holdings.

**`LicensePrecompile`** is `License` as smart contracts see it.  Each transaction
of the precompile is the message handler of the same name with its arguments
converted (addresses to canonical strings, entries to a batch) and a receipt:
the ids returned and the logs emitted.  A receipt is a variable that no action
reads.  A call that fails is a disabled action, as the EVM undoes it with its
frame.

Operators introduced by a comment `Faulty:` are not part of any specification.
Each is a plausible bug in the definition that follows it; `PROJECT.json` pairs
every checked property with one that breaks it.

## 3. What the runs check

Properties are invariants and action properties, except for the two of the run
**liveness**.  Only that run assumes fairness; nothing else depends on the chain
making progress, on anybody submitting a transaction, or on governance acting.

### x/network

- **fleet** - `TalliesMatchNodes`, `RecentIndexExact`, `VerdictFaithful`,
  `PreCheckForetells`, `ActivateQuotaFaithful`, `ChurnBounded`, `RecordsArePermanent`,
  `ActivationEntitled`.  One operator, one key, four nodes and one node type,
  three days, up to two licenses that come and go, two valid parameter sets and
  one that `Params.Validate` refuses.  Multipliers 1 and 2 make two nodes the
  limit and four the spam ceiling at two licenses, so each branch of the
  handler's verdict is taken; in three days an activity entry ages out of the
  two-day window.  The verdict is compared for every operator and type in every
  state, whether or not an activation is attempted.  `PreCheckForetells`: a client
  that applies the documented algorithm to the answer of the `NodeCounts` query
  reaches the handler's verdict.  With two licenses the query counts both where
  the handler, over an empty fleet, stops at one.  `ChurnBounded` reads two
  history variables: the nodes an operator activates over two days never exceed
  the largest value that spam multiplier times holding had in these days.  The
  run identifies states that agree on everything but history that no property
  of the run reads (`FleetView`).
- **registry** - `VerdictFaithful`, `GenesisRoundTrip`, `ActivationEntitled`,
  `RecordsArePermanent`: two operators, two keys, two nodes, and two node types
  that come to be backed by two license types, from an empty registry, while the
  admin's grants and the licenses change.  Each operator may own a key and a node
  of either type at the same time.  A node has no account until the admin or its
  activation creates it.  The node type map and its inverse stay a permanent
  bijection, and what one type or operator does never moves another's verdict.
  An operator holds at most one license of a type here, so the handler's license
  walk never stops early: that is for **fleet**.
- **keys** - `TypeOK`, `KeyRateBounded`, `DeauthorizePaysFee`, `RecordsArePermanent`: two
  operators, four key addresses (one is an operator), a window of three time
  units slid over seven, two keys per window, a fee that each operator can pay
  once.  Three keys in two windows and a refused second fee both happen.
- **quota** - `QuotaPromise`, `FreeChannelLicensed`,
  `HeartbeatsWithinDailyLimit`: nobody can pay for gas.  The counters implement
  `DailyQuota` (refinement mapping: the day of the block time, and the count
  each counter stands for once rolled), heartbeats stay within the limit, and
  no counter was used on a day on which its operator never held a suitable
  license.  The license is checked on the first heartbeat of a day only, so a
  revocation ends the free channel with the day, not at once; the property says
  just that.  Two heartbeats a day and one midnight make a roll with and
  without a remainder.

- **transactions** - `AdmissionStands`, `AdmissionImpliesAcceptance`,
  `FleetCanSign`, `GenesisRoundTrip`, `ImplementsNetwork`: every list of up to
  two of five messages, gasless or paid, with an operator, a key and a node, while
  governance lowers the daily limit and the cap on messages under what has
  accrued.  Any address with an account signs a paid message, for one funded
  address can pay for all of them, so paid lists mix signers.  The run is one
  day (`MaxTime` is `DayLength`): the branches, not the clock, are its subject, and
  midnights are in **quota**.  The three invariants of `Network` are
  checked on every branch of the store, in the middle of a delivery and after a
  branch was dropped: an index or a tally that lived outside the branched store
  would break `GenesisRoundTrip` at the first failure.  Two gasless heartbeats a
  day are within quota and a third is not, so lists that are admitted in part
  occur, as do lists whose second handler is refused because of the first (a
  deactivation twice, a heartbeat of a node just deactivated).
  `ImplementsNetwork` is the refinement of `Network`: batching changes nothing
  that single-message transactions could not do.  (Where messages can be paid
  for, an effect that a failed list left behind might pass for that of a paid
  transaction; the theorem `BatchingImplementsNetwork` covers the chain without
  paid transactions too, where it could not.)
  Deadlock is not checked here: a delivery whose end was guessed wrong stops,
  which is what a prophecy is.
- **liveness** - `FleetWindsDown`, `RefusalsExpire`: a fleet that sends fee-less
  transactions only, one deactivation a day, two nodes.  Fairness is assumed of
  block time (weak: consensus keeps producing blocks and their time moves on)
  and, strongly, of an unlicensed operator's successful deactivation of some
  node it still runs.  Strong, because the action is not continuously enabled:
  the operator's own failed attempts burn the quota of a day.  What is assumed
  is persistence, not success: an operator that keeps sending does not fail for
  lack of gas forever.  No fairness is assumed of licenses, governance, keys or
  heartbeats.  `RefusalsExpire` needs the clock only: a key rate refusal and a
  churn refusal (the operator has fewer active nodes than its licenses allow and
  is refused all the same) do not last.

### The three modules together

- **webstack** - `NetworkOverLicenses`, `HoldersCanSign`, `ActivationBackedByRecords`:
  two operators, one of them spelled in two ways, two license types (both capped
  at two, both there at genesis) bound to two node types, one key and two nodes,
  over three days with their midnights.  Licenses are issued in batches of up to
  two, under any spelling, and revoked between any two activations; two are
  issued in all.  Governance (`UpdateParams`) raises multipliers 1 and 2 to 2 and 2,
  so one license backs two nodes, in churn first and then outright.
  `NetworkOverLicenses` is the refinement of `Network`: each step of `License` or
  `Permission` is a step `Network` allows its environment or changes nothing it
  can see, and so what is checked or proved of `Network` holds of the composition.
  `ActivationBackedByRecords` follows an activation down to the license records:
  licenses of the other type, of the other operator, under the other spelling,
  or revoked must back nothing, and as nodes are deactivated and days pass, the
  active and the recent nodes of an operator part.
  All transactions are paid for: `Webstack` takes the steps of `Network` as they
  are, and the fee-less ones differ only in counters that no other module sees.
  There is one key address, so in one behaviour one of the operators owns the
  nodes, and which of the two is open (cross-operator scoping is in **registry**).
  Only the grants of `network` are edited (`Edited`); the owner of `license` leaves
  its namespace alone (grants over license types change in **supply** and
  **permission**).  The constraint `EditsApart` keeps edits of `network`'s grants
  apart from the life of the fleet, which does not read them.

### x/license and x/permission

- **supply** - `TypeOK`, `SupplyRespected`, `LicensesReimportable`,
  `LicensesArePermanent`, `RevokesNewest`, `LedgerPromise`, `ReceiptsTellChange`,
  `HoldersListed`: an uncapped license type at genesis, and one capped at two
  that is created on chain and over which rights are granted afterwards; batches
  of two licenses, four ever issued, by messages and by contracts.  A type is
  created once, and its cap stays what it was then.  A call issues from one
  entry of two licenses, from two entries, or from the same entry twice, so a
  batch that names the capped type twice, and a cap refilled after a revocation,
  both occur.  `ReceiptsTellChange`: a contract that books what a call returned
  and logged has all of the change and nothing else.  Holders are spelled
  canonically here.  The constraint `GrantsFollow` lets the grants grow by the
  right to issue and then the right to revoke the new type and by nothing else.
  The view `Essence` identifies states that differ in the receipt of the last
  step, or in the flag `transferrable`, which no handler reads.  In **evm_listing**
  and **webstack** every license type exists at genesis.
- **permission** - `TypeOK`, `GrantsReimportable`, `ScopesStartWithoutRights`: two
  accounts, messages of two pairs drawn from valid and invalid ones, license
  types appearing.  No grant names a license type before it exists, so a type
  starts without rights whatever was attempted earlier.

### Bounds

The bounds are guards or constants with a name: `MaxTime`, `MaxLicenses`,
`MaxTouched`, `TxForms` (`Network`), `MaxMsgs` (`GaslessTx`), `MaxBatch`,
`MaxIssued` (`License`), `MaxPairs` (`Permission`), `Edited` (`Webstack`).  They
bound the environment and the inputs, never a variable a handler maintains.
Two runs bound the edits of grants by a `CONSTRAINT` (`GrantsFollow` in **supply**,
`EditsApart` in **webstack**).
Address sets are symmetric where the properties treat their members alike.
Deadlock is checked in every run except **transactions**.

### Disagreements with the documentation

Three runs end in a counterexample and show where the code does not do what the
documentation says.

- **paid_heartbeats** - `HeartbeatsWithinDailyLimit`.  `network.proto:138` and
  `x/network/README.md:449` make `status_daily_limit` the maximum number of
  heartbeats of a node per day.  The counter is advanced in the ante handler of
  fee-less transactions only; `UpdateNodeStatus` just re-reads it, so a node that
  pays for gas exceeds the limit.
- **network_scopes** - `NetworkGrantsModuleWide`.  `x/network/README.md:305-307`
  says every grant of its namespace carries the empty scope because the
  namespace has no scope validator; without a validator `validateGrantPair`
  accepts every scope instead.  Such a grant confers nothing.
- **evm_listing** - `HoldersListed`.  `LicenseI.sol:136` says the listing returns
  all licenses of a type held by an address.  A license issued by message to
  another spelling of the address (upper case is accepted) is indexed under that
  spelling: its output names the address as holder, the listing for the address
  leaves it out.

## 4. What is proved

The theorems hold for every value of the constants: any number of operators,
keys, nodes, types, days and licenses.  The assumptions are the `ASSUME`s of
the modules (a valid genesis, `DayLength > 0`, `NoScope` is no node type), and
for some theorems a hypothesis of their own, which the table names and the text
below it explains.

| Theorem | States | Argument |
|---|---|---|
| `NetworkProofs!TypeCorrect` | `TypeOK` | inductive as it stands, in three parts: what handlers write, the quota counters, the environment |
| `RecordsPermanent` | `RecordsArePermanent` | needs `DaysPast` (no node was last active after today), for "activity time never moves back" |
| `IndexExact` | `RecentIndexExact` | inductive with `TypeOK`: a touch removes the entry of `lastActiveDay`, which by the invariant is the only one |
| `TalliesExact` | `TalliesMatchNodes` | with `NodesFinite`: cardinalities only add up over finite sets; the saturating decrement never saturates because the deactivated node is counted in the tally |
| `ActivationVerdictExact` | `VerdictFaithful`, if the products never overflow | with `NodeIndexes` (tallies and index exact, days past) and `LicensesBounded`: on the records, the arguments of the verdict are the documented ones, and `BoundedVerdictFaithful` does the rest |
| `OnlyEntitledActivations` | `ActivationEntitled`, unconditionally | from the same invariant and `OverflowOnlyRefuses` |
| `PreCheckExact` | `PreCheckForetells`, under the same condition | the answer of the query and the handler's bounded walk both lead to the documented verdict |
| `ActivateQuotaExact` | `ActivateQuotaFaithful`, under the same condition | from `LicensesBounded` and `BoundedQuotaFaithful`: every attempt count the property names fits the word |
| `AdmittedIsAccepted` | `AdmissionImpliesAcceptance` | from `TypeOK`: the two copies of the signer rule and of the limit agree |
| `FleetHasAccounts` | `FleetCanSign` | inductive: accounts only grow |
| `NetworkRecordsProofs!AlwaysReimportable` | `GenesisRoundTrip` | `RecordsInv`: the key and node indexes are rebuilt from the records, the type map and its inverse are inverse, every node refers to a type and a key that exist; it is inductive with `TypeOK` only, and the tallies and the activity index come from `NodeIndexesHold` |
| `DisablingCosts` | `DeauthorizePaysFee` | per step, from `TypeOK`: the fee is within the balance it is taken from |
| `KeyRateLimited` | `KeyRateBounded`, while governance leaves the parameters alone | `RateInv`: no key was created after the present, and the keys of every window, not only of the present one, are within the limit; a new key enters windows in which the handler has just counted the others |
| `NetworkQuotaProofs!QuotasImplementAllowances` | `QuotaPromise` (refinement of `DailyQuota`), while governance leaves the parameters alone | `QuotaInv` (types, and counters never dated after today); a charge rolls and advances the counter of one subject, midnight empties them all |
| `GaslessHeartbeatsLimited` | `HeartbeatsWithinDailyLimit`, if there are no paid transactions and the parameters are left alone | `HeartbeatsCharged`: the heartbeats accepted of a node today are at most the count of its rolled counter |
| `FreeChannelUnderLicense` | `FreeChannelLicensed`, unconditionally | one invariant per counter (`AuthorizeLicensed`, `ActivateLicensed`, `StatusLicensed`): a counter in use for a day had a license on that day |
| `ChurnStaysBounded` | `ChurnBounded`, unconditionally | `BirthsKnown` (each node's day of activation is recorded) and `BirthsAllowed`: the last activation of the two days was under an allowance of that moment, and nodes activated before it only age out |
| `ActivationLimitProofs!BoundedVerdictFaithful`, `BoundedQuotaFaithful` | the early stop is decisive, for all naturals whose products fit the word | `StopIsDecisive`: once `stopAt` licenses are counted, every product exceeds every count it is compared with |
| `ActivationLimitProofs!OverflowOnlyRefuses` | an allowed activation is within the documented limits, for every `WordSize` | a wrapped product is never larger than the true one (`TimesAtMost`), and the verdict allows only what is below its products |
| `PermissionProofs!TypeCorrect`, `GrantsValid` | `TypeOK`, `GrantsReimportable` | a pair that was valid stays valid because scopes only grow (`ValidPairMonotone`); a namespace never loses its owner |
| `LicenseProofs!TypeCorrect` | `TypeOK`, from a genesis whose owners and grants name what the module registers (`GenesisNamespace`) | `NamespaceOK`: a message on permissions grants only what `validateGrantPair` lets through |
| `PermissionProofs!ScopesStartBare` | `ScopesStartWithoutRights` | from `GrantsValid`: a grant names a scope that exists |
| `LicenseProofs!AlwaysReimportable` | `LicensesReimportable` | inductive with `TypeInv` (types, and ids within the sequence); neither part stands alone: `active - count` is a natural only because the counter equals the licenses outstanding and the index lists them.  `OrderedCounts` counts a batch by a bijection between its ids and its positions |
| `SupplyAlwaysRespected` | `SupplyRespected` | `Caps` bounds the counter by the cap, and the counter is exact |
| `LicensesPermanent`, `HoldersHaveAccounts` | `LicensesArePermanent`, `HoldersCanSign` | a batch's ids are fresh; a revocation changes a status and nothing else |
| `LicensesImplementLedger` | `LedgerPromise` (refinement of `LicenseLedger`) | the total over the holders is the number of licenses outstanding (`TotalOutstanding`: the pairs of a holder and a number up to its holding are in bijection with them), which the cap bounds; a batch only adds to holdings, a revocation takes from one |
| `NewestRevokedFirst` | `RevokesNewest` | fewer than `count` of a holder's licenses are newer than one that is taken, at least `count` than one that is left |
| `CallsAreMessages` | `PrecompileSpec => Spec` | a call is the handler under the caller's name; so the theorems above hold with contracts around |
| `ReceiptsComplete` | `ReceiptsTellChange` | counts add up entry by entry (`UpToAdds`), so each license of a batch belongs to one entry (`EntryFound`) and the stretch of ids of each log is as long as the log says; any finite set of ids can be walked downwards (`DescendingWalk`), so a revocation returns each id once |
| `ListingComplete` | `HoldersListed`, if every holder is spelled canonically | from `AlwaysReimportable`'s invariant; without the hypothesis it fails, which is the run **evm_listing** |
| `WebstackProofs!ComposedImplementsNetwork` | `NetworkOverLicenses` (refinement of `Network`) | `IndexedIds` (the holder index lists ids that have been assigned) and `NetworkGrantsOK`: a batch of licenses raises the counts `Network` sees by what the batch holds for canonical strings, a revocation lowers one, a grant message changes the admin's grants or nothing |
| `HoldersAlwaysSign` | `HoldersCanSign` of the composition | accounts only grow, in steps of `Network` too |
| `LicensePromisesComposed` | `LicensesReimportable`, `SupplyRespected`, `LicensesArePermanent`, `RevokesNewest` of the composition | the composition is `LP!OpenSpec`: the other modules leave the records of `x/license` alone and only add accounts |
| `NetworkPromisesComposed`, `KeyRatesComposed` | `GenesisRoundTrip`, `FleetCanSign`, `AdmissionImpliesAcceptance`, `RecordsArePermanent`, `DeauthorizePaysFee`, `ActivationEntitled` of the composition, and `KeyRateBounded` while governance leaves the parameters alone | from `ComposedImplementsNetwork` and the theorems about `Network` |
| `ActivationBacked` | `ActivationBackedByRecords` | `ActivationEntitled` says it of what `Network` counts; `CountedAreRecords` (the index walk counts the active records of the holder) and `NodeSetsAgreeing` (no activity is dated after today, so today and yesterday are all that is recent) carry it to the records |
| `GaslessTxProofs!TxTypeCorrect` | `TxTypeOK`: the types of the store on every branch | the saved branch is typed like the current one |
| `AdmissionNotOvertaken` | `AdmissionStands`, for transactions of any length | `StandsInv`: what admission found for a message not yet handled stands; handlers change no operator of a node or key, no license and no parameter, and the counters of later admissions are at most as charged |
| `BranchesKeepPromises` | `GenesisRoundTrip` on the branch and on the store below it, `FleetCanSign`, `AdmissionImpliesAcceptance`, for transactions of any length | `BranchInv`: `RecordsInv` holds of both.  A step of the delivery is a step of `Network` on the branch, or drops it, and then the branch becomes the store below (`BranchSteps`, `SameAtBase`) |
| `BranchVerdictExact` | `VerdictFaithful` on every branch, if the products never overflow | from `BranchInv` |
| `BranchKeyRateLimited` | `KeyRateBounded` on every branch, while governance leaves the parameters alone | `RateInv` holds of the branch and of the store below |
| `BatchingImplementsNetwork` | `ImplementsNetwork` (`FateSpec` refines `Network`), for transactions of any length | `FateInv`: `charged` holds the counters before each admission, and from each to the next is a charge Network's admission could make (`ChargedFor`); what admission found beyond that the handler checks again (`StillStands`), so charge and handler can be one step of `Network`. While `fate` is "failed" the handlers' branch is not shown, so its steps are stutters |

What a proof about one module establishes is used for others in two ways:

- The lemmas about `Network` are about a `StoreStep`: one handler or none changes
  the collections, one admission or none the counters, and the environment moves
  only while keys and nodes stand still.  Every step of `Network` is one
  (`NextSplits`), and so is a step in the middle of the delivery of a transaction,
  which is none of `Network`.  Those about `License` are about an `OpenSpec`, in
  which owners, grants and accounts may change in the surroundings.
- A module of proofs is instantiated with other variables: `B` in
  `GaslessTxProofs` is what was proved of `Network`, said of the store below the
  current branch; `LP` and `NP` in `WebstackProofs` are the proofs about `License`
  and `Network`, said of the composition.  The assumptions of the modules must
  then be shown of what is substituted (`BelowSettings`, `LicenseSettings`,
  `NetworkSettings`).  For `Network` in the composition they follow from
  `NetworkGenesisAssumption`: the genesis of `x/network` is one `InitGenesis` accepts
  and the grants in its namespace are to its admins.

`NoOverflow` says that multiplier times licenses fits the word (`WordSize`, 2^64
in the program) for every parameter set in use.  It is a real condition: the two
limits are `uint64` products and `Params.Validate` sets no upper bound on the
multipliers, so past it the products wrap and an operator within its limit can
be refused.  It takes multipliers near 2^64, which only governance can set.

The theorems about a rate or a quota assume `ParamChoices = {}`, that is, that
no `UpdateParams` comes between.  The assumption is needed: governance may lower
a limit under what has accrued (run **transactions**), and the documents promise the
limit only for the parameters in force.  `GaslessHeartbeatsLimited` also needs
the absence of paid transactions, which is the disagreement **paid_heartbeats**.

Only model-checked are:

- `FleetWindsDown` and `RefusalsExpire`: liveness is out of the provers' reach.

## 5. What is not modelled, and what could follow

In order of importance:

1. The check state of the mempool.  Admission also runs at CheckTx, on a state
   that each commit throws away; when a transaction is re-checked and reaped is
   decided by CometBFT and the cosmos/evm mempool, whose code is not in the
   repository.  In a block each admission is decided anew, and that is modelled.
2. Genesis import as an action, with a restart between any two transactions.
   `GenesisRoundTrip`, `LicensesReimportable` and `GrantsReimportable` say that
   such a restart changes nothing, so the action would be a stutter.
3. The queries other than `NodeCounts` and the precompile's listing by holder and
   type: reads of one collection, with pagination.

4. A run with a word so small that products wrap.  In every run `WordSize` is out
   of their reach; what a wrapped product does is the subject of the theorems
   `OverflowOnlyRefuses` and `OnlyEntitledActivations`, which hold for every word
   size.

Not planned: ABI coding, query pagination, CLI and auto CLI, the construction of
SDK, IBC and EVM keepers, and the zero-height export of the SDK's own modules.

Most of the repository's Go is generated: `api/*/v1/*.pulsar.go` and
`x/*/types/*.pb.go` are protobuf coding of the messages and records above, some
nine lines in ten.  There is nothing to model in it beyond the shapes of
records, which the type invariants state, so the lines these modules map are a
small share of all lines, but most of those in the keepers, the ante handler and
the genesis helpers.
