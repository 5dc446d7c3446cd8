# AfriPay, specified

TLA+ models of AfriPay, TLC configurations that check them on small instances,
and proofs of the central properties. Paths are relative to the repository; line
numbers refer to the commit these modules were written from.

## 1. The system

AfriPay lets a user hold a Stellar Testnet wallet in the browser, pay with it
through a NestJS backend, and lets merchants charge and pay mobile-money
accounts through MTN. Four Soroban contracts stand beside it.

    wallet (frontend) --HTTP--> payment intents --SQL--> payment_intents
      | localStorage               |  envelope, hash
      | (pending id)               +--> Stellar service --> Horizon --> ledger
      |
    merchant --HTTP--> MoMo service --SQL--> momo_transactions
                           |  ^ callbacks, timer
                           +--> MTN MoMo API

    escrow, multisig, gateway, vault: contracts called directly on Soroban

| Component | State | Operations | What is hard | What makes it correct |
|---|---|---|---|---|
| Payment intents (`backend/src/payments`) | `payment_intents` rows: idempotency key (unique), details, status, transaction hash (unique) | create, build transaction (reads), submit, status with reconciliation | several instances, one SQL statement at a time; a crash between claim, broadcast and settlement; results read long before they are written | one key pays once; the hash is bound before the broadcast; a result is the ledger's, once |
| Stellar service (`backend/src/stellar`) | none; the ledger | submit and verify, public relay | a broadcast that was accepted although the call failed | a timeout is never a failure |
| MoMo (`backend/src/momo`) | `momo_transactions` rows, unique by product and externalId | request to pay, transfer, status, callback, reconciliation timer | two requests for one reference, retries after timeouts, callbacks lost, doubled, late or for the other product, overlapping timer runs | one charge per reference; MTN's final status, once |
| Escrow contract | escrows by id; the token balance they share | create, fund, release, refund | the second of the expiry; several escrows drawing on one balance | nothing is paid twice; a funded escrow has exactly one exit |
| Multisig contract | signers, threshold, proposals of two kinds under one counter | initialize, propose, approve, execute | repeated signers or approvals, replays, failing transfers | quorum, reachability, each transfer paid once |
| Gateway contract | confirmer, intents | init, rotate confirmer, create, confirm | rotation against repeated confirmations | only the current confirmer confirms, once, and the record stands |
| Vault contract | rate, accounts | deposit, withdraw, accrue | i128 overflow, rounding, any rhythm of calls | principal is never lost; no second is credited twice |
| Payment screen (`SendFlow`, `usePendingPayment`) | React state and refs per screen; one pending id per address in localStorage | prepare, confirm, retry, check, finish, start over | answers lost or late, reloads, several screens on one localStorage | an unresolved payment is never forgotten and blocks the next |
| Wallet session (`WalletProvider`, `useNativeWallet`, onboarding) | encrypted key in localStorage; unlocked secret; setup and backup step; 15 minute timer | create, import, back up, unlock, lock, remove | what follows an await after a lock, a removal or a reload; two tabs on one slot | the secret leaves screen and memory on lock; a key in use is never lost |
| Account, overview and receive pages | balance, history, funding notice, QR code, payment link, per tab | load, refresh, navigate, fund, create link | two requests per load, answers in any order, a lock or another wallet in between | a page shows the open account, never an older reading |
| MoMo token cache (`momo-auth.service.ts`) | one token per product and process | get, request, use | concurrent fetches; a token that ages while it is awaited and used | a token in use is valid to the end of the call |
| Rate limit guard, USSD menu | two maps with a capacity, per process | admit, purge; answer, expire | capacity, windows that end between requests, a purge before a look | no map outgrows its room; a client gets its limit and no more |
| Payment links, exchange rates, guards, Soroban relays | small or none | see PROJECT.json | little | left out, for the reasons given in section 7 |

The database mode is modelled (`DATABASE_URL` set, required in production by
both stores, `payment-intent.store.ts:12`, `momo-transaction.store.ts:25`); the
in-memory fallback is for development.

## 2. Modules

| Module | Models | Composition |
|---|---|---|
| `Settlement` | the promise made about an intent: opened, bound to one transaction of its own, settled once as the ledger decided | abstract; implemented by `PaymentIntents`, used by `SendFlow` |
| `PaymentIntents` | PaymentIntentService, PaymentIntentStore, the submission and verification of StellarService, the public relay | `INSTANCE Settlement` with a refinement mapping |
| `MomoTransactions` | MomoService, MomoTransactionStore, MomoReconciliationService, the webhook routes | environment: MTN |
| `MomoTokens` | MomoAuthService's cache and the calls made with its tokens | environment: MTN, the clock |
| `Escrow` | the escrow contract | environment: token contracts, ledger time |
| `Multisig` | the multisig contract | environment: token contract |
| `Gateway` | the gateway contract | environment: ledger time |
| `Vault` | the vault contract | environment: ledger time |
| `SendFlow` | the wallet's payment screens and their localStorage | `INSTANCE Settlement` as the backend |
| `WalletSession` | useNativeWallet, the onboarding, backup and unlock forms, WalletProvider's setup, the slot in localStorage | environment: user, timer, reloads |
| `WalletPages` | WalletProvider's account, the overview and receive pages, the backend's account routes | extends `WalletSession`: every step of the session runs the pages' effects |
| `Admission` | RateLimitGuard and the USSD menu behind it | environment: callers, the clock |
| `PaymentIntentsProofs`, `MomoTransactionsProofs`, `SendFlowProofs`, `EscrowProofs`, `VaultProofs` | theorems about the module they are named after | extend it and `TLAPS` |
| `WalletPagesProofs` | theorems about `WalletSession` alone and under `WalletPages` | extends `WalletPages` |
| `ContractsProofs` | theorems about `Multisig` and `Gateway`, and about the four contracts side by side | extends `MCContracts`, instantiates `EscrowProofs` and `VaultProofs` |
| `InstanceProofs` | theorems about `MomoTokens`, and about the process that `Admission` and the cache live in | extends `MCInstance` |
| `MCPaymentIntents`, `MCMomoTransactions`, `MCSendFlow`, `MCWalletSession`, `MCWalletPages` | the values and the symmetry of TLC's instances | extend the module they check |
| `MCContracts`, `MCInstance`, `MCLiveness` | small instances of parts that share no state: the four contracts; the token cache and the maps of one process; wallet payments and MoMo under their fairness | each part is explored beside the others' first states |

### How code becomes actions

Backend handlers. A handler is a record `[pc, id, tx, res]` that holds what the
JavaScript function holds across its awaits. One action runs from one await to
the next and contains exactly one effect: an SQL statement or a network call.
`submit` is `SubmitFind` (SELECT, parse), `Claim` (UPDATE .. WHERE hash IS NULL
OR = hash, and the early return when the row is settled), `Broadcast`,
`VerifyAnswered` or `VerifyUnanswered`, `Settle` (UPDATE .. WHERE status =
'PENDING'). `reconcile` starts at the verification. `Create` is one statement,
hence one action. `Abandon` is a crash, a 503 of the store or a lost client at
any await. Rejections that change nothing (400, 404, 409 on create) are the
actions' guards.

Horizon and the ledger. `sent` holds every broadcast; a transaction may be
included at any later time (the handler may be long gone), or expire. Any
verification may go unanswered. `Relay` is `POST stellar/submit`, or a client
that talks to Horizon itself.

MoMo. Actors are HTTP requests and reconciliation runs. An order is
`OrderFind`, `Reserve`, `Post`; a refresh is `PollFind` or `RunPick`, `Fetch`,
`UpsertFind`, `Persist`; a callback is `CallbackFind` and the last two.
`CallbackFind` takes the record by externalId and the product of the one URL
that `MTN_MOMO_CALLBACK_URL` names (constant `Route`), because `callMomo` sends
that URL with both products. `Fail` is an error at an await; `AfterError` says what
follows it (a run goes on with the next reference, a request answers). `Crash` ends
either.

Contracts. A call is one action: Soroban calls are atomic, a panic in the token
contract reverts the call. `require_auth` is implicit: the action is a call
signed by the address the code asks.

Payment screen. `tab[w]` holds `review`, `pendingPayment.current`, the call that
`sending` guards, and the status check in flight with the `review` its closure
captured. `posted` holds submit calls that left the browser; the backend may
bind and settle them whenever `Settlement` allows. A reload forgets the screen
only. A screen that was left by navigating inside the application still runs
what follows its awaits, so it is a further element of `Tabs`. `Confirm` is enabled
whenever its button is, a status check out or not, and on the first press
`localStorage.setItem` may throw. Two history variables record the payments the
code then loses sight of: `unstored`, signed while the write threw, and `hurried`,
signed while a check of an earlier payment was still out. No guard reads them.

Wallet session. `tab[w]` is the React state of a tab (`encrypted`, `secret`, the
two fields of `setup`) and what it awaits: `saving`, the encryption `create` or
`importWallet` started, and `opening`, the decryptions started from an unlock
form, which may be gone when they end. `Screen` is `WalletGate` and says which
form's buttons exist. A key stands for its secret and its ciphertext. An
encryption is awaited by a form that stays mounted until it ends or the page is
reloaded. The checkbox of the removal dialog is taken to be ticked truthfully.
`Remove` is possible while a password is checked, as on the unlock form; the history
field `late` records the keys whose decryption was out at a removal.

Vault. A checked operation yields the set of its results, empty on overflow, and
the call that meets it fails; `MaxInt` stands for `i128::MAX` and `Denominator`
for the product of basis points and seconds of a year.

Gateway. A call names the address that signed it. The field `confirmed_by` of an
intent is history: it records who signed the call that confirmed it, and no guard
reads it.

Pages. An effect of React is part of the action that changes what it depends on:
`Session(w)` is a step of `WalletSession` with what the account effect and the
receive page do after it. A request that is out is an element of `calls[w]`; one
whose `active` flag was cleared is removed there and then, since its answer will
be ignored. `Serve` is the moment the backend asks Horizon, the loading and
failing actions the moment the answer arrives. A reading is the account it is of
and the time it was taken.

Token cache. A caller is idle, awaits a token or uses one. `Issue` is the moment
MTN makes the token and `Answered` the moment `getToken` stores it; `Tick` never
passes the deadline of a fetch, which is what `AbortSignal.timeout` guarantees.
Callers do not join a fetch that is out, as the code does not.

Rate limit and USSD. Neither awaits anything, so a request is one action. The
guard's purge, which runs first, is the operator `Live`; the menu's is `Kept`. A
count above the limit is held at `Limit + 1`, which nothing can tell from more.

Operators marked `fault:` are single plausible mistakes in the definition below
them. They are used to confirm that each property can fail, and by nothing else.

## 3. What is checked

| Run | Bounds | Shows |
|---|---|---|
| `payment_intents` | 2 intents, 2 keys, 2 payments, 3 envelopes (two of one payment), 2 handlers; 655,320 states | safety below, `IInv` (which contains `TypeOK`), refinement of `Settlement` |
| `liveness` | payments: 1 intent, 2 envelopes, 2 handlers; MoMo: 1 collection, 1 disbursement, 1 request, 1 run; 28,205 states | `PollIsAnswered`, `PendingResolves` |
| `momo` | 2 references; orders c1, c2 (same collection reference, two payers) and d1 (disbursement, same externalId, other amount); 2 requests, 2 runs; 1.1 million states | safety below |
| `momo_shared_reference` | as `momo`, the disbursement for the same amount | **violated**: `TruthfulStatus` |
| `contracts` | escrow: 2 escrows, 2 users, 2 assets, amounts 1..2, expiries within 3 instants; multisig: 3 accounts, lists of up to 3 with repetition, 2 proposals of either kind, 2 tokens; vault: 1 account, 3 rates, deposits of 1..5 up to 12 in all, 3 ticks, MaxInt 20, Denominator 4; gateway: 2 addresses, 2 intents, 3 instants; 877,501 states | safety below |
| `sendflow` | 1 screen, 3 payments; 108,504 states | safety below, `BlockEnds` |
| `sendflow_two_tabs` | 2 screens | **violated**: `PendingRemembered` |
| `wallet_pages` | 1 tab, 2 keys, one of them brought along, 2 instants; 563,343 states | safety of the session and of the pages |
| `wallet_removed_late` | 1 tab, 2 keys | **violated**: `OneWallet` |
| `wallet_backup_step` | 1 tab, 4 keys | **violated**: `BackupStepKept` |
| `funding_offer` | 1 tab, 3 keys, 2 instants | **violated**: `BlockedIsFundable` |
| `instance` | tokens: 2 callers, 2 products, tokens of 5 ticks with a buffer of 2 and fetches of 1, 6 ticks; maps: 2 clients and 2 sessions with room for one, limit and window 2; 135,516 states | safety below |

Payment intents:
- `OnePaymentPerKey`: everything ever broadcast for one idempotency key is one
  envelope of one intent.
- `ClaimedBeforeBroadcast`: what submit handed to Horizon is still bound to its
  row and makes exactly its payment.
- `NoSharedSettlement`: one ledger payment settles one intent.
- `TruthfulStatus`: SUCCEEDED and FAILED are the ledger's verdict on the bound
  transaction.
- `SettledForever` (action property): no step rebinds a row, changes its
  payment or moves a settled one, however stale the handler.
- `ImplementsSettlement`: the table implements `Settlement`.
- `PollIsAnswered`: an included transaction is eventually reported.

MoMo: `OneChargePerReference`, `ReservedBeforePost`, `TruthfulStatus`,
`FinalForever`, `PendingResolves`.
Contracts: `EscrowsAccounted` (Escrow's `FundsAccounted`: its balance is the open
escrows' money and what strangers sent), `ExactlyOneExit`, `PaidOutAsAgreed`;
`ExecutedByQuorum`, `QuorumReachable`, `FundsAccounted` (what left the multisig was
sent by executed transfers, once each), `AgreementsKept`; `PrincipalKept`, `YieldBounded` (no more interest than the rate
compounded at every instant); `ConfirmationKept` (a confirmation is signed by the
address in office when it is given, and stands).
Payment screen: `PendingRemembered` and `OneOutstanding`, of all payments but the
`unstored` and the `hurried`; `EnvelopeKept` (a retry sends the same envelope, also
of an `unstored` payment and while a check of it is out); `BlockEnds` (a payment the
ledger decided does not block the wallet for ever).
Wallet session: `KeyRecoverable` (a key that was stored is stored still, or
copied out), `SetupHasReason` (nobody is left at onboarding beside an existing
wallet), `LockedShowsNothing`, `SecretOfWallet` (the key in memory is the wallet's,
or one that was removed while its password was checked).
Pages: `OwnPages` (balance, history, code and link belong to the open account),
`NeverGoesBack` (no reading is replaced by an older one of the same account).
One process: `TokenOutlivesCall`; `LimitKept` (no interval of one window gets more
than two windows' worth of requests through, and only a client that got its limit
is refused for it); `InstanceTypeOK` with the capacity of both maps.

`contracts`, `instance` and `liveness` explore several specifications in one state graph: a
variable `at` names the one that moves and the others keep their first state.
They share nothing, so this is each one's own graph, and their properties are
checked in all of them.

Why the bounds suffice. Each interleaving hazard in PROJECT.json needs two
actors and two rows, or one row and two candidates: two handlers on two intents
that one envelope fits; two envelopes for one intent; two orders for one
reference; two timer runs holding the same snapshot; two escrows on one
balance. Third elements (the third envelope, the third account, the third
payment) let a wrong second choice be followed by a right one. Amounts of 1 and
2, with 0 offered, separate "covers" from "equals" and reach the rejected
boundary; three instants put a call before, at and after an expiry. In the vault the
highest rate overflows after three ticks and the lowest rounds to nothing; one
account is enough because accounts share only the rate. In `instance` room for
one of two clients and sessions makes each map full and free again, the buffer is
exactly two fetches, as `MomoTokensAssumption` allows at least, and six ticks see a
token expire and its successor fetched. In `wallet_pages` two instants tell an older
reading from a newer one and two keys, one generated and one imported, let a wallet
follow another and a decryption of the first end beside the second. `contracts`,
`instance` and `liveness` do not check for deadlock: with all ids used, all money
spent, every record final or the last tick reached no step is left, which is the end
the bounds impose.

Fairness. `PaymentIntents!Fairness`: nothing in the server polls an intent
(`payment-intent.controller.ts:30` is the only caller of `reconcile`), so
`PollIsAnswered` holds only while clients keep asking; strong fairness is
assumed of a request finding the row, of Horizon's answer reaching a handler of
that intent, and of such a handler reaching its UPDATE: a client that keeps
polling, a Horizon that answers now and then, a server not killed each time at
the same place. `MomoTransactions!Fairness` is the timer
(`momo-reconciliation.service.ts:14`): runs keep starting, and the process stays up
in the end, so that only its own steps end a run. Of a reference MTN has decided,
asking MTN, reading the row and writing it do not fail every time they are tried.
Nothing is assumed of whether a run gets to a reference, which is what the loop of
`reconcilePending` must see to, nor of the other references, which may fail at every
refresh, nor of callbacks, requests, MTN's decision, or inclusion by the ledger.
`SendFlow!Fairness`: a
call ends, with an answer or an error; the user presses Check now and then
between retries and reloads, and not every check fails; a user whose check failed,
and who is shown the error in place of the Check button
(`PendingPaymentNotice.tsx:14`), leaves or reloads the page in the end; the
backend settles what is asked for, which is `PollIsAnswered`. A payment that never reached the ledger
may block the wallet for ever, as the repository's README.md:67 says.

## 4. What the violated runs say

`momo_shared_reference`: c1 is a collection and d3 a disbursement, same
externalId, same amount. Both reach MTN. MTN decides d3 and calls back, at the
one configured URL, that of the collection webhook. `applyCallback` finds c1,
`validateResource` compares externalId, currency and amount, and c1 becomes
SUCCESSFUL while MTN has it pending. `UnambiguousOrders` in the module states
the habit of merchants that avoids this; the `momo` run satisfies it.

`sendflow_two_tabs`: two screens pass `prepare` while nothing is pending; the
first confirms i1 and stores its id, the second confirms i2 and stores over it.
i1 is unresolved and forgotten. Likewise a screen that finishes removes the key
whatever it holds, so one that was left by navigation, with its call still out,
can erase the id of the payment made since.

On one screen the code loses sight of a payment in two cases, which the properties of
the `sendflow` run except by name. One: `localStorage.setItem` throws. Then
`pendingPayment.current` is set already (`SendFlow.tsx:88-90`), the next press takes
the payment for recorded and submits it (`unstored`). Two: a payment is signed while
the status check of the one before is out. Retry and Confirm stay enabled then
(`SendFlow.tsx:175-177`), `fetch` has no timeout (`lib/api.ts`), and the check's final
answer removes whatever id is stored and finishes whatever is under review
(`hurried`). A reload in either case lets the wallet prepare another payment while
the first may still settle.

`wallet_removed_late`: a wallet's password is being checked; the unlock form, whose
submit button alone is disabled, removes the wallet; the decryption ends, and `unlock`
sets the removed wallet's secret and address (`useNativeWallet.ts:35-36`). The key is
in memory beside no wallet or beside one imported since. `SecretOfWallet`, which the
passing run checks, says that no other key than such a one gets there, and the pages
then show that key's own account (`OwnPages`).

`wallet_backup_step`: a wallet is created and its secret is on screen; before the
user has copied it and ticked the box, fifteen idle minutes lock the wallet.
WalletProvider's effect then drops the secret, as its comment at line 45 wants,
and the setup with it, against the comment at line 29. The wallet opens with its
password afterwards and the secret is never offered again.

`KeyRecoverable` is checked, and proved, of one tab. Of two it is false: two tabs at
onboarding overwrite each other's wallet, for the slot is read at mount only. No
document of the repository speaks of two tabs, so no run shows it.

`funding_offer`: the account of a new wallet does not exist, the load answers 404
(`stellar.service.ts:57`), WalletProvider sets `activated` to false and `error`
together (line 58), and the overview offers Friendbot only when `activated` is
false and there is no error (`page.tsx:50`). The offer shows only while a further
load has cleared the error and has not answered, and goes with the answer;
`SendFlow.tsx:60` sends the same user to it, and README.md:65 lists it as a step.

Seen on the way, and not among the runs. In the notice of a pending payment an error replaces the Check button
(`PendingPaymentNotice.tsx:14`), so that only leaving the page brings it back. An
abandoned USSD session expires with a message, as `ussd.controller.spec.ts:34`
shows, only if no other caller's request purged it before
(`ussd.controller.ts:30`); otherwise it resumes.

## 5. What is proved

Eight modules prove theorems for every value of the constants that satisfies the
named assumption of the module; sets may be infinite where nothing else is said.
Each `InductiveInvariant` below is `Spec => []IInv`, from one lemma per action.
Every invariant and every action property of a passing run is stated by one of
these theorems, about the specification that the run explores.

| Module | Theorems | Under |
|---|---|---|
| `PaymentIntentsProofs` | `TypeCorrect`, `PaymentIsIdempotent` (`OnePaymentPerKey`), `HashesUnique` (`NoSharedSettlement`), `ClaimIsDurable` (`ClaimedBeforeBroadcast`), `StatusIsTruthful` (`TruthfulStatus`), `SettlementIsFinal` (`SettledForever`), `Refinement` (`ImplementsSettlement`) | every envelope makes one payment |
| `MomoTransactionsProofs` | `TypeCorrect`, `ReservationFirst` (`ReservedBeforePost`), `ChargedOnce` (`OneChargePerReference`), `TerminalIsFinal` (`FinalForever`); `StatusIsTruthful` (`TruthfulStatus`) | the last also under `UnambiguousOrders` |
| `SendFlowProofs` | `TypeCorrect`, `NothingForgotten` (`PendingRemembered`), `AtMostOneOut` (`OneOutstanding`), `RetrySendsTheSame` (`EnvelopeKept`) | `OneScreen`: there is one screen, and nothing else |
| `WalletPagesProofs`, of `Spec` | `SetupEnds` (`SetupHasReason`), `SecretLeavesScreen` (`LockedShowsNothing`), `SignerIsWallet` (`SecretOfWallet`), any number of tabs; `KeysAreKept` (`KeyRecoverable`) | nothing; the last: one tab |
| `WalletPagesProofs`, of `SpecPages` | `PagesTyped` (`PagesTypeOK`), `PagesShowOwn` (`OwnPages`), `ReadingsGoForward` (`NeverGoesBack`), `SessionUnderPages` (the session's first three), any number of tabs; `KeysUnderPages` (`KeyRecoverable`) | nothing; the last: one tab |
| `EscrowProofs` | `TypeCorrect`, `MoneyLeavesAsAgreed` (`PaidOutAsAgreed`), `EveryTokenIsOwed` (`FundsAccounted`), `AlwaysOneExit` (`ExactlyOneExit`) | `EscrowAssumption`: the contract is no user; ids and amounts have a largest one |
| `VaultProofs` | `PrincipalIsKept` (`PrincipalKept`), `InterestIsBounded` (`YieldBounded`) | `VaultAssumption`: a positive denominator, natural bounds |
| `ContractsProofs`, of `Multisig` and `Gateway` | `QuorumDecides` (`ExecutedByQuorum`), `NeverLockedIn` (`QuorumReachable`), `AgreementsStand` (`AgreementsKept`), `MultisigTyped`, `EachTransferOnce` (`FundsAccounted`); `ConfirmationStands` (`ConfirmationKept`) | natural bounds |
| `ContractsProofs`, of `SpecContracts` | `ContractsTyped` (`ContractsTypeOK`), `EscrowTokensOwed` (`EscrowsAccounted`), `OneExit` (`ExactlyOneExit`), `PaidAsAgreed` (`PaidOutAsAgreed`), `PrincipalSafe` (`PrincipalKept`), `YieldUnderCap` (`YieldBounded`), `ConfirmedOnce` (`ConfirmationKept`), `MultisigHolds` (the multisig's four) | `ContractsAssumption`: the contracts' own assumptions |
| `InstanceProofs` | `TokensOutliveCalls` and, of `SpecInstance`, `InstanceTokens` (`TokenOutlivesCall`), `InstanceTyped` (`InstanceTypeOK`), `LimitIsKept` (`LimitKept`) | the buffer is at least two timeouts, as 60 s is to 15 s; limit, window and capacities are positive |

The hypotheses `UnambiguousOrders`, one screen and one tab cannot be dropped, nor can
the exceptions `unstored`, `hurried` and `late` of the statements: section 4 says what
happens without them.

Payment intents. None of the properties is inductive alone: a handler about to
settle might hold a hash that is not its row's, or a result nobody recorded.
`IInv` adds what a handler may rely on between its awaits (`HandlerOK`): past
the find it holds an envelope that makes the row's payment; past the claim its
hash is the row's; at the settlement its result, if final, is the ledger's.
These survive other handlers' steps because a bound hash is never replaced
(`ClaimGranted`), rows are never removed, and a ledger verdict never changes.
`KeysUnique` and `RowOK` carry the unique constraint and the parse.
`OnePaymentPerKey` then follows: two broadcasts for one key are, by
`ClaimedBeforeBroadcast`, bound to rows with that key, and by `KeysUnique` the
same row with its one hash. For the action property and the refinement,
`StepsOnTable` first reduces the fourteen actions to four ways a step changes
the table, which are then matched with the steps of `Settlement`.

MoMo. `IInv` joins the types, the unique index (`RecordsUnique`),
`ReservedBeforePost` and `HandlerOK`: a reference drawn is its own until it is
stored, one that is posted is stored with the same details, one to refresh is a
stored one. `OneChargePerReference` follows from the index and
`ReservedBeforePost`. Whether statuses are true takes a second invariant about
what a handler carries from MTN's answer to its UPDATE, and there
`UnambiguousOrders` makes a callback's record the one MTN meant.

Tokens. A cached token expires at most one timeout after the time the cache
reckons (`CacheOK`), and a fetch never outlives its deadline (`CallerOK`): one
timeout of the buffer pays for the age of a token at its arrival, the other for
the call that uses it.

Wallet session. `TabOK` ties the pieces of a tab together: a key is made only
where there is no wallet, a password checked only for the wallet that is there
and locked, a secret on screen is the wallet's, a key in memory is the wallet's or
`late`, and a decryption that is out is of the wallet's key or `late`. Every action becomes one
record-valued change of one tab (`StepShape`). `KeyRecoverable` also needs that
the tab knows the slot (`SlotKnown`), which is what a second tab breaks.

Pages. `SpecPages` implements `Spec` of the session (`PagesSession`), so the
session's theorems hold under the pages. For the pages themselves `PagesInv` says
of every tab what fits the account it has open (`PageOK`): readings, panels and
calls that are out are all of that account and not from the future; one call of
each kind is out at most; a call that was served carries a reading no older than
the one on screen (`CallsOK`); and away from the receive page nothing of it is
left (`Tidy`). `CallsOK` makes each arrival respect `NeverGoesBack`, and would fail
if a load did not cancel its predecessor. `AddressStep` is the fact about the
session it rests on: an address is dropped before another takes its place, so
the account effect always resets in between.

Payment screen. `ScreenOK` says what a screen knows of localStorage at each
point: nothing is stored while a payment is prepared or reviewed; from the first press
on its own id, or nothing when the write threw; a check asks about what is stored
still or no longer, or was overtaken by a payment that is `hurried`. When a result
comes, what is stored is therefore final, nothing, or `hurried`, and may be removed.

Multisig. `Counted` (approvals are of different signers, and enough when
executed) and `ThresholdOK` (the threshold is at most the number of different
signers, whatever `initialize` was given) are inductive; the lemmas on
`Cardinality` of an appended list carry them. For `FundsAccounted` the tokens
sent are counted one by one: `Sent` holds <<i, k>> for the k-th token of the
executed transfer i, so a transfer executed for the first time adds a set of its
amount that is disjoint from what was there (`SentReplace`, `CountMore`), and
every other call leaves `Sent` alone. A sum over proposals would need induction
over a finite set; the size of a union does not.

Gateway. `ConfirmationKept` follows from the guard of `ConfirmPaymentIntent` and the
types: only that call alters a record, and it needs the signature of the confirmer.

Vault. `CapOK` compares the balance with its unrounded simple interest since the
last call (`Grown`) with the compounded figure. `SimpleBelowCompound` moves it
across a tick, and rounding down only helps.

Escrow. `MoveBalance` computes what each holder receives from a transfer; a call
then pays at most one party, and the statuses name it. What the contract owes is
counted token by token as in the multisig: a change of one status counts one
escrow's amount in or out (`StatusCount`), which is what the transfer moved, and
`FundsAccounted` follows for every call, the strangers' deposits included. A
funded escrow's tokens are a part of what is owed, so the balance covers it:
`ExactlyOneExit`.

The four contracts. A step of `NextContracts` is a step of one contract and leaves
the others' state, so `SpecContracts` implements each contract's specification and
inherits its theorems. `ContractsAssumption` is what the contracts assume.

Rate limit and USSD. `LimitKept` speaks of a client's whole history, the guard only
of its current window. `WindowOK` relates them: the last m admitted requests fall
into the window that opened at s, m being what the entry counts, and all but the
last `Limit` of the earlier ones are a window's length older than s. It survives
a request (`WindowCounts`), the end of a window (`WindowEnds`), the clock
(`WindowWaits`) and a restart, which empties the map (a history is that of one
process). `Spaced`, that requests 2 * `Limit` apart are a window apart, follows and
is the bound. Capacity: an entry is added only to a map with room, and the purge
only shrinks it.

Only model-checked: `PollIsAnswered`, `PendingResolves` and `BlockEnds`, which rest
on fairness and so on ENABLED, beyond the prover. The theorems on the keys that
must not get lost and on the payment screen are about one tab and one screen
because the statements are false of two (section 4).

## 6. Plan

All modules of the plan are built. The first was `Settlement` with
`PaymentIntents`, the path of the money, and its refinement; then
`MomoTransactions`, the contracts, the two wallet modules; then what they lean on:
the pages over the session, the token cache under MoMo, the maps of one process;
and the proofs, which now state every safety property of the passing runs. What
could follow:

1. What two screens still keep: a version of `PendingRemembered` that is true
   when `confirm` and `finish` overwrite each other's id.
2. The same for `KeyRecoverable` with two tabs on one slot.
3. `create_payment` of the escrow contract and the row behind a payment link:
   both written once and only read afterwards.

## 7. What is not modelled

- Text and amounts: XDR, stroops, memos and formatting are pure conversions.
  An envelope is an abstract value with the payment it makes; two amounts are
  equal or not.
- `reason`, timestamps and messages of records: nothing depends on them.
- The in-memory stores: development only.
- MTN rejecting a cached token: it is one of the failures of `Fail`, and
  `MomoTokens` shows that it is not the token's age that causes it.
- `create_payment` of the escrow contract: a record under another key and
  counter, without money. Storage expiry (TTL) in all contracts.
- In `Multisig`, assets other than one: the asset is fixed when a transfer is
  proposed and balances of different assets never meet.
- Field validation and rendering of the frontend; the wallet's cryptography.
- Stored payment links, exchange rates, header guards, Soroban relays,
  deployment: stateless, read-only or without interaction, each with its reason
  in PROJECT.json.
