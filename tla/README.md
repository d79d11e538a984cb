# Roya: verification project

TLA+ modules of the program's documents and ledgers, TLC runs that check them
on small instances, and theorems about them that TLAPS checks for every
instance. Paths such as `services/sales.rs` are below `src/src/`.

Contents: [the system](#1-the-system) ·
[how the program is turned into steps](#2-how-the-program-is-turned-into-steps) ·
[modules and code](#3-modules-and-code) · [runs](#4-runs) ·
[bounds](#5-bounds-and-why-they-are-enough) · [fairness](#6-fairness-and-deadlock) ·
[theorems](#7-theorems) · [findings](#8-findings) ·
[not modelled](#9-what-is-not-modelled-and-why) · [plan](#10-plan) ·
[running it](#11-running-it)

## 1. The system

Roya keeps the books of a small business: catalogue, purchases, sales, stock,
cash accounts, customers and suppliers. It is a Rust program: an Axum handler
parses a request and calls one service method; the service reads, decides and
writes through repositories; a repository runs SQL on SQLite through a pool of
five connections (WAL, foreign keys on, deferred transactions). All state is in
the database, so requests interact only through its rows.

### Inventory

| Component | State | Operations that change it | Interacts with |
|---|---|---|---|
| Finance ledger (`services/transaction.rs`, `account.rs`) | `accounts` with `cached_balance`, `transactions` | create account; create, update, delete a transaction; create inside a document's unit | every document posts Income or Expense rows and links them from payment rows |
| Stock ledger (`services/inventory.rs`) | `stock_movements`; the level is a fold | manual In, Out, Adjust; `record_movement_in` inside a unit | purchases add, sales take, annulments and returns reverse |
| Sale documents (`services/sales.rs`) | `sales`, `sale_lines`, `sale_payments` | draft, lines, header, confirm, pay, annul, delete | numbers, stock, finance, the customer's debt |
| Purchase documents (`services/purchases.rs`) | `purchases`, lines, payments | as for sales, and `pay_supplier` over several purchases | numbers, stock, finance, supplier costs |
| Customer and purchase returns (`customer_return.rs`, `purchase_return.rs`) | credit notes and their lines | draft, lines, confirm (goods and refund), annul, delete | the parent document's lines and payments |
| Customer receipts (`customer_receipts.rs`) | receipts and allocations | collect: one payment per open sale of a plan | `record_payment` of sales |
| Document numbers (`repositories/doc_sequence_repo.rs`) | last number per type and year | `next_number_in`, inside the confirming unit | all four documents |
| Suppliers and costs | supplier rows, current and previous cost | edit; `record_cost`, `record_cost_in` | a confirmed purchase records costs |
| Customers | customer rows, credit limit | edit, activate | debt is folded from sales and payments |
| Taxes and prices (`line_taxes.rs`, `gross_inverse.rs`, `final_price.rs`, `inventory.rs`) | tax rows; a product's cost, net price and markup | product edit, confirm of a tax-inclusive price, tax edit | lines of documents |
| Catalogue, payment methods, settings | one row each | single-statement create and edit | read by documents |
| Setup and identity (`services/setup.rs`, `identity.rs`) | the setup flag in memory; users, roles, assignments, sessions | setup, login, logout, renew, activate, deactivate, reset, assign, matrix, roles | guards every route |
| Routes, rendering, localization, authorisation table | none | none | call one service method, or read only |

### What is hard here

* **A check and the write it justifies are different transactions.** Balance,
  due amount, debt, stock outside a unit and return allowances are read, decided
  on in Rust, and written later, with any other request in between.
* **Confirms are one unit, annulments and payments are not.** A confirm is all
  or nothing, but from a document it read before the unit. A payment commits
  twice and an annulment once per line, twice per payment and once at the end;
  a failure between two commits leaves the prefix.
* **Handlers may stop at any await.** A dropped connection cancels the future;
  SQLite's busy timeout (the driver's default) or a crash has the same effect. Nothing repairs a prefix; the
  user retries.
* **Status predicates are uneven.** Line edits, deletes and `set_confirmed`
  carry the Draft predicate in the statement; the header update and
  `set_cancelled` do not, and rely on a read made earlier.
* **Duplicated state.** `accounts.cached_balance` must equal the fold of the
  rows after every commit.

### What makes each component correct

* Finance: the cache is the fold; a transaction a payment refers to is never
  deleted; stale writes do not revive or move rows; with the overdraft rule on
  no balance is negative.
* Sales: numbers are dense and unique; a numbered document is frozen; nothing is
  posted outside a numbered document; payment rows own an existing transaction;
  stock is not oversold; goods and money match the lines, before and after an
  annulment; nobody owes more than the limit; an annulment ends.
* Purchases and returns: the same, and what is returned or refunded never
  exceeds what was delivered or collected.
* Stock: with negative stock off, no product's fold is below zero.
* Receipts: the payments a receipt groups sum to the money handed over, and
  are of sales of its customer.
* Supplier costs: the current cost is not older than any purchase confirmed from
  that supplier; a confirm never puts an older cost over a newer one.
* Prices: a tax-inclusive price that was typed is kept to the cent or refused;
  the net of a product with a markup is always the one its cost and its markup
  derive.
* Identity: one active holder of the protected role always remains; a session of
  an inactive user, or a revoked one, never resolves again; the setup gate opens
  once the instance is set up.

Every hazard found while reading, at its line, is in `PROJECT.json` under
`hazards` with the properties that cover it.

## 2. How the program is turned into steps

* A **request** is a process; `req[r]` is its program counter with exactly what
  it has read. A read that a later write relies on is a step, and each commit
  is a step. Reads that no other request could tell apart are one step.
* A **unit** (a transaction opened by the service) is one step: SQLite lets one
  writer in, its reads repeat inside, and an error rolls it all back. What the
  service read before the unit stays in `req[r]`.
* A **failure** is `Abandon` (Finance), `Quit` (documents), `Drop` and `Restart`
  (Identity) or `Stop` (ProductPrices): the request is gone, nothing committed
  is undone. A refusal has the same effect.
* **Identifiers** are positions in a sequence. Ids are AUTOINCREMENT, never
  reused; a deleted row stays as a hole.
* **Amounts** are small naturals. The code uses exact decimals; no property of
  the documents depends on their scale. In `Prices` they are whole cents and
  rates are hundredths of a percent, because rounding is what those properties
  are about.

Two constants select how requests are served. `OneAtATime = FALSE` is the
server as it is. `OneAtATime = TRUE` restricts the *clients* to one request at a
time: it isolates what the code promises without races, for those rules that
the code checks before it writes and that races break (see findings).
`MayFail = FALSE` likewise lets every request that has begun to write run to
its own end.

## 3. Modules and code

| Module | Models | Uses |
|---|---|---|
| `Sums` | the folds (`SUM(...)` of SQL and of iterators) as a recursive function | |
| `Finance` | `services/transaction.rs`, `repositories/transaction_repo.rs`, accounts | `Sums` |
| `SaleDocument` | the abstract specification of a numbered document | |
| `Sales` | `services/sales.rs`, `repositories/sale_repo.rs`, the number sequence, the movements, transactions and payment rows a sale writes | `Sums`, `SaleDocument` (as `Document`) |
| `Receipts` | `services/customer_receipts.rs`, composed with every step of `Sales` | `Sales` |
| `Purchases` | `services/purchases.rs`, the supplier costs of `suppliers.rs`, manual movements of `inventory.rs` | `Sums`, `SaleDocument` |
| `Returns` | `services/customer_return.rs` and `purchase_return.rs`, beside their parents | `Sums`, `SaleDocument` |
| `Identity` | `services/setup.rs`, `services/identity.rs`, `security/`, the identity triggers | |
| `Prices` | `line_taxes.rs`, `gross_inverse.rs`, `final_price.rs`: pure arithmetic | `Sums` |
| `ProductPrices` | the price columns of a product and the requests that write them | `Prices` |
| `SumsProofs`, `FinanceProofs`, `SaleDocumentProofs`, `SalesProofs`, `PurchasesProofs`, `ReturnsProofs`, `IdentityProofs`, `PricesProofs` | theorems | the module they are named after (`PricesProofs`: `ProductPrices`) |
| `MCFinance`, `MCSales`, `MCReceipts`, `MCPurchases`, `MCReturns`, `MCIdentity`, `MCPrices` | symmetry, and the values of constants that a configuration cannot write | |

`PROJECT.json` maps each definition to its lines. Definitions whose comment
begins with "Mutant" are plausible mistakes in the code, one for each checked
property, that make the property fail; no specification uses them.

### Finance

`rows` is the transactions table, `cached` is `accounts.cached_balance`, and
`linked` on a row says that a payment row has a foreign key to it.

| Code | Steps |
|---|---|
| `create_with_reference` | `CreateRead` (balance guard) → `CreateWrite` (insert and cache, one transaction) → `LinkPayment` when a document's payment goes on to insert its row |
| `create_with_reference_in` and the payment row in a confirm's unit | `PostInUnit` |
| `update` | `UpdateFind` → `UpdateBalance` → `UpdateOriginal` (second read; a missing row is the `unwrap` panic) → `UpdateWrite` |
| `delete` | `DeleteFind` → `DeleteBalance` (Income only) → `DeleteWrite` (refused by the foreign key when linked) |
| account creation | `CreateAccount` |

Every write goes through `WriteAndSync`: the new rows, and the account's cache
recomputed from them, in one step.

### SaleDocument

A document has a status, a number and an uninterpreted body. It is created as a
draft, edited while a draft, confirmed with the next number of a year in one
step, cancelled, or deleted while unnumbered. Sales, purchases and both families
of returns map to it (`docs`, and `IsDocument == Document!Spec`): status and
number as they are; the lines, and what else is frozen, are the body. The header
date is **not** in the body: the header updates have no Draft predicate, so a
date may change after the number was given. Cancelled drafts have no number and
may be deleted.

### Sales

`sales` are the rows with their lines; `lastNumber` is `doc_sequences` for SALE;
`moves`, `entries` and `payments` are the stock, finance and payment rows.

| Code | Steps |
|---|---|
| `create_draft`, line operations, `delete_draft` | `CreateDraft`, `AddLine`, `UpdateLine`, `RemoveLine`, `DeleteDraft`: the statement decides, so each is one step |
| header update | `HeaderRead` → `HeaderWrite` (no status predicate) |
| `confirm` | `ConfirmRead` (document, lines, customer) → `ConfirmCheck` (credit limit, stock) → `ConfirmUnit` (number, movements with the fold inside, Income and payment for cash, `set_confirmed` with the Draft predicate) |
| `record_payment` | `PayRead` (due balance) → `PayPost` (Income) → `PayLink` (payment row) |
| `cancel` of a draft | `CancelRead` → `Discard` (no status predicate) |
| `cancel` of a confirmed sale | `CancelRead` (no refund linked yet) → `CancelCheck` (each account covers the sum of its refunds) → `ReturnLine` per tracked line → `RefundPost`, `RefundLink` per payment → `CancelClose` |
| manual finance operations on the same rows | `ManualExpense`, `ManualUpdate`, `ManualDelete` |

Deliberate abstractions, which the other document modules share:

* Line taxes and rounding are in `LineTotal`, a total per line (in `Purchases`
  the constant operator `Gross`, which its configurations give by `Prices`).
* Catalogue refusals (inactive product, method without account, missing due
  date) change nothing; they are among the refusals of `Quit`. A payment method
  resolves to one account, so the account is chosen directly.
* The balance guard and insert of one finance transaction are one step here;
  `Finance` splits them and is where that race is studied. For the same reason
  the manual operations are one step.
* The stock check of `ConfirmCheck` is the code's check before the unit; the one
  in `UnitAccepts` is the fold repeated inside it.

### Receipts

`receipts` are the receipt rows, `grouped` is the `receipt_id` of each payment,
`collecting` is the plan a request is working through.

| Code | Steps |
|---|---|
| `collect`: the debts and the plan over them | `CollectRead` (`PlanAllocations`: each debt filled in turn until the amount is used up; an amount that does not fit is refused) |
| the receipt row | `ReceiptInsert` |
| `record_payment_with_receipt` per allocation | `AllocationRead` → `AllocationPost` (Income) → `AllocationLink` (payment row with the receipt's id) |
| an allocation refused, or the request dropped | `CollectQuit`: receipt and earlier payments stand |
| everything `Sales` does | `SaleStep`: `Sales!Next` by requests that collect nothing, new payments grouped under no receipt |

The code takes debts by due date. `Sales` has no due dates, so a plan may take
them in any order: what is checked holds for each. The row stores no amount;
`handed` remembers what was handed over, for the property.

### Purchases

As `Sales`, with the directions of goods and money exchanged, and in addition:

| Code | Steps |
|---|---|
| `confirm` | `ConfirmRead` (document, lines, cost dates) → `ConfirmUnit` (number, movements, Expense and payment for cash, `record_cost_in` per line with its own date check, `set_confirmed`) |
| `record_payment` | `Pay` → `PayPost` (Expense) → `PayLink` |
| `pay_supplier` | `PaySupplier` (plan, oldest debt first) → per allocation `PayCheck` → `PayPost` → `PayLink` |
| `cancel` | `CancelRead` → `Discard`, or per line `OutCheck` (level) → `OutInsert`, per payment `RefundPost` → `RefundLink`, then `CancelClose` |
| `record_cost` | `CostRead` → `CostWrite` |
| `record_movement` | `MoveRead` (level) → `MoveInsert` |

### Returns

The two services are one state machine with the directions exchanged: `family`,
chosen at the start of a behaviour, says whether it is credit notes against
sales or returns of purchases, and `PaidBack`, `PaidForth` and `Delta` give the
directions. The parents are confirmed documents with the frozen lines `Sold`.

| Code | Steps |
|---|---|
| payments and annulment of the parent, manual movements and expenses | `PayParent`, `AnnulParent`, `MoveByHand`, `SpendByHand`, each one step |
| drafts | `CreateDraft`, `AddLine`, `UpdateLine`, `RemoveLine`, `HeaderWrite`, `DeleteDraft`, `Discard` |
| `confirm` | `ConfirmRead` (return, what is left of each parent line, what the parent collected) → `ConfirmUnit` (number, movements, refunds, status) |
| `cancel` | `CancelRead` → `ReverseLine` per line → `PayForth` → `LinkBack` per refund → `CancelClose` |
| a refusal or a dropped request | `Quit` |

### Identity

Tables are sets of ids and of pairs; `sessions` are the rows with their state;
`setupRequired` is the flag in memory that the gate loads. Each statement is a
transaction of its own, judged by triggers and foreign keys on the rows of that
moment; all the reads of a handler before its first write are one step.

| Code | Steps |
|---|---|
| the setup form and the gate | `SetupRead` → `SetupStore` (the flag, from what was read) or `SetUp` (one transaction: settings, first administrator) → `SetupComplete` (clears the flag) |
| `login` | `LoginRead` → `LoginInsert` → `Prune` |
| `logout` | `Logout` |
| a request with a session | `Admit` (session, user, permissions, checks of the handler) → `Renew` → its write |
| writes | `ChangePassword` → `Revoke`, `Deactivate` → `Revoke`, `ResetPassword`, `CreateUser`, `Activate`, `AssignRoles`, `SetMatrix`, `CreateRole`, `DeleteRole` |
| time, a closed connection, a restart | `Tick`, `Drop`, `Restart` (reads the flag from the table) |

### Prices and ProductPrices

`Prices` translates the arithmetic: each tax applies to the net and is rounded
by itself (`LineTotal`); the net behind a tax-inclusive figure is searched in a
window around a division (`SolveNet`, `Radius`); the markup that reproduces a
net from a cost is searched on a ladder of decimals (`Ladder`) and verified.
`ProductPrices` is the row these are stored in.

| Code | Steps |
|---|---|
| `update_product` (a patch merged into the row) | `SaveRead` (read, merge, `validate_product`) → `Write` (the whole row) |
| confirm of a typed final price | `FinalRead` (the product) → `FinalSolve` (the taxes, the solve, `validate_product`, or a refusal) → `Write` |
| taxes linked, unlinked, edited or deactivated | `TaxesChange` |
| a refusal answered, or a dropped request | `Stop` |

`typed` is a ghost: the final price the row was last solved for, while no edit
since then changed what it depends on.

## 4. Runs

| Run | Question | Properties |
|---|---|---|
| `MCFinance_concurrent` | Does the ledger stay consistent when requests overlap and die? | `TypeOK`, `CachedIsFold`, `LinkedStaysLive`, `HistoryKept` |
| `MCFinance_serial` | Is the overdraft rule right when requests do not overlap? | `Solvent` |
| `MCFinance_overdraft` | Does it hold when they do? *violation* | `Solvent` |
| `MCSales_concurrent` | What survives overlapping, failing requests and manual edits? | `TypeOK`, `NumbersInOrder`, `NothingOutside`, `PaymentsPosted`, `ShipsCovered`, `IsDocument` |
| `MCReceipts` | Do goods, money, debt and receipts balance, one request at a time, and does every annulment end? | `DebtWithinLimit`, `ShippedAsSold`, `AnnulledReversed`, `ReturnedOnce`, `PaidWithinTotal`, `CashSettled`, `ReceiptExplained`, `AnnulmentCompletes` |
| `MCSales_retry` | Is a failed annulment safe to repeat? *violation* | `ReturnedOnce` |
| `MCPurchases_concurrent` | What survives overlapping, failing purchases and costs recorded by hand? | `TypeOK`, `PaymentsPosted`, `IsDocument`, `ConfirmKeepsCosts` |
| `MCPurchases_serial` | Do goods, money, plans and costs balance when requests do not overlap, though annulments are refused half way? | `ReceivedAsBought`, `AnnulledReversed`, `PaidWithinTotal`, `PlanServed`, `CostsCurrent` |
| `MCReturns` | Do returns stay within their parents, and can a reversal that died be repeated? | `TypeOK`, `WithinParents`, `RefundedAsWorth`, `MovedAndReversed`, `RefundsPosted`, `IsDocument` |
| `MCIdentity` | Do overlapping administrators, sessions and setups keep the instance usable and closed? | `TypeOK`, `AdministratorExists`, `RevokedStays`, `GateOpens` |
| `MCIdentity_deactivate` | Can an inactive user hold a session? *violation* | `InactiveHoldsNone` |
| `MCPrices` | Is a typed price kept to the cent, through overlapping saves? | `PriceKept`, `PriceDerived` |

What the passing runs show:

* **Concurrent documents.** The parts of the code that decide inside the writing
  statement or unit are robust: numbering, the Draft predicate of confirm, the
  fold of stock inside the unit, the cost date checked again inside it, the
  foreign keys of payment rows and the cache. The weak statements (header,
  discard, the end of an annulment) still cannot unfreeze a numbered document.
  `PaymentsPosted` also says that no two references share a transaction, though
  the row is written in a later commit and a person may edit or delete
  transactions in between.
* **Serial sales and receipts.** Each document moves exactly what its lines say,
  even when a product repeats or is not tracked, or a total is zero; an annulled
  one has returned and refunded everything, and nobody owes more than the limit,
  which counts the debt of *other* sales. A receipt groups exactly the money
  handed over. The balance check made before an annulment starts is sufficient:
  summed per account, it makes every later check pass, so an annulment never
  stops half way (checking each payment alone, a mutant, does). These fail when
  requests overlap or die, so they are stated for one request at a time; the
  hazards name each such line.
* **Serial purchases.** Here an annulment *may* be refused half way: the stock of
  each line is checked when its turn comes. `AnnulledReversed` says that the
  status is reached only after everything is undone, and therefore allows more
  to have gone out than came in. `PlanServed` says that a plan made once stays right to
  its end, oldest debt first.
* **Returns.** What is left of a parent line is counted over confirmed returns
  whenever it is asked, so that drafts open at once cannot share it; a reversal
  that died may be repeated.
* **Identity.** The triggers judge each statement on the rows of its moment, so
  administrators who deactivate or demote each other always leave one. A renewal
  writes only a live session. A setup page that read the table before the setup
  may store a stale flag and close the gate; it opens again on the next reading.
* **Prices.** A save writes a whole row read earlier, so overlapping saves may
  replace one another, but never mix: the net is the one its own cost and markup
  derive.

## 5. Bounds and why they are enough

Approximate numbers of distinct states are in parentheses.

* `MCFinance_concurrent` (808,000): two accounts, amounts 1 and 2, two requests,
  two rows. Two requests give every interleaving of two multi-step operations;
  two rows let one request write a row another has already read, deleted or
  moved past; two amounts and both kinds make every update visible.
* `MCFinance_serial` (132,000): three rows and the same amounts, so that a
  balance is a sum of several rows before it is edited or deleted.
* `MCSales_concurrent` (529,000): two sales, one line, one product with one unit
  in stock, one account, two requests that may die, all manual operations, stock
  and overdraft rules on. One unit makes the two sales
  compete; one year makes them compete for a number. Three movements are a
  shipment, its return and one more; two entries are a payment and its refund or
  a payment of the other sale.
* `MCReceipts` (490,000): two sales of up to two lines, one tracked product and
  one that is not, totals 0 and 1, one limited customer with limit 3 and the
  walk-in customer, overdraft and stock rules on. Each sale may be of 2, so
  either alone is within the limit and both are not; a collection of 2 covers
  two debts of 1, one debt of 2, or a part-paid one and the next; two payments
  on one account need the sum of refunds; expenses drain the account first.
* `MCPurchases_concurrent` (1,026,000): two purchases of one line, one supplier, cash of
  the later and credit of the earlier year, two requests that may die, costs
  recorded by hand between them. Two dates make a cost older or newer.
* `MCPurchases_serial` (1,169,000): two purchases of up to two lines, two
  products, costs 0 and 1 with a tax of 50 % (half a cent to round), payments
  of 1 and 2, funds 3, due dates that order the plan, stock moved by hand so that an
  annulment is refused at its second line.
* `MCReturns` (696,000): both families, two parents, one of two units and one of one, two
  returns, one unit in stock and 1 in the account, one request that may die.
  Two returns compete for a parent line of two units; the account cannot pay
  back everything, so reversals and confirms are refused half way.
* `MCIdentity` (424,000): two users, the protected role and another, two
  requests, one session, a clock of one tick and a lifetime of 2 with renewal
  after any idle time. No session runs out within that clock: expiry only refuses and
  prunes, and `RevocationStays` is proved for every clock. Two administrators can act on each other and themselves;
  either can be demoted, deactivated and activated again. The violation run has two
  sessions.
* `MCPrices` (445,000): no tax, one, two of 50 % (where the division alone is a cent
  off), and three; typed prices 0, 3, 10 and 33, costs 0 and 7; patches of no
  price, cost, net, markup and all three; a ladder of none, two and four decimals; two
  requests.

`MaxRows`, `MaxSales`, `MaxPurchases`, `MaxReturns`, `MaxReceipts`, `MaxLines`
and `MaxSessions` cap the tables. `MaxMoves` and `MaxEntries` are checked when a
request *starts* (`Room`), never in the middle, so that a bound cannot look like
a refusal or a blocked annulment; a table may end a little longer than the
bound. `MaxTime` caps the clock. Symmetry is used on requests, accounts,
suppliers and tracked products, which no definition tells apart, and not in the
runs with a liveness property.

## 6. Fairness and deadlock

The async runtime polls a woken task until it answers and SQLite's busy timeout
serves waiting writers, so a request that can take its next step and is not
dropped takes it.

* `FairReceiptsSpec` has `WF` of the steps of an accepted request, of `Sales`
  (`ServesSale`) or of a collection (`Collecting`): no fairness on clients
  (nobody must ever send a request), on edits or on failures. It is used with
  `MayFail = FALSE` and `OneAtATime = TRUE`: with a crash or a competing expense
  an annulment may indeed stop for ever. `AnnulmentCompletes` begins after the
  check has passed, from where `Quit` is not possible in that run.
* `Fairness` of `Identity` has `SF` of `Proceed`: connections are closed and
  servers restarted, but not every time, so that a step which is offered again and again
  is taken some time. `WF` of `SentToSetup` is the gate: while the flag is set every
  request is redirected to the form, which reads the table again. `GateOpens`
  needs both.

`CHECK_DEADLOCK FALSE` in every configuration: tables are bounded, and a server
nobody calls may rest. Waiting of requests on each other is not possible here: a
unit takes the only write lock once and no request waits for another one.

## 7. Theorems

All for every value of the constants: any sets of accounts, products, customers,
requests, years and amounts, and any bounds.

| Theorem | Says | Property of a run | If |
|---|---|---|---|
| `FinanceTyping`, `FinanceTypes` | types; requests name only issued ids | `TypeOK` | |
| `CacheAgrees` | cached balance = fold of rows | `CachedIsFold` | |
| `LinkedStays` | a linked transaction is never deleted | `LinkedStaysLive` | |
| `History` | no row is revived, moved or unlinked | `HistoryKept` | |
| `SerialSolvent` | no negative balance | `Solvent` | alone |
| `SumOverUpdate` | how a sum over a table changes with one row | | |
| `NumbersDense`, `DocumentFrozen` | the laws of `SaleDocument` | | |
| `SalesTyping`, `SalesTyped` | types, and what requests under way rely on | `TypeOK` | |
| `SalesIsDocument` | `Sales` implements `SaleDocument` | `IsDocument` | |
| `SaleNumbersDense` | dense, unique sale numbers | `NumbersInOrder` | |
| `SaleRecordFrozen` | numbered sales are frozen | | |
| `SalesNothingOutside` | every row of the ledgers is of a numbered sale | `NothingOutside` | |
| `SalesPaymentsPosted` | each payment and refund has its own live transaction | `PaymentsPosted` | |
| `SalesShipCovered` | no confirm takes units that are not there | `ShipsCovered` | |
| `SalesShippedAsSold` | shipped exactly what the lines say | `ShippedAsSold` | alone |
| `SalesPaidWithinTotal`, `SalesCashSettled` | paid at most the total; cash sales in full | `PaidWithinTotal`, `CashSettled` | alone |
| `SalesDebtWithinLimit` | no customer owes more than the limit | `DebtWithinLimit` | alone |
| `SalesAnnulledReversed`, `SalesReturnedOnce` | annulled: all back and refunded; nothing back twice | `AnnulledReversed`, `ReturnedOnce` | alone, alive |
| `ReceiptsExplained` | a receipt groups exactly the money handed over | `ReceiptExplained` | alone, alive |
| `PurchaseTypes`, `ReturnTypes` | types of the documents, the ledgers and the requests | `TypeOK` | |
| `AlwaysTyped` of `PurchasesProofs` and of `ReturnsProofs` | what requests under way rely on | | |
| `PurchasesIsDocument`, `ReturnsIsDocument` | they implement `SaleDocument` | `IsDocument` | |
| `PurchaseNumbersDense`, `ReturnNumbersDense`, `PurchaseRecordFrozen`, `ReturnRecordFrozen` | the laws of documents for both | | |
| `PurchasePaymentsPosted`, `ReturnRefundsPosted` | each payment, refund and reversal has its own live transaction | `PaymentsPosted`, `RefundsPosted` | |
| `PurchaseConfirmKeepsCosts` | no confirm replaces a cost of a later date | `ConfirmKeepsCosts` | |
| `PurchaseReceivedAsBought`, `PurchasePaidWithinTotal` | goods and money of a purchase | `ReceivedAsBought`, `PaidWithinTotal` | alone |
| `PurchaseAnnulledReversed` | an annulled purchase keeps no units and no payments | `AnnulledReversed` | alone |
| `PurchasePlanServed` | `pay_supplier` is never refused half way, oldest debt first | `PlanServed` | alone |
| `PurchaseCostsCurrent` | costs are as recent as the purchases; the previous one differed | `CostsCurrent` | alone |
| `ReturnWithinParents` | standing returns take no more than was sold or bought | `WithinParents` | alone |
| `ReturnRefundedAsWorth`, `ReturnMovedAndReversed` | refunded as worth; moved once, reversed in full | `RefundedAsWorth`, `MovedAndReversed` | alone |
| `IdentityTyping`, `IdentityTyped` | foreign keys hold; requests name rows that were there | `TypeOK` | |
| `AdministratorRemains` | an active holder of the protected role remains | `AdministratorExists` | |
| `RevocationStays` | no step revives a revoked session | `RevokedStays` | |
| `InverseExact` | the search behind a tax-inclusive price finds the one net that grosses to it | | |
| `ProductPriceDerived` | the net is the one cost and markup derive | `PriceDerived` | |
| `TypedPriceKept` | two parts of `PriceKept`, for every ladder | | |
| `PriceAlwaysKept` | a typed price is kept, or refused only where no net grosses to it | `PriceKept` | fine ladder |

The last column names what a theorem assumes of the constants, as an
implication. *Alone*: `OneAtATime`, requests are served one after the other
(but may be abandoned at any write). *Alive*: `~ MayFail`, none is abandoned
between two of its writes. `ReceiptsExplained` says both with `Unbroken`, and
that any positive amount may be paid, since a plan may hold any share of a debt
(in `MCReceipts` every share is 1, the one amount of that run). *Fine ladder*: `FineLadder`, some rung is
finer than every cost. Everything without an entry holds however requests
overlap and fail. *Alone* and *alive* are not weaker than the code allows for
these properties: the hazards and findings say what breaks each of them
otherwise, and `MCSales_concurrent` and `MCPurchases_concurrent` check only
those that hold there.

The other assumptions are those of the modules (`FinanceAssumption`,
`SalesAssumption`: amounts are positive naturals, bounds are naturals, tracked
products are products, what was sold before a return is a finite list, and so
on); TLC evaluates them in every run.

**Sums.** The fold is a recursive function. `SumsProofs` derives induction on Nat in a
first-order form from well-founded inclusion of finite sets, shows with it that
the fold is defined as it reads, and then how it changes
when the table is appended to or one row is rewritten. Everything about balances
rests on that.

**Finance.** `Typed` adds to the types that a request holds only ids already
issued: needed because `UpdateWrite` and `DeleteWrite` index `rows` with an id read
earlier. `TableStep` then classifies all steps by what they do to the table:
nothing, append a live row, or rewrite one live row without changing its account.
The cache, the links and the history follow from those three cases and the
lemmas on sums, without going through the actions again. `SerialSolvent` needs
more: the invariant `Serial` says that at most one request is under way
(`Alone`), no balance is negative, and that what the request has decided is
still true (`Decided`, one clause per program counter). It is inductive only
with all three: the clause about the balance seen by `updateBalance` would be
broken by any other writer, which is the race `MCFinance_overdraft` shows.

**SaleDocument.** `Consistent` strengthens density with types and "a confirmed
document is numbered, a draft is not", which `Confirm` needs to know that it
does not overwrite a number.

**Sales, Purchases, Returns.** `Typed` is the types with `Relies` for each
request: the document it holds exists; one that pays or annuls holds a numbered
one; and for the table, that exactly the documents which were confirmed are
numbered (in `Sales` also that links hold issued transactions and payments
belong to numbered sales). This is the strengthening that makes the refinement
go through: `CancelClose` writes the status without a predicate, and is a step
of `SaleDocument` only because its document was confirmed once and is numbered
for ever, hence never a draft again. It is inductive because the tables only
grow and numbers stay. `TableStep` classifies all steps on the table;
`StepIsDocument` maps each class to one step of `SaleDocument` or to a stutter,
with no assumption on overlap or failures. The laws of `SaleDocument` are then
carried over by the refinement (`INSTANCE SaleDocumentProofs`), so density and
freezing are proved once, on the small module, for four kinds of documents.

**What holds however requests overlap** in those three modules needs a little
more than `Typed`. For the posted payments (`Posted`): a transaction that a
request has inserted and not yet linked has the account and the number the link
will claim, is referred to by no row, and no two requests hold the same one.
Inserting keeps this because the new id is larger than all that are held; linking
keeps it because what was held is given up in the same step; manual deletions
spare what a row refers to, and a link to a transaction deleted before it is
refused. `NothingOutside` adds one clause for each program counter that carries a
number. `ShipsCovered` and `ConfirmKeepsCosts` are facts about one unit: its
checks and its writes see the same table, and the fold over its lines is
bounded product by product.

**One request at a time.** The serial invariants have the shape of `Serial` of
Finance: at most one request is under way (`Alone`), and what it has read is
still true, with one clause per step (`Held`).

* Money. `WellPaid` bounds the payments of a document by its total and
  `LimitKept` a customer's debt by the limit, with the check of a confirm about to
  post; inductive because what a request is about to insert is within what is
  due *now*. In `Returns`, `WellRefunded` is what a confirm pays back at once.
* Goods. Every movement is known by the number of a document (`MovesKnown`), and
  numbers are unique, so a confirm adds to its own document only (`WellMoved`).
  `WithinParents` follows from what the draft being confirmed still fits in
  (`Held`) and from `Distinct`, one row per line of a parent.
* Annulments. In `Sales`, `Annulments` says of the one under way which lines have
  come back, which payments are refunded, and that the balances cover all refunds
  to come, so that none of them is refused; a closed sale has nothing left. It needs `~ MayFail`: without
  it, it is false, which is the second finding. An annulment of `Purchases` and a
  reversal of `Returns` look at what was written before: `Progress` says that
  all but what they still have to write is undone, abandoned attempts included, so
  their theorems hold with failures.
* Plans. For `pay_supplier`, the allocations left are payable, of purchases which
  are all different, and no older debt is outside them (`InOrder`). For the
  costs, `Current`: each is as recent as every confirmed purchase it comes from,
  because a unit writes it only at a date that the one on record accepts.

**Receipts.** `ReceiptsHeld` says of the collection at work (`Serving`) that it
is served alone, that its plan is still payable sale by sale, and that what its
receipt groups so far and what the plan has left come to what was handed over;
and of every other receipt that it is explained. `PlanAllocations` gives such a
plan: the debts it covers are an initial part of the order, each of another sale,
and each share is positive and within what is due (`PlanPromised`). A
payment leaves what is due of the other sales as it was, so the rest of the
plan stays payable and `CollectQuit` has nothing to refuse.

**Identity.** `Typed` adds to the foreign keys that a request holds an issued
session, that the user it is about to act on is a row, and that a role it may
delete is not protected (`Reliable`): users and sessions are never removed, and the checks of the
handler exclude the protected roles, so what was read stays usable. One classification
of steps is enough for each theorem: `TableStep` on users, roles and grants for
`AdministratorRemains`, where every class but a deactivation, an assignment and
the setup only adds holders, and those that take away carry the trigger's
guard; `SessionStep` on the session rows for `RevocationStays`.

**Prices.** The search examines a window around the rounded division. Each
tax is rounded by itself, and each rounding moves the gross by at most half a
cent, as does the division; scaled back to the net that is at most the window `Radius`,
so the net a gross came from is examined. Contributions never decrease with the
net, so the gross is strictly monotonic and no other net has it: hence
`InverseExact`. The code caps the window at 1,000, which is why at most 1,997
taxes are assumed. For the state machine, `SavesKeep` strengthens `PriceDerived`
and `PriceGrosses`: what a save under way will write is derived, and grosses
under the taxes *now* to the figure it claims. It is inductive because
validation leaves a row that was derived as it is, and because an edit of taxes
withdraws every claim.

For `MarkupFound`, the part of `PriceKept` that depends on the ladder: a markup
is rounded to a rung, and the net it derives differs from the one it came from
by at most the cost times half that rung, and the rounding of the net.
Where a rung is finer than the cost, that is less than a cent, so the net is
derived again (`FineRungCloses`). The finest rung of the code has 24 decimals and
its costs are below 10^24 (`services/final_price.rs:416-419` argues the same);
the ladder of `MCPrices` is fine for its costs too.

**Only model-checked.** `AnnulmentCompletes` and `GateOpens` are liveness,
outside the prover's reach, as is everything with `ENABLED`. The theorems that
assume something of the constants are checked by TLC in runs with those values;
the three runs that end in a counterexample show what happens without them. Every
other property of a passing run is stated by a theorem above.

## 8. Findings

Three places where the code does not do what a comment says. Each has a run that
ends in a counterexample.

1. `MCFinance_overdraft`: two withdrawals each covered by the balance overdraw it
   together, because the guard reads in one statement and the insert runs in
   another (`services/transaction.rs:104`). A comment at lines 329-331 says that
   the flag keeps every balance at or above zero.
2. `MCSales_retry`: an annulment that stops after returning goods, and before the
   first refund is linked, is accepted again and returns them twice
   (`services/sales.rs:1655`). The guard counts only refunded payments;
   its comment (1649-1653) says a partial annulment must be refused, precisely so
   that the movements are not written a second time. For an unpaid credit sale the
   guard can never help.
3. `MCIdentity_deactivate`: a deactivation clears the flag in one statement and
   revokes the sessions in the next (`services/identity.rs:789`). A request
   dropped in between, or a login that read the user while active, leaves a live
   session, and a repeated deactivation returns early (785-787). The comment at
   766-767 says an inactive user cannot hold a session. The session does not
   resolve while the user is inactive; it does again after an activation.

Other disagreements are listed as hazards and have no run of their own. Two
payments that read the same due balance are both recorded
(`services/sales.rs:1553`), though the repository's README (84-85) says that
payments never exceed the total. Two overlapping product edits replace one
another (`services/inventory.rs:466`). A sale may be annulled beside a credit
note of it (`services/sales.rs:1613`).

## 9. What is not modelled, and why

Most of the repository's lines are web handlers, rendering and tests; the
modules stand for the services and the repositories under them. Left out:

* Web and JSON handlers, rendered documents, localization, the authorisation
  table: no state of their own. A handler parses, calls one service method and
  renders; the service call is modelled, a dropped connection is the failure of
  the request.
* Catalogue columns other than prices, barcodes, categories, customer and
  supplier rows, the preferred supplier, payment methods, tax rows, and settings
  after the setup: single statements behind uniqueness constraints and triggers,
  with nothing to interleave. What documents read of them is a constant here.
* The login throttle (in memory, only refuses), password hashing and token
  minting (library calls), and `bootstrap_admin` and `delete_receipt`, which
  nothing but tests calls.
* In `Prices`: tax-inclusive purchase costs (`purchase_cost.rs`), rates finer
  than 0.01 %, and refusals for figures beyond 28 digits.
* Due dates in `Sales`, and hence the order of a receipt's plan (any order is
  allowed). Credit notes in `Sales`: `cancel` ignores them; `Returns` has the
  annulment of a parent beside its returns.
* Migrations as conversions of old data: they run once, before any request. The
  constraints they create are in the guards (foreign keys, unique numbers).

## 10. Plan

What remains, in order of what it would show:

1. A refinement of `Identity` to a registry of sessions: `RevokedStays` is
   proved from the step alone, and says nothing of what a session that resolves
   promises.
2. `Sales` and `Returns` over one table: a credit note beside the annulment of
   its sale, which each module now has from its own side only.
3. Two movements of stock that overlap (`services/inventory.rs:761`), which the
   documents never make but the manual movements can.

## 11. Running it

    tlc -workers 2 -config MCSales_concurrent.cfg MCSales
    tlapm SalesProofs.tla

Each passing run takes between a few seconds and two and a half minutes. From
nothing, `SalesProofs`, `PurchasesProofs` and `ReturnsProofs` take ten to fifteen
minutes each, the other five proof modules a minute or two together.
