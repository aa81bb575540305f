# Verification of financiero_itp_api

TLA+ models of the invoicing API of the ITP: a NestJS service that prices and
issues enrolment invoices, takes the payments of two banks over HTTP (BBVA and
Banco Popular), reverses them, keeps the accounting ledger SysApolo in step
and mails receipts. Two databases are involved: SIGEDIN (MySQL: invoices,
payments, discounts) and SysApolo (SQL Server: the ledger). There is one Node
process; every handler is a chain of awaits, so the unit of interleaving is
one database call or one transaction.

## Inventory

| Component | State | Operations | Interacts with | What is hard |
|---|---|---|---|---|
| Cash-desk payments (`bbvaCash.controller`, `popularCash.controller`, `InvoiceService`, `DetailPaymentRepository`) | `factura.estado_id`, rows of `detalle_pago` | register, reverse, consult | drafts (reads the invoice), ledger, discounts and mail after a commit | check before the transaction, retries after errors, lost commits, crash between commit and answer, two-step reversal, 12-hour window |
| Ledger (`InvoiceSysService`) | headers, details and third parties in SysApolo, `sysapolo_verify` in SIGEDIN | register one, register in bulk, delete | called by payments, reversals, the nightly job and by hand | two databases without a common transaction, MAX + 1 ids, deletion in three calls, concurrent callers |
| Scheduled tasks (`TasksService`) | is the nightly job running | nightly ledger job, stopping and starting it, mail job every 10 minutes | ledger, mail | batches without order, overlap, starvation |
| Discount billing (`InvoiceService`, `DiscountRepository`, `discountEligibility.util`) | state of a discount, `invoice_discounts` rows | bill after a payment, release after a reversal | payments | fire-and-forget release, reads on another connection than the transaction |
| Invoice drafts (`ConsultInvoiceService`, `GenerateInvoiceService`, `InvoiceRepository`) | invoices and detail lines | generate, price again on consultation | payments | delete and save without a transaction, stale overwrite of a paid state |
| Pricing (`invoice.util`, `invoiceAdapter.util`, `discountEligibility.util`) | none | totals, lines, eligibility, due dates | drafts | rates that are added, clamped and rounded in different places |
| Student type (`EnrollmentService`) | none | classify an enrolment | drafts | four reads without a transaction, swallowed errors |
| Receipt mail (`sendPaymentEmail`, mail job) | `factura.email_send` | send, mark | payments, tasks | duplicates, a day's end |
| Connections (the pool of the default data source) | connections in use, queue | acquire, release | everything | hold and wait, leaks |
| Barcodes, rendering, HTTP edge, configuration | none | formatting, I/O | | see "Not modelled" |

Correctness, by component:

* Payments: an invoice is marked paid only with a payment behind it; a bank is
  never told that something was recorded or refused when it was not; a retry
  never records a payment twice; a reversal takes only the payment meant and
  only within 12 hours.
* Ledger: a paid invoice ends up in the ledger, once, billed to its student,
  with its details; a reversal takes out that invoice and no other; the mark
  in SIGEDIN agrees with the ledger.
* Discounts: a discount is billed on one paid invoice at most and is free again
  after a reversal.
* Drafts: writing a draft never undoes a payment and never loses a paid
  invoice's lines; what is paid is what the lines come to.
* Pricing: what is printed, quoted and written agree on either side of a deadline.
* Mail: a payment gets a receipt, once, and none goes out for a payment taken back.
* Student type: nobody is new who has a history, and who is behind stays so.
* Connections: no connection is in two hands; every request gets its turn.

## Modules

| Module | Models | Kind |
|---|---|---|
| `PaymentBook` | what the cash desk promises: a book of payments in force | abstract specification |
| `Payments` | both controllers, `registerPaymentCash`, `reversePayment` and their transactions | component |
| `PaymentsProofs` | theorems about `Payments` | proofs |
| `SysLedger` | `InvoiceSysService`, the nightly job, and the payment and reversal events that drive them | component |
| `LedgerProofs` | theorems about `SysLedger` | proofs |
| `DiscountLife` | what billing promises about a discount: one holder at most, given back at once | abstract specification |
| `DiscountBilling` | `registerDiscuountInvoice`, `deleteDiscuountInvoice` and the reads before them | component |
| `DiscountProofs` | theorems about `DiscountBilling` | proofs |
| `CashDesk` | a whole payment and a whole reversal: `SysLedger` and `DiscountBilling` in the handler's order | composition |
| `DeskProofs` | theorems about `CashDesk`, from those about its parts | proofs |
| `InvoiceLife` | what the drafts promise: lines change while unpaid only, and what is paid is what they come to | abstract specification |
| `InvoiceDraft` | generation, consultation and re-pricing, call by call, against payments and reversals | component |
| `DraftProofs` | theorems about `InvoiceDraft` | proofs |
| `Pricing` | `src/utils` and the pure parts of `ConsultInvoiceService`, as operators | library |
| `InvoicePrice` | what the handlers compute over the days of a period | component |
| `ReceiptMail` | `sendPaymentEmail`, the mail at the end of a payment, the mail job | component |
| `MailProofs` | theorems about `ReceiptMail` | proofs |
| `StudentType` | `generateStudentTypeByEnrollment` and the academic system beside it | component |
| `EnrolmentProofs` | theorems about `Pricing`, `InvoicePrice` and `StudentType` | proofs |
| `ConnectionPool` | the pool of the default data source and the handlers that use it | component |
| `PoolProofs` | theorems about `ConnectionPool` | proofs |
| `MC*` | constants of the module they are named after, for TLC | model checking |

### Payments

A request is a handler with a program counter `pc`. `checking`, `recording` and
`recorded` are the awaits of `registerPaymentCash` (the duplicate search, the
transaction, what follows it); `finding` and `deleting` are those of
`reversePayment`. `payload` is what the controller passes on: Popular's
registration stores the normalised code (`Stored`), its reversal tries the raw
one and then the normalised one (`SecondTry`). A member of `Codes` stands for
the pair of transaction code and value, which the repository always matches
together. Dates arrive as days and get the server's time of day (`Stamp`, from
the DTOs); a tick of the clock is 12 hours, so "less than 12 hours" is "less
than one tick".

A transaction is one action with four outcomes: committed; rolled back (the
code returns false); connection lost before or after the commit (the rollback
throws as well, the controller answers ERROR). `AfterRecord` covers what comes
after the commit: `JSON.parse` and the discount query may throw, everything
later is swallowed. `applied` is a history variable: the requests whose
transaction was committed.

`Overlap = FALSE` restricts the environment: a bank sends a request on an
invoice only when it has none in flight there, but may send another one after
any answer, an ERROR or a crash. `Overlap = TRUE` removes the restriction.

### SysLedger

A task is one running call of the service. `lookup`, `tercero`, `codTer`,
`pago`, `codFactura`, `codDet`, `commit` and `mark` are the awaits of
`registerInvoiceSysApolo`, one action each: whoever finds no third party only
then asks for the next code, so that two registrations of a new student may
enter him twice. `delFind`, `delDetails` and `delHeader` are the awaits of
`deleteInvoiceSysApolo`, which a reversal starts and does not wait for.
`StartBulk` and `NextInvoice` are the loops of the nightly job and of
`registerInvoiceMasive`; a failure inside the loop goes on with the next invoice
(`Return`). `StopJob` and `StartJob` are the calls that stop and start the job,
which a restart of the process starts too (`Crash`). Ids are read with
`MAX(STR(id + 1, 5))` outside the transaction (`NextId`, `NextDet`, with the
overflow of STR at `MaxId`: past it an id is `Overflow`, and the next detail,
which is computed from it, no number, 0); the primary keys of the entities make
the loser of a race roll back (`Conflict`). Payments and reversals are reduced
to their effect on `pago` and `verify`. `orden` names what the environment keeps
apart on one invoice: two registrations (`"sync"`), two clean-ups (`"delete"`),
a registration and a clean-up (`"quiet"`); or two registrations of one student
(`"student"`). It is chosen from `Ordenes` at the start and never changes, so
that one run has several kinds of environment and a property says under which it
holds. SysApolo itself is external; its tables are modelled from the entities
and the queries of the service. `Previos` are the third parties it had before.

`TodoPagoLlega` is about a payment and not about its invoice: the header that it
waits for must record that payment (`pago`). Neither the header of a payment that
was reversed nor a mark without a header will do.

### DiscountBilling

A task is the tail of a payment (`find`, the discounts read right after its
commit; `bill`, the transaction, which comes after the call to the ledger) or
the release that a reversal starts and does not wait for (`relFind`, the rows
read on another connection; `release`, the transaction). Payments and reversals
are reduced to a count per invoice. `Matching` is the set of discounts of an
invoice's enrolment (what `findForEnrollment` and the eligibility filter leave
but for the state), `Rank` the order by date and id; `fechaUpdate`, which
`shouldReplaceDiscount` compares first, is no column of `Discounts`. `Unicos`
are the unique indexes of `fin_factura_descuento`: the entity declares one on
the invoice and one on the discount, while `Invoice` and the code have room for
several rows of one invoice; `synchronize` is off, so what the database has is
not in the repository. Inactive discounts are those that are nobody's
`Matching`. The office goes on meanwhile: it approves, and withdraws what it
approved, also between the read and the transaction (`Approve`, `Withdraw`). The
update looks at no state, so such a discount is billed all the same, and
`DiscountLife` admits it: what is billed was approved when it was read.
`fallidos` is a history variable: the invoices on which a call failed or was cut
off. `Apart` names what the environment keeps apart on one invoice (nothing, two
releases, all calls), `Repay` whether a paid invoice may be paid again under
another code.

### CashDesk

The composition runs both components under one name of a task: `lpc` is its part
in the ledger, `dpc` its part in the discounts. `CallLedger`, `LedgerIsOver` and
`Bill` are the order of `registerPaymentCash`: the discounts are read, the ledger
is awaited, then they are billed, and then the bank is answered. A reversal
starts both clean-ups and is answered at once. Here nothing is kept apart by
decree: the banks wait (`Sends`), for answers only, or for the clean-ups as well
(`esperan`, chosen at the start). `LibroAparte` shows that the latter is enough
for what `LibroExacto` of `SysLedger` supposes, because of the `await` at
`invoice.service.ts:100`. Bulk registrations and the job are left to `SysLedger`.

### InvoiceDraft and InvoiceLife

A request is a call of the portal (`calcula`, `duplicado`, `inserta`, or `borra`,
`lee`, `guarda` for a draft that exists) or a bank's consultation (`consulta`,
`recalcula`, `reborra`, `relee`, `reguarda`) and the payment of what it was
quoted (`paga: busca`, `paga`). The price itself is `tarifa`, which the
environment changes; how it comes about is `InvoicePrice`. A row of `lineas`
stands for the lines of one save. TypeORM's `save` is two steps: it loads what
the database has and compares (`LoadForSave`), then writes the columns that
differ and detaches the rows its arrays do not have (`Save`). Detaching sets
`pago_id` to null, which the column refuses: so a save that found a row written
meanwhile, be it a line or a payment, rolls back (`SaveRefused`).
`aparte`, chosen at the start, names what the environment keeps apart: nothing,
payments of an invoice from its writers, or all requests of the student.

### Pricing and InvoicePrice

`Pricing` has one operator per function, under the function's name. Rates are
percentages and totals hundredths, so that sums are exact; rounding takes place
where the code rounds, on the barcode. In `InvoicePrice` a handler is one
action: it prices an enrolment, an inscription or anything else, prints it, or
quotes it to a bank, which writes new lines when the ones on file come to
another total. Deadlines are days; discounts are approved and withdrawn,
credits enrolled and dropped. `vigentes` is a history variable: which of lines,
print and quote come from the discounts and credits of now; two of them are only
compared when both do. A behaviour is about one invoice, whose category is the
one it was first generated in.

### ReceiptMail

A task is a payment's handler, the job with its batch, or a call of the portal.
`Find`, `Receipt` and `Send` are the awaits; the update of `email_send` is under
way on its own (`marcas`) and settles later (`Mark`). A malformed invoice
(`Malas`) never renders. `Redraw` is a draft that is written again, which saves
it as pending. `recibos` counts the receipts of the payment in force that nobody
asked for. The payments of an invoice are numbered (`veces`): `rinde` is the payment
that a task has rendered, `enviada` the payment that the last receipt of the invoice
was of, so that the receipt of a payment that was taken back is not taken for that of
the next one. A mail that the server accepted and
reported as failed is not told apart from one that failed. `aparte`, chosen at the
start, says whether the environment keeps the calls on an invoice apart.
`ReciboDelDia` is about the first payment of an invoice in any environment, and about
later ones where its calls are kept apart: otherwise an update that is still under way
for the earlier payment marks the later one, and the job passes it over.

### StudentType

One student, whose career goes on between the reads: he enrols, is graded, drops
and cancels, and the office configures dates. Three reads are in order, since
they share a connection; the one of the period comes at any time. The count of
subjects per course is compared with itself in the code, and so it is in
`CursoIncompleto`. Calls come one after the other: they only read, so two of them that
overlap are each what a call alone could see; `AtrasoNoSeBorra` is about a later
call, which starts when the earlier one was answered.

### ConnectionPool

A handler is a route of stretches, each one a use of a connection: by a
repository, by a runner that is released in a `finally`, by one that is only
released if its query worked (`fuga`), by one that waits for a repository at the
same time (`tipo`, `baja`). A request has two hands (`Uno`, `Dos`) for that. The
driver lends a free connection or queues the caller for as long as it takes, as
its defaults do. How many it may open is chosen at the start (`limite`). A query
that fails leaves its repository behind (`Fail` in a `tipo`), whose connection
comes and goes with nobody listening. A failure ends its handler, but for
`registerPaymentCash`, which goes on after the ledger or the billing failed
(`MayGoOn`). Where one `Promise.all` awaits several of these at once
(`findForEnrollment` beside the student type, two repositories in an inscription),
the route has them one after the other: a request could have three connections
there, but a repository waits for nothing while it has its own, so that the third
never is a cause of a standstill.

## Runs

| Run | Question | Bounds |
|---|---|---|
| `payments_overlap` | what holds however requests overlap and fail: `EstadoRespaldado`, `ImpagoExplicado`, `RespuestaFiel`; and that they end: `TodaPeticionTermina` | 2 invoices, 2 requests, 2 codes (one the normal form of the other), dates of today and yesterday, 3 ticks so that a due date passes, 1 crash |
| `payments_serial` | with one request in flight: `SinDuplicados`, `ReversoEnPlazo`, `RechazoJustificado`, and the refinement `BookSpec` | 3 requests, 3 codes (two raw ones collide in one normal form), dates of today and yesterday, 2 ticks, 1 crash |
| `ledger_races` | races for ids, failures and crashes: `TerceroDelEstudiante`, `MarcaRespaldada`, `DetalleCompleto`, `BorraLoSuyo`; with calls on one invoice kept apart, `LibroExacto` | 2 invoices of a student who is new to the ledger, 2 tasks, 3 payments, ids up to 2, 1 fault, 1 new year; clean-ups apart, and registrations of the student or all calls on an invoice as well |
| `ledger_live` | `TodoPagoLlega` under fairness, among registrations by hand and clean-ups | 3 invoices, two of them malformed and batches of 2, 2 tasks, 3 payments, 1 fault or stop; no new year, after which the job looks at that year's payments only, and the property too |
| `ledger_twice` | violation: two overlapping registrations leave two headers (`SinFacturaRepetida`) | 1 invoice, 2 tasks |
| `discounts_apart` | with the calls on one invoice kept apart, and the discount's index: `FilaFacturada`, `FacturadoConFila`, `LibreTrasReverso`, `UnaPorCategoria`, and the refinement `LifeSpec` | 2 invoices of one enrolment, 3 discounts (two of a category, one of none), 5 tasks, 1 fault |
| `desk` | whole payments and reversals: `SinPagoSinRastro`; of banks that wait for the clean-ups too: `PagadaEnLibro`, and the order of calls `LibroAparte` | 2 invoices of one enrolment that compete for its discount, both indexes, 4 handlers, 2 payments, 1 fault per component |
| `drafts` | any overlap, fault and crash: `EstadoFiel`; payments of an invoice apart from its writers: `PagadaConLineas`; one request at a time: `NuevaSoloSiNoHay` and the refinement `LifeSpec` | 3 invoices, 4 requests, 2 prices, 2 changes of price, 1 fault |
| `price` | `ImpresoVale`, `SinGratuidadEnPosgrado`, `CotizaLoEscrito`, `ValorEsLineas` | 3 levels (by credits, complete, specialization), 8 packages of four categories, 6 discounts, 3 days around both deadlines and over a month's end, 2 changes |
| `mail` | any overlap, fault and crash: `MarcaConEnvio`; the calls on an invoice apart: `UnRecibo`, `ReciboDePago`; under fairness: `ReciboDelDia` | 2 invoices, one malformed, 2 tasks, 2 payments of each, 2 days, 1 fault |
| `student_reads` | `NuevoSinHistoria`, `AtrasoNoSeBorra` | 2 subjects, 2 enrolments |
| `pool` | `Reparto`, `UnicoAtasco`; under fairness, in the largest pool, `TodoPedidoTermina` | 2 requests on 1 to 4 connections, 1 failed query |

Types are checked with the first property of each module, and all are proved.

Two requests that overlap are enough for what their transactions do to each
other, and the properties of that run are proved for any number. Three in turn
are what the stories of a retry need: register, reverse and register again. The
ledger needs two invoices, since ids and third parties are shared, of one student,
who must not be entered twice; two calls at a time are enough for every race of a
registration or clean-up with another, and ids up to 2 for the last one to be given
out, and given out again. Five tasks let one invoice be paid
twice and reversed twice while the other takes the discount. Deadlock is not
checked: with its requests used up or its payments reversed, the system stops.

What the properties on calls kept apart assume is what the code relies on and
does not enforce. Without it TLC finds that two deliveries of one payment that
overlap are both recorded (no unique index on the transaction code), that one of
two reversals can reset an invoice just paid again, that a registration which
started before a reversal marks the invoice afterwards, and that a clean-up
which holds an id that was given out again deletes another invoice's header. A
release that overlaps the billing of the payment it follows leaves a discount
FACTURADO on no invoice, or an unpaid invoice with its discounts, and two
releases of one invoice can free a discount that another invoice has taken.
Banks that wait for answers, which `CashDesk` has instead of decrees, do not
keep the next payment from its predecessor's clean-ups: TLC finds that such a
payment finds the old header, is marked REGISTRADO, and loses the header to the
clean-up, so that `PagadaEnLibro` needs them to wait. For the same reason
`TodoPagoLlega` asks for a header of the second payment of an invoice only where
the calls on it are kept apart; for the first one it asks whatever overlaps. Two
registrations of a new student that overlap enter him twice, or the second fails
on the code: the uniqueness in `TerceroDelEstudiante` is for registrations that
are kept apart. Drafts: without anything kept apart, a payment that commits
after the lines were deleted is a paid invoice without lines
(`PagadaConLineas`), which no receipt, reversal or ledger finds, and a quote
that is paid after another request priced the invoice again pays another sum
than its lines (`LifeSpec`); two requests of one student create two invoices.
`EstadoFiel`, on the other hand, holds without any assumption. Receipts: two
jobs, or a job and a handler, that overlap send two. These are listed as hazards
at their lines in PROJECT.json.

Two requests that hold a connection each and ask for a second one are the
smallest deadlock of a pool of two; one failed query is the leak, alone in a pool
of one. The prices of `price` are chosen odd so that rounding shows.
Two enrolments are what a career needs to be behind and to come back; the run
has every interleaving of the reads with it.

## Findings

* `ledger_twice`: `invoiceSys.service.ts:93` refuses an invoice that "ya se
  encuentra en sysApolo", but looks for it outside the transaction that inserts;
  the payment's handler, the nightly job and the manual endpoint can overlap, and
  both insert.

Noted while modelling, without a run of their own:

* The comment at `invoice.util.ts:38` (and 50, 123) says that the surcharge comes
  first and the discount is calculated on the result. All three functions take the
  discount off the value without the surcharge, and `Pricing` follows them.
* The comment at `invoice.util.ts:31` has the totals rest on the only surcharge
  being that of the extraordinary enrolment; `consultInvoice.service.ts:583` adds
  those of discounts that raise the price, on any day.
* `invoice.service.ts:441` refuses a receipt that was sent unless the call is
  important, comparing a column that its query (`invoice.repository.ts:207`) does
  not select; in `ReceiptMail` only a missing payment stops `Find`.

## Fairness

`Payments!FairSpec` is weakly fair to the next regular step of each handler:
the event loop resumes a continuation whose database call has settled. It owes
nothing to failures, so a liveness property cannot be met by failing.
`SysLedger!FairSpec` adds weak fairness of the nightly job's start, which the
scheduler repeats every midnight; the property lets a stopped job off, since
nothing but a call or a restart starts it again. It is strongly fair to the loop that
takes the next invoice (`NextInvoice`): where the environment keeps calls on an invoice
apart, the loop may have to wait for others to end, again and again; in the code it
waits for nobody.
Failures are bounded, since a database that is down for ever serves nobody.
Batches are arbitrary subsets of the pending rows, as the query has no order.
Malformed rows stay pending for ever; as long as there are fewer than a batch has
places, every well-formed one has its turn. The run has as many as places, and the
property lets a payment off only if from some time on they all wait (`Starved`), which
is what the code does to it then.
`ReceiptMail!FairSpec` is weakly fair to handlers and to updates under way, and
strongly fair to the job's start: the scheduler starts it every ten minutes
whatever else runs, on a task of its own, while in the model all calls share the
tasks. The day may end at any moment, and the property lets it.
`ConnectionPool!FairSpec` is weakly fair to the steps of requests and to the
answers of the database; requests need not come, and the property is about pools
with more connections than requests and failures.

## Proofs

`PaymentsProofs` proves for any sets of invoices, codes and requests, any
normalisation, any due dates and no bound on the clock or the crashes beyond
the constants:

* `TypeCorrect`: the type invariant.
* `PaidIsBacked`, `UnpaidIsExplained`, `AnswersAreTrue`: the three invariants of
  `payments_overlap`. They are not inductive alone. `SafeInv` adds `FoundInv` (the
  rows a reversal has found are of its invoice and code, so resetting that
  invoice is right for every row deleted) and `ProgressInv` (a handler that is
  still at work has answered nothing, and has committed exactly if it stands
  behind its transaction).
* `RejectionsAreJustified`, under `~ Overlap`. `SearchInv` adds that a reversal
  which looks for the normalised code found nothing it could reverse under the code as
  sent; that is still so at the second search because nobody else is at work on
  the invoice (`NoneRecorded`).
* `NoDuplicates`, `ReversalsAreInTime`, `ImplementsBook`, all under
  `~ Overlap`. `SerialInv` adds to `SafeInv` that one handler at most is at work
  on an invoice (`OneInFlight`) and hence that what a handler read is still true
  when its transaction runs (`ReadInv`): no matching row for a registration, all
  matching rows and one in the window for a reversal.

The proofs use `PaymentsAssumption`: the constants have their types, and there
is an invoice and a code.

`DiscountProofs` proves for any invoices, discounts, tasks and failures, given
the unique index on the discount:

* `BilledIsTaken`, with the releases of an invoice kept apart. `SafeInv` adds
  that a discount has one row, that an invoice has one release at work, and
  `HeldInv`: what a release has read still has its row on that invoice, so the
  transaction deletes the row of every discount it approves again.
* `NoneIsWasted`, `ReversalFrees`, `ImplementsLife`, with the calls on an invoice
  kept apart. `SerialInv` adds that they are (`Alone`), that a release has read
  exactly the rows of its invoice (`ReadInv`), that what is about to be billed is
  approved, withdrawn since, or taken by now, in which case the index refuses it
  (`ToBill`), and
  that a billing's invoice is paid (`PaidInv`).
* `OnePerCategory`, with an invoice paid once at a time as well: a billing starts
  on an invoice without rows (`EmptyInv`) and what it has read is deduplicated.

They use `DiscountAssumption`: types, and that no two discounts have one rank.

`LedgerProofs` proves for any invoices, students, tasks, batches and ids, from
`SysLedgerAssumption` (types of the constants):

* `LedgerTypes`: the type invariant, with `WorksInv` (a task at work has an
  invoice). That `Max` of the ids exists and that the next one has its type is
  proved from the well-foundedness of the naturals, as `MaxUpTo` and `IdsTyped`.
* `TerceroProved`, in every environment: a header bills its invoice's student, and no
  code is given to two third parties. `Billable` says what a registration
  carries from one await to the next: a third party that was found exists, since
  none is ever deleted, and the payment it read is one. That a student has one third
  party is for registrations of a student kept apart: whoever found nobody is
  still right when its transaction enters him, because there is one registration of
  a student under way at most (`OneEntering`), and what it found is so still (`NuevoAt`).
* `MarcaProved`, `DetalleProved` and `BorraProved`, while the clean-ups of one
  invoice are kept apart (`"delete" \in orden`): the first two say so in the
  theorem, the third in the property. `CleanInv` adds that ids are unique, that an
  invoice has one clean-up, and `CleanAt`: the header that a clean-up found is of its
  invoice and stands until it deletes it, and a registration that is about to
  write the mark has a header to show for it unless there was a reversal.
  Without the hypothesis an id that was given out again breaks all three.
* `LibroProved`, with all calls on one invoice apart, as the property says.
  `BookInv` adds that an invoice has one call and one header, that a header which
  nobody cleans up shows in its invoice's mark or will (`MarkShows`), and that its
  payment is in force (`InForce`) unless something failed.

`DeskProofs` proves for any invoices, discounts, handlers and failures, from
`DeskAssumption` (types of the constants, and no two discounts of one rank). It
instantiates `LedgerProofs` and `DiscountProofs` twice each, for parts that keep
nothing apart (`LF`, `DF`) and for parts whose calls on an invoice are apart (`LO`,
`DO`); `SameStep` and `SameBilling` say that a step is the same step in all of them,
so that the lemmas proved of a part are cited of the desk.

* `SinRastroProved`, whatever banks wait for. `LinkInv` ties the parts together: a
  handler registers the payment whose discounts it is about to bill (`Linked`), one
  at a time on an invoice (`OnePayment`), which is paid meanwhile (`PaidHere`); this
  is where the `await` and the banks' waiting for answers come in. `TraceInv` adds
  that whatever there is of an invoice is paid for, or in the hands of a clean-up, or
  something failed (`MarkPaid`, `RowsPaid`, `HeadersPaid`), and that an invoice
  has one header, which a clean-up cannot miss (`OneHeader`, `Unregistered`).
* `AparteProved`: with banks that wait for the clean-ups too, each step of the desk is
  one of the ledger with calls kept apart, or leaves it alone. `BillingApart` is what
  it adds to `LinkInv`.
* `PagadaProved`: for such banks, and the unique index on the discount, the
  invariants of `LibroProved` and `NoneIsWasted` hold of the two parts (`ApartInv`),
  and the property follows from both.

`DraftProofs` proves for any invoices, requests, prices and failures, from
`DraftAssumption`; the properties say themselves what `aparte` keeps apart:

* `EstadoProved`, with nothing kept apart. `LoadedAt` is why: a save writes only
  what differs from what it loaded. If that was an unpaid state, it leaves the
  column alone, whatever was paid since; if it was a paid one, it loaded the
  payment too, would detach it, and is rolled back, unless the payment was taken back.
  `UnsavedUnpaid` and `PaidShows` tie rows of payments to the state of their invoice.
* `PagadaProved`, with payments apart from writers. `LineInv` adds that they are
  (`KeptApart`), that a paid invoice has lines, and what a writer and a payment
  have in hand (`LinesAt`): lines are only missing while a writer holds the invoice.
* `NuevaProved` and `LifeProved`, with one request at a time. `SoloInv` adds that
  there is one (`OneActive`), that a save's rows are there once (`RowsOnce`), and
  that what it read still is what the tables hold (`SoloAt`). `NuevaProved` is
  about the two categories whose invoices the code looks for before it creates
  one (`Categoria`); for any other there is nothing to look for. `LifeProved` is
  step by step: a step is one of `InvoiceLife`, or leaves its variables alone.
  The sums of lines that it compares are folds over sets. Induction over sets is
  out of reach, so their laws are proved by a smallest counterexample, which
  `MinimalSubset` takes from the well-founded order of subsets.

`MailProofs` proves for any invoices, tasks and batches, from `MailAssumption`:

* `MarcaProved`, with nothing kept apart: an update is only under way once a mail
  went out (`MarkInv`), and what is rendered is the receipt of some payment
  (`NumberInv`).
* `ReciboProved` and `PagoProved`, for calls kept apart, as the properties say. An
  invoice is in the hands of one task, batch included, or its mark is under way
  (`AloneInv`), whoever has it has sent nothing (`OnceInv`), and a mail that is
  ready has its payment (`ReadyInv`).

`EnrolmentProofs` is about what an enrolment costs and who enrols. From
`PriceAssumption` (types of the constants; finite tables; codes and ids are unique,
and a concept occurs once in a package) it proves:

* `PriceTypes`, `ValorProved` and `CotizaProved`, whatever the tables hold. A bill
  of any handler is well formed and, outside category OTROS, worth its lines
  (`IsBill`, from `RegistrationBill`, `VariousBill`, `OtherBill`, `EnrolmentBill`);
  `PriceSound` says so of the invoice on file.
* `EstableProved` and `BarrasProved`, two promises that no run lists: a quote of an
  enrolment only changes with a discount, a credit or the deadline, and no page
  has an extraordinary barcode below the ordinary one. TLC agrees with both on
  the constants of `price`.
* `ImpresoProved` and `GratuidadProved`, from `PriceInv`. It adds `TracedInv`: lines,
  print and quote, as far as `vigentes` says that they are of now, come from the one
  package there is, each with the surcharge of *some* day (`LineasInv`, `ImpresoInv`)
  or of the day of the quote (`CotizaInv`). That is enough because the totals on a
  page do not depend on the day of the lines (`PrintedAlike`); the quote of either
  side of the deadline is then one of the two totals (`QuotedOrdinary`,
  `QuotedExtraordinary`), line by line.
* `UnoPorCategoria`: `deduplicateDiscountsByCategory` leaves exactly one discount of
  a category, and none is newer.

`ImpresoProved` and `GratuidadProved` need to know what the tables hold, which
is data and not code: `ImpresoProved` assumes the first three of these,
`GratuidadProved` the first and the last.

* `CodigosPropios`: the package codes that the source has for enrolments are of
  enrolments, and that of inscriptions is not. Otherwise a bill of category 1 could
  come from another handler.
* `SoloExtraordinaria`: no discount for enrolments raises the price, and no
  package of theirs has a surcharge of its own. The comment at `invoice.util.ts:31`
  takes it for granted: the ordinary barcode leaves every surcharge out, and the
  extraordinary one replaces it, while the bank is quoted all of them.
* `RecargoVigente`: packages of enrolments have the surcharge of the current
  configuration; the page uses the one, the price the other.
* `PorcentajesDePaquete`: a package's own discount is at most 100, above which the
  line would be clamped.

The constants of `price` satisfy all four. Totals are sums over sets of lines; as in
`DraftProofs`, their laws (`SumStep`, `SumLeq`, `SumImage`...) are proved by a
smallest counterexample. Lines that differ in nothing would be one in a set, so
`SameByDetail` needs the concepts to be different.

The same module proves `NuevoProved` and `AtrasoProved` of `StudentType` (whose
`StudentInit`, `StudentNext` and `StudentSpec` are named apart for it) for any finite
set of subjects and any number of enrolments. `AcademyInv` is what the academic system
keeps (the first enrolment only is new; a subject is taken again only when it was
lost or cancelled), `SeenInv` what the reads of a call know of it later: a lost
subject that was read is still there, and who was behind has one. `RepetidaTwice`
and `ClasificaEs` say what the counts and the nested conditions of the code amount
to; the counts are why the subjects must be finitely many.

`PoolProofs` proves for any connections and requests, from `PoolAssumption`:

* `RepartoProved` and `AtascoProved`. `Lent` has every connection in one place
  (free, lost, or in one hand), nobody twice in the queue, and nobody queueing while one
  is free; `Served` ties hands to the stretch a request is in, so that a pool that
  stands still has nobody left to return a connection.
* `SobranProved`, for finitely many requests: with more connections than requests
  and failures the pool never stands still. A failure loses one connection at most
  (`LossBound`) and each request that holds and waits has one. This is what
  `TodoPedidoTermina` needs of safety; that every turn comes is left to TLC.

Only model-checked:

* all liveness (`TodaPeticionTermina`, `TodoPagoLlega`, `ReciboDelDia`,
  `TodoPedidoTermina`): fairness and ENABLED are beyond the prover;
* `SinFacturaRepetida`, which is violated.

## Not modelled

* SysApolo's connections: every registration opens a data source with a pool of
  its own and destroys none. Nothing reads how many there are, so the growth is
  a hazard without a property.
* The layout of barcodes and the check digits of a NIT: formatting of strings.
  What a wrong value would do, its rounding and its limit, is in `InvoicePrice`.
* Receipts, PDF and templates: rendering without state. That it fails is a step
  of `ReceiptMail`.
* Authentication, request log, filters, bootstrap and configuration: I/O that no
  other component reads back.
* Jobs and endpoints that are commented out, and `deleteInvoices` and
  `findInvoicesCash`, which only they call.

## What is left

Every safety invariant, action property and refinement that a run checks has a
theorem; some theorems are about an environment that keeps calls apart, or tables
that hold what they should, as said above. Worth adding next: the pools of
SysApolo, should they ever be shared, and conditions on the tables that the
database could enforce in place of the hypotheses about them.
