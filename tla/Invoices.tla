------------------------------ MODULE Invoices ------------------------------
(***************************************************************************)
(* The invoices of the admin billing API (admin_service/routes/billing.py, *)
(* alembic revision 007): rows are only ever inserted, by create_invoice,  *)
(* and read by list_invoices, whose filters are optional and whose answer  *)
(* is cut after the newest rows.                                           *)
(***************************************************************************)
EXTENDS Integers, Sequences, FiniteSets, Ranks

CONSTANTS
    Payers,        \* tenants.id
    Strangers,     \* ids that no tenant has
    Periods,
    ListLimit,     \* LIMIT of the listing, 100 in the code
    MaxInvoices    \* bound on the rows

ASSUME InvoicesAssumption ==
    /\ ListLimit \in Nat \ {0}
    /\ MaxInvoices \in Nat
    /\ Payers \cap Strangers = {}

\* The CHECK of the column, and the default of the request body.
Allowed == {"draft", "sent", "paid", "overdue"}

DefaultStatus == "pending"

NotAsked == "any"

VARIABLES
    invoices,      \* rows in the order of created_at
    failed,        \* the last create_invoice failed
    filters,       \* filters of the last listing
    page           \* positions of the rows it answered

invoicesVars == <<invoices, failed, filters, page>>

Invoice(t, status, period) == [tenant |-> t, status |-> status, period |-> period]

InvoicesInit ==
    /\ invoices = <<>>
    /\ failed = FALSE
    /\ filters = Invoice(NotAsked, NotAsked, NotAsked)
    /\ page = <<>>

\* Mutant: the status of the body is stored as it is.
Valid_AnyStatus(row) == TRUE

Valid(row) == row.tenant \in Payers /\ row.status \in Allowed

\* create_invoice: the foreign key and the CHECK decide, for the body does not.
CreateInvoice(row) ==
    /\ Len(invoices) < MaxInvoices
    /\ invoices' = IF Valid(row) THEN Append(invoices, row) ELSE invoices
    /\ failed' = ~Valid(row)
    /\ UNCHANGED <<filters, page>>

\* One optional filter per column; all of those given must hold.
Matches(row, filter) ==
    \A column \in DOMAIN row : filter[column] \in {NotAsked, row[column]}

PageLength(rows) == IF Cardinality(rows) < ListLimit THEN Cardinality(rows) ELSE ListLimit

\* Mutant: the oldest rows are kept by the limit.
Newest_Oldest(rows) == [k \in 1..PageLength(rows) |-> InOrder(rows)[PageLength(rows) + 1 - k]]

Newest(rows) == [k \in 1..PageLength(rows) |-> InOrder(rows)[Cardinality(rows) + 1 - k]]

ListInvoices(filter) ==
    /\ filters' = filter
    /\ page' = Newest({n \in DOMAIN invoices : Matches(invoices[n], filter)})
    /\ UNCHANGED <<invoices, failed>>

InvoicesNext ==
    \/ \E t \in Payers \cup Strangers, s \in Allowed \cup {DefaultStatus}, p \in Periods :
         CreateInvoice(Invoice(t, s, p))
    \/ \E t \in Payers \cup {NotAsked}, s \in {"draft", NotAsked}, p \in Periods \cup {NotAsked} :
         ListInvoices(Invoice(t, s, p))

InvoicesSpec == InvoicesInit /\ [][InvoicesNext]_invoicesVars

-----------------------------------------------------------------------------
(***************************************************************************)
(* What a listing answers has the tenant, status and period asked for,    *)
(* newest first, and a row that matches is left out only when a full page  *)
(* of newer ones stands before it; no row has a status or a tenant the     *)
(* schema does not know, so that a body without a status, whose default    *)
(* the schema does not know, always fails.                                 *)
(***************************************************************************)
InvoicesInv ==
    /\ invoices \in Seq([tenant : Payers, status : Allowed, period : Periods])
    /\ failed \in BOOLEAN
    /\ \A n \in DOMAIN page : Matches(invoices[page[n]], filters)
    /\ \A m, n \in DOMAIN page : m < n => page[m] > page[n]
    /\ Len(page) <= ListLimit
    /\ page # <<>> => \A k \in 1..page[1] :
         Matches(invoices[k], filters) /\ (\A n \in DOMAIN page : page[n] # k) =>
             /\ Len(page) = ListLimit
             /\ k < page[Len(page)]
=============================================================================
