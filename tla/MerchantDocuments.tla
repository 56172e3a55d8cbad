-------------------------- MODULE MerchantDocuments --------------------------
(***************************************************************************)
(* What a merchant keeps besides payments: customers and their payment     *)
(* methods, invoices, payment links and checkout templates.  Each handler  *)
(* looks something up, awaits, and then writes: no lock, no transaction    *)
(* and, but for the slug of a link, no constraint in the database joins    *)
(* the two.  A call is made at most once.  Customers, invoices, links and  *)
(* new templates are one merchant's; a template is found by its id alone,  *)
(* whosever it is, and an update may move it to another merchant and back. *)
(***************************************************************************)
EXTENDS Absent, Naturals, FiniteSets

CONSTANTS DocumentCall,
          DocumentRow,       \* bound: rows of each table
          DocumentName,      \* e-mail addresses, template names and slugs
          Regular,           \* the customer there is at the start
          Same               \* an update's body leaves the column alone

ASSUME DocumentAssumption == /\ IsFiniteSet(DocumentRow) /\ Regular \in DocumentRow
                             /\ {Same, None} \cap (DocumentName \cup DocumentRow) = {}

DocumentTables == {"customer", "method", "invoice", "link", "template"}
InvoiceStatus == {"draft", "sent", "paid", "overdue", "cancelled"}

CustomerRow == DocumentName \cup {None}
MethodRow == [customer : DocumentRow \cup {None}, isDefault : BOOLEAN]
InvoiceRow == [customer : DocumentRow \cup {None}, number : Nat, status : InvoiceStatus]
LinkRow == [slug : DocumentName \cup {None}, isActive : BOOLEAN]
\* mine: the template is the merchant's, and no other's.
TemplateRow == [name : DocumentName \cup {None}, isActive : BOOLEAN, mine : BOOLEAN]

\* The body of a template update is not validated: it may name any column, the
\* id and the merchant too.
TemplateEdit == [id : DocumentRow \cup {Same}, name : DocumentName \cup {Same},
                 isActive : BOOLEAN \cup {Same}, mine : BOOLEAN \cup {Same}]

VARIABLES
    customer, method, invoice, link, template,  \* rows; None: there is none
    call,     \* per call: where it is and what it holds
    \* History.
    crossed,  \* names and customers on which two calls were at the same step
    renamed,  \* names on which an update changed a template's name, id or merchant
    cut,      \* customers whose new default method failed to be saved
    had,      \* customers that have had a default method, none removed since
    revived   \* templates an update made active or wrote by an id in its body,
              \* or saved over another save

tables == <<customer, method, invoice, link, template>>
docHistory == <<crossed, renamed, cut, had, revived>>
docVars == <<tables, call, docHistory>>

NoMethod == [customer |-> None, isDefault |-> FALSE]
NoInvoice == [customer |-> None, number |-> 0, status |-> "draft"]
NoLink == [slug |-> None, isActive |-> FALSE]
NoTemplate == [name |-> None, isActive |-> FALSE, mine |-> FALSE]

DocumentStep == {"new", "customer", "clear", "method", "count", "invoice", "link",
                 "template", "edit", "withdraw", "end"}
DocumentLocal == [at : DocumentStep, name : DocumentName \cup {None},
                  id : DocumentRow \cup {None}, number : Nat,
                  isDefault : BOOLEAN, row : TemplateRow]
NewDocumentCall == [at |-> "new", name |-> None, id |-> None, number |-> 0,
                    isDefault |-> FALSE, row |-> NoTemplate]

DocumentsTypeOK ==
    /\ customer \in [DocumentRow -> CustomerRow]
    /\ method \in [DocumentRow -> MethodRow]
    /\ invoice \in [DocumentRow -> InvoiceRow]
    /\ link \in [DocumentRow -> LinkRow]
    /\ template \in [DocumentRow -> TemplateRow]
    /\ call \in [DocumentCall -> DocumentLocal]
    /\ crossed \subseteq (DocumentTables \X (DocumentName \cup DocumentRow \cup {None}))
    /\ renamed \subseteq DocumentName
    /\ cut \cup had \cup revived \subseteq DocumentRow

DocumentsInit ==
    /\ \E n \in DocumentName :
          customer = [c \in DocumentRow |-> IF c = Regular THEN n ELSE None]
    /\ method = [m \in DocumentRow |-> NoMethod]
    /\ invoice = [i \in DocumentRow |-> NoInvoice]
    /\ link = [k \in DocumentRow |-> NoLink]
    /\ template = [t \in DocumentRow |-> NoTemplate]
    /\ call = [q \in DocumentCall |-> NewDocumentCall]
    /\ crossed = {} /\ renamed = {} /\ cut = {} /\ had = {} /\ revived = {}
-----------------------------------------------------------------------------
DocumentGoes(q, local) == call' = [call EXCEPT ![q] = local]
DocumentEnds(q) == call' = [call EXCEPT ![q].at = "end"]

\* The call goes to a step at which another one already is for the same thing.
Meets(q, at, on, x) ==
    crossed' = IF \E o \in DocumentCall \ {q} :
                       call[o].at = at /\ x \in {call[o].name, call[o].id}
               THEN crossed \cup {<<on, x>>} ELSE crossed

\* create of the three named kinds: a name that is taken is refused.
Reserve(q, kind, n, taken) ==
    /\ call[q].at = "new"
    /\ IF taken THEN DocumentEnds(q) /\ UNCHANGED crossed
       ELSE /\ DocumentGoes(q, [NewDocumentCall EXCEPT !.at = kind, !.name = n])
            /\ Meets(q, kind, kind, n)
    /\ UNCHANGED <<tables, renamed, cut, had, revived>>
-----------------------------------------------------------------------------
(* CustomersService.                                                        *)

\* Mutant: the address is not looked up.
CreateCustomerUnchecked(q, n) == Reserve(q, "customer", n, FALSE)

CreateCustomer(q, n) == Reserve(q, "customer", n, \E c \in DocumentRow : customer[c] = n)

SaveCustomer(q) ==
    /\ call[q].at = "customer"
    /\ \E c \in DocumentRow :
          customer[c] = None /\ customer' = [customer EXCEPT ![c] = call[q].name]
    /\ DocumentEnds(q)
    /\ UNCHANGED <<method, invoice, link, template, docHistory>>

\* addPaymentMethod: only a default method makes the others plain.
AddPaymentMethod(q, c, isDefault) ==
    /\ call[q].at = "new" /\ customer[c] # None
    /\ DocumentGoes(q, [NewDocumentCall EXCEPT
                           !.at = IF isDefault THEN "clear" ELSE "method",
                           !.id = c, !.isDefault = isDefault])
    /\ UNCHANGED <<tables, docHistory>>

\* Mutant: the old default stays.
KeepDefaults(q) ==
    /\ call[q].at = "clear"
    /\ DocumentGoes(q, [call[q] EXCEPT !.at = "method"])
    /\ Meets(q, "method", "method", call[q].id)
    /\ UNCHANGED <<tables, renamed, cut, had, revived>>

ClearDefaults(q) ==
    /\ call[q].at = "clear"
    /\ method' = [m \in DocumentRow |-> IF method[m].customer = call[q].id
                                        THEN [method[m] EXCEPT !.isDefault = FALSE] ELSE method[m]]
    /\ DocumentGoes(q, [call[q] EXCEPT !.at = "method"])
    /\ Meets(q, "method", "method", call[q].id)
    /\ UNCHANGED <<customer, invoice, link, template, renamed, cut, had, revived>>

SaveMethod(q) ==
    /\ call[q].at = "method"
    /\ \E m \in DocumentRow :
          /\ method[m] = NoMethod
          /\ method' = [method EXCEPT ![m] = [customer |-> call[q].id,
                                              isDefault |-> call[q].isDefault]]
    /\ had' = IF call[q].isDefault THEN had \cup {call[q].id} ELSE had
    /\ DocumentEnds(q)
    /\ UNCHANGED <<customer, invoice, link, template, crossed, renamed, cut, revived>>

\* findOne and remove; a removed default is not replaced.
RemovePaymentMethod(q, m) ==
    /\ call[q].at = "new" /\ method[m] # NoMethod
    /\ method' = [method EXCEPT ![m] = NoMethod]
    /\ had' = IF method[m].isDefault THEN had \ {method[m].customer} ELSE had
    /\ DocumentEnds(q)
    /\ UNCHANGED <<customer, invoice, link, template, crossed, renamed, cut, revived>>
-----------------------------------------------------------------------------
(* InvoicingService.                                                        *)

Invoices == {i \in DocumentRow : invoice[i] # NoInvoice}

CreateInvoice(q, c) ==
    /\ call[q].at = "new" /\ customer[c] # None
    /\ DocumentGoes(q, [NewDocumentCall EXCEPT !.at = "count", !.id = c])
    /\ UNCHANGED <<tables, docHistory>>

\* Mutant: only the customer's invoices are counted.
GenerateNumberOfCustomer(q) ==
    /\ call[q].at = "count"
    /\ DocumentGoes(q, [call[q] EXCEPT !.at = "invoice", !.number =
                           1 + Cardinality({i \in Invoices : invoice[i].customer = call[q].id})])
    /\ crossed' = IF \E o \in DocumentCall : call[o].at = "invoice"
                  THEN crossed \cup {<<"invoice", None>>} ELSE crossed
    /\ UNCHANGED <<tables, renamed, cut, had, revived>>

\* The number of a new invoice: one more than the merchant has now.
GenerateInvoiceNumber(q) ==
    /\ call[q].at = "count"
    /\ DocumentGoes(q, [call[q] EXCEPT !.at = "invoice", !.number = Cardinality(Invoices) + 1])
    /\ crossed' = IF \E o \in DocumentCall : call[o].at = "invoice"
                  THEN crossed \cup {<<"invoice", None>>} ELSE crossed
    /\ UNCHANGED <<tables, renamed, cut, had, revived>>

\* The notification that follows is for a user with the customer's id, whom the
\* database does not know: the call fails although the invoice is saved.
SaveInvoice(q) ==
    /\ call[q].at = "invoice"
    /\ \E i \in DocumentRow \ Invoices :
          invoice' = [invoice EXCEPT ![i] = [customer |-> call[q].id, status |-> "draft",
                                             number |-> call[q].number]]
    /\ DocumentEnds(q)
    /\ UNCHANGED <<customer, method, link, template, docHistory>>

\* updateStatus: any status after any other.
UpdateInvoiceStatus(q, i, s) ==
    /\ call[q].at = "new" /\ i \in Invoices
    /\ invoice' = [invoice EXCEPT ![i].status = s]
    /\ DocumentEnds(q)
    /\ UNCHANGED <<customer, method, link, template, docHistory>>
-----------------------------------------------------------------------------
(* PaymentLinkService and CheckoutService.                                  *)

CreateLink(q, slug) == Reserve(q, "link", slug, \E k \in DocumentRow : link[k].slug = slug)

\* The column is unique: a slug taken meanwhile makes the save fail.
SaveLink(q) ==
    /\ call[q].at = "link"
    /\ IF \E k \in DocumentRow : link[k].slug = call[q].name THEN UNCHANGED link
       ELSE \E k \in DocumentRow : link[k] = NoLink
               /\ link' = [link EXCEPT ![k] = [slug |-> call[q].name, isActive |-> TRUE]]
    /\ DocumentEnds(q)
    /\ UNCHANGED <<customer, method, invoice, template, docHistory>>

\* findOne and save: no other call changes a link.
DeactivateLink(q, k) ==
    /\ call[q].at = "new" /\ link[k] # NoLink
    /\ link' = [link EXCEPT ![k].isActive = FALSE]
    /\ DocumentEnds(q)
    /\ UNCHANGED <<customer, method, invoice, template, docHistory>>

CreateTemplate(q, n) ==
    Reserve(q, "template", n, \E t \in DocumentRow : template[t].mine /\ template[t].name = n)

\* A new id is nobody's, not even one another call is to save a row under.
SaveNewTemplate(q) ==
    /\ call[q].at = "template"
    /\ \E t \in DocumentRow :
          /\ template[t] = NoTemplate
          /\ \A o \in DocumentCall : call[o].at \in {"edit", "withdraw"} => call[o].id # t
          /\ template' = [template EXCEPT ![t] = [name |-> call[q].name, isActive |-> TRUE,
                                                  mine |-> TRUE]]
    /\ DocumentEnds(q)
    /\ UNCHANGED <<customer, method, invoice, link, docHistory>>

Overlaid(column, was) == IF column = Same THEN was ELSE column

\* Object.assign: the loaded row t with what the body names, and its id.
Assigned(row, edit) == [name |-> Overlaid(edit.name, row.name), mine |-> Overlaid(edit.mine, row.mine),
                        isActive |-> Overlaid(edit.isActive, row.isActive)]
Aimed(t, edit) == Overlaid(edit.id, t)

FindTemplate(q, t, id, at, row) ==
    /\ call[q].at = "new" /\ template[t] # NoTemplate
    /\ DocumentGoes(q, [NewDocumentCall EXCEPT !.at = at, !.id = id, !.row = row])
    /\ UNCHANGED <<tables, crossed, cut, had>>

Renames(t, edit) ==
    renamed' = IF /\ edit.id = Same /\ edit.mine = Same
                  /\ edit.name \in {Same, template[t].name} THEN renamed
               ELSE renamed \cup ({edit.name, template[t].name, template[Aimed(t, edit)].name}
                                  \ {Same, None})

\* Mutant: an update makes the template active.
UpdateTemplateActive(q, t, edit) ==
    /\ FindTemplate(q, t, Aimed(t, edit), "edit",
                    [Assigned(template[t], edit) EXCEPT !.isActive = TRUE])
    /\ Renames(t, edit)
    /\ UNCHANGED revived

\* update checks neither the name nor the id.
UpdateTemplate(q, t, edit) ==
    /\ FindTemplate(q, t, Aimed(t, edit), "edit", Assigned(template[t], edit))
    /\ Renames(t, edit)
    /\ revived' = IF edit.isActive = TRUE \/ edit.id \notin {Same, t}
                  THEN revived \cup {Aimed(t, edit)} ELSE revived

DeactivateTemplate(q, t) ==
    /\ FindTemplate(q, t, t, "withdraw", [template[t] EXCEPT !.isActive = FALSE])
    /\ UNCHANGED <<renamed, revived>>

\* repository.save writes the row that has the id, or inserts one, as it was
\* loaded and assigned; deactivation and update use the same rows.
SaveTemplate(q) ==
    /\ call[q].at \in {"edit", "withdraw"}
    /\ template' = [template EXCEPT ![call[q].id] = call[q].row]
    /\ revived' = IF \E o \in DocumentCall \ {q} :
                       call[o].at \in {"edit", "withdraw"} /\ call[o].id = call[q].id
                  THEN revived \cup {call[q].id} ELSE revived
    /\ DocumentEnds(q)
    /\ UNCHANGED <<customer, method, invoice, link, crossed, renamed, cut, had>>
-----------------------------------------------------------------------------
\* An await rejects or the replica dies.
DocumentCallFails(q) ==
    /\ call[q].at \notin {"new", "end"}
    /\ cut' = IF call[q].at = "method" /\ call[q].isDefault THEN cut \cup {call[q].id} ELSE cut
    /\ DocumentEnds(q)
    /\ UNCHANGED <<tables, crossed, renamed, had, revived>>

CustomerEndpoints(q) ==
    \/ \E n \in DocumentName : CreateCustomer(q, n)
    \/ \E c \in DocumentRow, isDefault \in BOOLEAN : AddPaymentMethod(q, c, isDefault)
    \/ \E m \in DocumentRow : RemovePaymentMethod(q, m)

InvoiceEndpoints(q) ==
    \/ \E c \in DocumentRow : CreateInvoice(q, c)
    \/ \E i \in DocumentRow, s \in InvoiceStatus : UpdateInvoiceStatus(q, i, s)

LinkEndpoints(q) ==
    \/ \E n \in DocumentName : CreateLink(q, n)
    \/ \E k \in DocumentRow : DeactivateLink(q, k)

TemplateEndpoints(q) ==
    \/ \E n \in DocumentName : CreateTemplate(q, n)
    \/ \E t \in DocumentRow : DeactivateTemplate(q, t)
    \/ \E t \in DocumentRow, e \in TemplateEdit : UpdateTemplate(q, t, e)

DocumentsNext ==
    \E q \in DocumentCall :
        \/ CustomerEndpoints(q) \/ InvoiceEndpoints(q)
        \/ LinkEndpoints(q) \/ TemplateEndpoints(q)
        \/ SaveCustomer(q) \/ ClearDefaults(q) \/ SaveMethod(q)
        \/ GenerateInvoiceNumber(q) \/ SaveInvoice(q)
        \/ SaveLink(q) \/ SaveNewTemplate(q) \/ SaveTemplate(q)
        \/ DocumentCallFails(q)

DocumentsSpec == DocumentsInit /\ [][DocumentsNext]_docVars
-----------------------------------------------------------------------------
\* customers.service.ts, checkout.service.ts, payment-link.service.ts: two
\* customers share an address, or two templates of the merchant a name, only if
\* their creations overlapped or an update of a template that had or got the name
\* changed its name, id or merchant, which a save that loaded the template before
\* the update undoes; two links never share a slug.
NamesTakenOnce ==
    \A a, b \in DocumentRow : a # b =>
        /\ customer[a] = customer[b] =>
               customer[a] = None \/ <<"customer", customer[a]>> \in crossed
        /\ template[a].mine /\ template[b].mine /\ template[a].name = template[b].name =>
               \/ template[a].name \in renamed \cup {None}
               \/ <<"template", template[a].name>> \in crossed
        /\ link[a].slug = link[b].slug => link[a].slug = None

\* invoicing.service.ts: the numbers of a merchant's invoices are 1, 2, 3 ...
\* without a gap or a repetition, unless the creation of two overlapped.
InvoicesNumbered ==
    <<"invoice", None>> \notin crossed =>
        {invoice[i].number : i \in Invoices} = 1..Cardinality(Invoices)

\* customers.service.ts addPaymentMethod: a customer has one default method
\* from the first on, between and after any additions, unless two of them
\* overlapped, one failed half-way, or the default was removed.
OneDefaultMethod ==
    \A c \in had \ cut :
        /\ <<"method", c>> \notin crossed
        /\ \A q \in DocumentCall : call[q].at # "method" \/ call[q].id # c
        => Cardinality({m \in DocumentRow : method[m].customer = c /\ method[m].isDefault}) = 1

\* checkout.service.ts: a template that was deactivated becomes active again
\* only by an update that says so, by one whose body names its id while another
\* template was to be updated, or by saves that overlapped.
DeactivationHolds ==
    [][\A t \in DocumentRow : template[t] # NoTemplate /\ ~template[t].isActive
           => ~template'[t].isActive \/ t \in revived']_docVars
=============================================================================
