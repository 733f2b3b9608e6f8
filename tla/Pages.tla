------------------------------- MODULE Pages -------------------------------
(* What the pages of the web client offer and what their handlers do with the answers, and what the   *)
(* API routes behind them ask and accept. Data only: Screens.tla runs it.                              *)
(*                                                                                                     *)
(* A form is a button or a form of a page: the copy it works on, the states of that copy in which the  *)
(* page shows it, and the busy state that disables it. A route says whether the request's version is   *)
(* compared, in which states of the record the operation is done, and the states it leaves. A handler  *)
(* ties the two: whether it sends the version of its copy, what it does at once when the answer is     *)
(* good, and what it loads then; "timer" stands for the rest of a handler run by setTimeout.           *)
(*                                                                                                     *)
(* A record is abstracted to its state and a version. A record's own content counts: a route that      *)
(* leaves the state as it was still changes the record; one that leaves no state changes nothing.      *)
EXTENDS Naturals, Sequences

Form(page, reads, on, flag, marks) ==
  [page |-> page, reads |-> reads, on |-> on, flag |-> flag, marks |-> marks, stops |-> {flag}]
Route(compares, takes, gives) == [compares |-> compares, takes |-> takes, gives |-> gives]
Handler(name, form, route, sends, atOnce, loads) ==
  [name |-> name, form |-> form, route |-> route, sends |-> sends, atOnce |-> atOnce, loads |-> loads]
\* A page, the states in which its two records start, what befalls them elsewhere, how its window is
\* filled, and the copies a loading notice hides.
Two(x, y) == [a |-> x, b |-> y]
Page(name, starts, moves, modal, hides) ==
  [name |-> name, starts |-> starts, moves |-> moves, modal |-> modal, hides |-> hides]

\* A form with nothing under it: its route makes a new record of these states.
NewForm(page, flag) == Form(page, "new", {"-"}, flag, "form")
NewRoute(gives) == Route(FALSE, {"-"}, gives)
Creates(name, form, route) == Handler(name, form, route, FALSE, {"clear"}, <<"list">>)
\* An edit of the quotation in the detail window: the window is loaded again, then the list. The edits
\* of the fields differ in what they send only, so they go by one name.
Edits(name, form, route) == Handler(name, form, route, TRUE, {}, <<"detail", "list">>)

-----------------------------------------------------------------------------
(* Quotations: the list, and a window with one quotation loaded on its own. The states are grouped:    *)
(* REVIEW is everything between submission and the customer, TALKS an open negotiation, CLOSED the     *)
(* rest. While the window loads, its place is taken by a notice, and so is the list's.                 *)
QuotationsPage == Page("Quotations", Two("DRAFT", "TALKS"),
  {<<"REVIEW", "SENT">>, <<"REVIEW", "DRAFT">>, <<"SENT", "TALKS">>, <<"SENT", "CLOSED">>},
  "fetched", {"list", "detail"})
CreateQuotationAgain == Form("Quotations", "new", {"-"}, "createSubmitting", "none")
CreateQuotationForm == NewForm("Quotations", "createSubmitting")
OpenQuotation == Form("Quotations", "list", {"DRAFT", "REVIEW", "SENT", "TALKS", "CLOSED"}, "", "none")
\* Opened on a draft, the form stays when the window shows something else.
AddLineForm == Form("Quotations", "detail", {"DRAFT", "REVIEW", "SENT", "TALKS", "CLOSED"},
                    "addLineSubmitting", "form")
LineFields == Form("Quotations", "detail", {"DRAFT"}, "", "none")
OrderDiscountField == Form("Quotations", "detail", {"DRAFT"}, "", "none")
SubmitButton == Form("Quotations", "detail", {"DRAFT"}, "", "none")
\* Each card is disabled by its own request only, so a quotation's other cards stay free. The request
\* names a recommendation and the window's version, and the route takes the quotation from the
\* recommendation: cards loaded late, and standing in another quotation's window, are left out.
RecommendationCard == Form("Quotations", "detail", {"DRAFT"}, "", "none")
\* The panel of an open negotiation, to the window. Its busy state is its own and goes with it.
NegotiationInWindow == Form("Quotations", "detail", {"TALKS"}, "", "none")

QuotationsRoute == NewRoute({"DRAFT"})
LinesRoute == Route(TRUE, {"DRAFT"}, {"DRAFT"})
QuotationRoute == Route(TRUE, {"DRAFT"}, {"DRAFT"})
DiscountsRoute == Route(TRUE, {"DRAFT"}, {"DRAFT"})
SubmitRoute == Route(TRUE, {"DRAFT"}, {"REVIEW"})
AddToQuoteRoute == Route(TRUE, {"DRAFT"}, {"DRAFT"})
\* Any open negotiation will do here, for the panel may have loaded a later one than the window shows.
ResolvedRoute == Route(FALSE, {"TALKS"}, {"SENT"})

CreateQuotation == Creates("CreateQuotation", CreateQuotationForm, QuotationsRoute)
AddLine == Handler("AddLine", AddLineForm, LinesRoute, TRUE, {"clear"}, <<"detail", "list">>)
RemoveLine == Edits("EditDraft", LineFields, QuotationRoute)
UpdateQuantity == Edits("EditDraft", LineFields, QuotationRoute)
UpdateLineDiscount == Edits("EditDraft", LineFields, DiscountsRoute)
UpdateOrderDiscount == Edits("EditDraft", OrderDiscountField, DiscountsRoute)
AddRecommendation == Edits("EditDraft", RecommendationCard, AddToQuoteRoute)
\* The window keeps the draft as it was; only the button goes.
SubmitQuotation == Handler("SubmitQuotation", SubmitButton, SubmitRoute, TRUE, {}, <<"list">>)
NegotiationResolved == Handler("NegotiationResolved", NegotiationInWindow, ResolvedRoute, FALSE, {}, <<"detail", "list">>)
QuotationHandlers == {CreateQuotation, AddLine, RemoveLine, UpdateQuantity, UpdateLineDiscount,
  UpdateOrderDiscount, AddRecommendation, SubmitQuotation, NegotiationResolved}

\* The panel itself, whose record is the negotiation. It loads it once, after the window, sends its id
\* and no version, and is taken away by the window's notice as soon as the answer is good. A quotation
\* may leave the talks beside an open negotiation, which is then refused.
NegotiationPage == Page("Negotiation", Two("PENDING", "PENDING"), {<<"PENDING", "STRANDED">>}, "page", {})
NegotiationForm == Form("Negotiation", "detail", {"PENDING"}, "submitting", "form")
ResolveRoute == Route(FALSE, {"PENDING"}, {"RESOLVED"})
ResolveNegotiation == Handler("ResolveNegotiation", NegotiationForm, ResolveRoute, FALSE, {"close"}, <<>>)

-----------------------------------------------------------------------------
(* The approvals page: the queue of decisions, and the approval rules with a window to edit one.       *)
QueuePage == Page("Queue", Two("ACTIONABLE", "WAITING"), {<<"WAITING", "ACTIONABLE">>}, "none", {"list"})
DecisionButtons == Form("Queue", "list", {"ACTIONABLE"}, "decidingId", "id")
DecisionRoute == Route(TRUE, {"ACTIONABLE"}, {"DECIDED"})
Decide == Handler("Decide", DecisionButtons, DecisionRoute, TRUE, {}, <<"list">>)

RulesPage == Page("Rules", Two("RULE", "-"), {}, "copied", {"list"})
NewRuleForm == NewForm("Rules", "createSubmitting")
EditRuleForm == Form("Rules", "detail", {"RULE"}, "editSubmitting", "form")
RulesTable == Form("Rules", "list", {"RULE"}, "", "none")
RulesRoute == NewRoute({"RULE"})
RuleRoute == Route(FALSE, {"RULE"}, {"RULE"})
DeleteRuleRoute == Route(FALSE, {"RULE"}, {"GONE"})
CreateRule == Creates("CreateRule", NewRuleForm, RulesRoute)
UpdateRule == Handler("UpdateRule", EditRuleForm, RuleRoute, FALSE, {"close"}, <<"list">>)
DeleteRule == Handler("DeleteRule", RulesTable, DeleteRuleRoute, FALSE, {}, <<"list">>)

-----------------------------------------------------------------------------
(* Subscriptions: the windows to modify and to cancel keep the row they were opened on, and look at    *)
(* its status no more.                                                                                 *)
SubscriptionsPage == Page("Subscriptions", Two("ACTIVE", "ACTIVE"), {}, "copied", {"list"})
CreateSubscriptionForm == NewForm("Subscriptions", "createSubmitting")
OpenAnySubscription == Form("Subscriptions", "list", {"ACTIVE", "CANCELLED"}, "", "none")
OpenSubscription == Form("Subscriptions", "list", {"ACTIVE"}, "", "none")
ModifyForm == Form("Subscriptions", "detail", {"ACTIVE", "CANCELLED"}, "modifySubmitting", "form")
CancelForm == Form("Subscriptions", "detail", {"ACTIVE", "CANCELLED"}, "cancelSubmitting", "form")
SubscriptionsRoute == NewRoute({"ACTIVE"})
ModifyRoute == Route(TRUE, {"ACTIVE"}, {"ACTIVE"})
CancelRoute == Route(TRUE, {"ACTIVE"}, {"CANCELLED"})
CreateSubscription == Creates("CreateSubscription", CreateSubscriptionForm, SubscriptionsRoute)
ApplyModifyUnversioned == Handler("ApplyModify", ModifyForm, ModifyRoute, FALSE, {"close"}, <<"list">>)
ApplyModify == Handler("ApplyModify", ModifyForm, ModifyRoute, TRUE, {"close"}, <<"list">>)
\* Two seconds later the timer closes the cancellation window, whichever is open by then.
ConfirmCancel == Handler("ConfirmCancel", CancelForm, CancelRoute, TRUE, {}, <<"list", "timer", "close">>)

-----------------------------------------------------------------------------
(* The customer's page of one quotation. It loads when it opens and afterwards only shows replies.     *)
PortalPage == Page("Portal", Two("SENT", "SENT"), {<<"TALKS", "SENT">>, <<"REVIEW", "SENT">>}, "page", {})
NegotiateForm == Form("Portal", "detail", {"SENT"}, "submitting", "form")
ConfirmButtons == Form("Portal", "detail", {"SENT"}, "confirmStep", "form")
NegotiateRoute == Route(FALSE, {"SENT"}, {"TALKS"})
ConfirmRoute == Route(FALSE, {"SENT"}, {"CONFIRMED", "REVIEW"})
SubmitNegotiation == Handler("SubmitNegotiation", NegotiateForm, NegotiateRoute, FALSE, {"reply", "clear"}, <<>>)
Confirm == Handler("Confirm", ConfirmButtons, ConfirmRoute, FALSE, {"reply"}, <<>>)

-----------------------------------------------------------------------------
(* One order in fulfilment. A decision is offered only where no single warehouse can ship it all.      *)
OrderPage == Page("Order", Two("SPLIT_PROPOSED", "SPLIT_PROPOSED"), {}, "page", {})
\* The override form, once opened, is not disabled by an acceptance under way.
AcceptButton == [Form("Order", "detail", {"SPLIT_PROPOSED"}, "acceptingSplit", "form")
                   EXCEPT !.stops = {"acceptingSplit", "overriding"}]
OverrideForm == Form("Order", "detail", {"SPLIT_PROPOSED"}, "overriding", "form")
AcceptRoute == Route(FALSE, {"SPLIT_PROPOSED"}, {"ALLOCATED"})
OverrideRoute == Route(FALSE, {"SPLIT_PROPOSED"}, {"ALLOCATED"})
AcceptSplit == Handler("AcceptSplit", AcceptButton, AcceptRoute, FALSE, {"reply"}, <<>>)
OverrideSubmit == Handler("OverrideSubmit", OverrideForm, OverrideRoute, FALSE, {"reply"}, <<>>)

-----------------------------------------------------------------------------
(* Invoices: a draft amount for every open invoice, one busy id for all of them, and a new             *)
(* idempotency key with every press. The table stays while the list loads.                             *)
InvoicesPage == Page("Invoices", Two("DUE", "DUE"), {}, "none", {})
CreateInvoiceForm == NewForm("Invoices", "submitting")
PaymentField == Form("Invoices", "list", {"DUE"}, "payingId", "id")
InvoicesRoute == NewRoute({"DUE"})
PaymentRoute == Route(FALSE, {"DUE", "PAID"}, {"DUE", "PAID"})
CreateInvoice == Creates("CreateInvoice", CreateInvoiceForm, InvoicesRoute)
RecordPayment == Handler("RecordPayment", PaymentField, PaymentRoute, FALSE, {"clear"}, <<"list">>)

-----------------------------------------------------------------------------
(* The master data. Their forms are cleared when they succeed, except the stock form, whose figures    *)
(* may be saved again.                                                                                 *)
WarehousesPage == Page("Warehouses", Two("HELD", "-"), {}, "none", {})
CreateWarehouseForm == NewForm("Warehouses", "submittingWh")
StockForm == Form("Warehouses", "list", {"HELD"}, "submittingStock", "form")
WarehousesRoute == NewRoute({"HELD"})
StockImportRoute == Route(FALSE, {"HELD"}, {"HELD"})
CreateWarehouse == Creates("CreateWarehouse", CreateWarehouseForm, WarehousesRoute)
UpdateStock == Handler("UpdateStock", StockForm, StockImportRoute, FALSE, {}, <<"list">>)

CustomersPage == Page("Customers", Two("-", "-"), {}, "none", {"list"})
CreateCustomerForm == NewForm("Customers", "createSubmitting")
CreateTierForm == NewForm("Customers", "tierCreateSubmitting")
CustomersRoute == NewRoute({"KEPT"})
TiersRoute == NewRoute({"KEPT"})
CreateCustomer == Creates("CreateCustomer", CreateCustomerForm, CustomersRoute)
CreateTier == Creates("CreateTier", CreateTierForm, TiersRoute)

UsersPage == Page("Users", Two("ACTIVE", "MYSELF"), {}, "none", {"list"})
CreateUserForm == NewForm("Users", "createSubmitting")
\* Offered on one's own row too, where the route refuses it.
DeactivateButton == Form("Users", "list", {"ACTIVE", "MYSELF"}, "", "none")
ReactivateButton == Form("Users", "list", {"INACTIVE"}, "", "none")
UsersRoute == NewRoute({"ACTIVE"})
DeleteUserRoute == Route(FALSE, {"ACTIVE", "INACTIVE"}, {"INACTIVE"})
PatchUserRoute == Route(FALSE, {"ACTIVE", "INACTIVE", "MYSELF"}, {"ACTIVE"})
CreateUser == Creates("CreateUser", CreateUserForm, UsersRoute)
Deactivate == Handler("Deactivate", DeactivateButton, DeleteUserRoute, FALSE, {}, <<"list">>)
Reactivate == Handler("Reactivate", ReactivateButton, PatchUserRoute, FALSE, {}, <<"list">>)

DiscountRulesPage == Page("DiscountRules", Two("-", "-"), {}, "none", {"list"})
NewDiscountRuleForm == NewForm("DiscountRules", "createSubmitting")
DiscountRulesRoute == NewRoute({"KEPT"})
CreateDiscountRule == Creates("CreateDiscountRule", NewDiscountRuleForm, DiscountRulesRoute)

PriceListsPage == Page("PriceLists", Two("-", "-"), {}, "none", {"list"})
NewPriceListForm == NewForm("PriceLists", "createSubmitting")
PriceListsRoute == NewRoute({"KEPT"})
CreatePriceList == Creates("CreatePriceList", NewPriceListForm, PriceListsRoute)

PlansPage == Page("Plans", Two("-", "-"), {}, "none", {"list"})
NewPlanForm == NewForm("Plans", "createSubmitting")
PlansRoute == NewRoute({"KEPT"})
CreatePlan == Creates("CreatePlan", NewPlanForm, PlansRoute)

CategoriesPage == Page("Categories", Two("-", "-"), {}, "none", {})
NewCategoryForm == NewForm("Categories", "creatingCategory")
CategoriesRoute == NewRoute({"KEPT"})
CreateCategory == Creates("CreateCategory", NewCategoryForm, CategoriesRoute)

\* The product form is loaded once; saving an edit does not load it again.
ProductPage == Page("Product", Two("KEPT", "KEPT"), {}, "page", {})
ProductForm == Form("Product", "detail", {"KEPT"}, "saving", "form")
ProductRoute == Route(FALSE, {"KEPT"}, {"KEPT"})
SaveProduct == Handler("SaveProduct", ProductForm, ProductRoute, FALSE, {}, <<>>)

\* Asking for an evaluation only queues it: the alerts change when the worker gets to it.
AlertsPage == Page("Alerts", Two("OPEN", "OPEN"), {<<"OPEN", "OPEN">>, <<"OPEN", "CLOSED">>, <<"CLOSED", "OPEN">>},
  "none", {})
RefreshDealButton == Form("Alerts", "list", {"OPEN", "CLOSED"}, "refreshing", "ids")
DismissButton == Form("Alerts", "list", {"OPEN"}, "dismissing", "ids")
RefreshDealRoute == Route(FALSE, {"OPEN", "CLOSED"}, {})
DismissRoute == Route(FALSE, {"OPEN", "CLOSED"}, {"CLOSED"})
RefreshDeal == Handler("RefreshDeal", RefreshDealButton, RefreshDealRoute, FALSE, {}, <<"timer", "list">>)
DismissAlert == Handler("DismissAlert", DismissButton, DismissRoute, FALSE, {}, <<"list">>)

-----------------------------------------------------------------------------
(* The lists of quotations and of orders for customers and warehouse staff offer nothing but Refresh.  *)
PortalListPage == Page("PortalList", Two("SENT", "SENT"), {<<"SENT", "CLOSED">>}, "none", {"list"})
OrdersPage == Page("Orders", Two("SPLIT_PROPOSED", "SPLIT_PROPOSED"), {<<"SPLIT_PROPOSED", "ALLOCATED">>}, "none", {})

AllPages == {QuotationsPage, NegotiationPage, QueuePage, RulesPage, SubscriptionsPage, PortalPage, OrderPage,
  InvoicesPage, WarehousesPage, CustomersPage, UsersPage, DiscountRulesPage, PriceListsPage, PlansPage, CategoriesPage,
  ProductPage, AlertsPage, PortalListPage, OrdersPage}
AllHandlers == QuotationHandlers \cup {ResolveNegotiation, Decide, CreateRule, UpdateRule, DeleteRule, CreateSubscription,
  ApplyModify, ConfirmCancel, SubmitNegotiation, Confirm, AcceptSplit, OverrideSubmit, CreateInvoice,
  RecordPayment, CreateWarehouse, UpdateStock, CreateCustomer, CreateTier, CreateUser, Deactivate,
  Reactivate, CreateDiscountRule, CreatePriceList, CreatePlan, CreateCategory, SaveProduct, RefreshDeal,
  DismissAlert}
=============================================================================
