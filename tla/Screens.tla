------------------------------ MODULE Screens ------------------------------
(* A page of the web client in one browser tab, beside other users of the same records.                *)
(*                                                                                                     *)
(* The page holds copies: the list it shows and the record in its window. A handler runs as JavaScript *)
(* does, without interruption up to the next await: it sends its request, does what it does with the   *)
(* answer, then loads again what it shows, one load after the other. Several handlers may be under way *)
(* at once, and each may find that the page has moved on meanwhile. A page that hears of nothing must  *)
(* do no harm: the one event a page listens to, on the page of alerts, is left out.                    *)
EXTENDS Pages, FiniteSets

CONSTANTS
  Rows,        \* the names of the records on the page
  Tasks,       \* numbers for the handlers under way at once
  Handlers,    \* what the pages do, and
  PageSet,     \* the pages
  MaxRequests, \* bounds the requests served or refused and the changes made elsewhere
  MaxLost      \* bounds the answers that get lost

ASSUME ScreensConstants ==
  /\ "form" \notin Rows
  /\ IsFiniteSet(Tasks)
  /\ MaxRequests \in Nat /\ MaxLost \in Nat

VARIABLES
  page,     \* the page that is open
  row,      \* [Rows -> [state, version]]: the records in the database
  list,     \* the page's copy of them
  detail,   \* the set of at most one [id, shown] in the page's window
  busy,     \* per busy state, what it marks: record ids, or the form as a whole
  loading,  \* the copies for which a loading notice stands
  draft,    \* per form or record, the number of the draft typed into it
  spent,    \* the drafts that took effect, without those whose answer was lost (history)
  task,     \* the handlers under way
  clock, lost
pageVars == <<page, row, list, detail, busy, loading, draft, spent, task, clock, lost>>

OfPage == [n \in {p.name : p \in PageSet} |-> {h \in Handlers : h.form.page = n}]
\* The states a record can be brought into.
Starts(p) == {p.starts[r] : r \in Rows} \cup {m[2] : m \in p.moves}
States == UNION ({h.route.gives : h \in Handlers} \cup {Starts(p) : p \in PageSet})
Flags(p) == {h.form.flag : h \in OfPage[p.name]} \cup {""}
DraftKeys(p) == Rows \cup {h.name : h \in OfPage[p.name]}
Whole == "form"
NoTask == [pc |-> "idle"]
Free(t) == task[t] = NoTask /\ \A u \in Tasks : u < t => task[u] # NoTask
\* Loads of their own run as handlers without a form.
JustLoads == Handler("", Form("", "new", {}, "", "none"), Route(FALSE, {}, {}), FALSE, {}, <<>>)
HandlerOf(t) == task[t].h

PageInit ==
  /\ page \in PageSet
  /\ row = [r \in Rows |-> [state |-> page.starts[r], version |-> 0]]
  /\ list = row
  /\ IF page.modal = "page" THEN \E r \in Rows : detail = {[id |-> r, shown |-> row[r]]} ELSE detail = {}
  /\ busy = [f \in Flags(page) |-> {}]
  /\ loading = {}
  /\ draft = [k \in DraftKeys(page) |-> 0]
  /\ spent = {}
  /\ task = [t \in Tasks |-> NoTask]
  /\ clock = 0
  /\ lost = 0

-----------------------------------------------------------------------------
(* What the page offers.                                                                               *)

\* The copies a form can work on. A window covers the list, and a loading notice takes a copy's place.
Copies(form) ==
  CASE form.reads = "new" -> {[id |-> Whole, shown |-> [state |-> "-", version |-> 0]]}
    [] form.reads = "list" ->
         IF detail = {} /\ loading \cap page.hides = {} THEN {[id |-> r, shown |-> list[r]] : r \in Rows} ELSE {}
    [] form.reads = "detail" -> IF "detail" \in loading \cap page.hides THEN {} ELSE detail
Marked(form, id) == IF form.marks = "form" THEN {Whole} ELSE {id}
Disabled(form, id) == \E f \in form.stops : Marked(form, id) \cap busy[f] # {}
Mark(form, id) ==
  CASE form.marks = "none" -> {}
    [] form.marks = "ids" -> busy[form.flag] \cup {id}
    [] OTHER -> Marked(form, id)
Unmark(form, id) == IF form.marks = "ids" THEN busy[form.flag] \ {id} ELSE {}
\* The draft a request carries: that of a form of its own, or the one beside a record of the list.
Key(h, id) == IF h.form.reads = "list" THEN id ELSE h.name

\* The model's bound: a request is left, beside those under way.
Left == clock + Cardinality({t \in Tasks : task[t].pc = "sent"}) < MaxRequests

\* The user presses a button: the busy state is set and the request sent, with the draft as it stands.
Press(t, h) ==
  /\ Free(t)
  /\ Left
  /\ \E c \in Copies(h.form) :
       /\ c.shown.state \in h.form.on
       /\ ~Disabled(h.form, c.id)
       /\ task' = [task EXCEPT ![t] = [pc |-> "sent", h |-> h, id |-> c.id, shown |-> c.shown,
                                       draft |-> <<Key(h, c.id), draft[Key(h, c.id)]>>]]
       /\ busy' = [busy EXCEPT ![h.form.flag] = Mark(h.form, c.id)]
  /\ UNCHANGED <<page, row, list, detail, loading, draft, spent, clock, lost>>

-----------------------------------------------------------------------------
(* The server.                                                                                         *)

Accepts(t) ==
  LET c == task[t] h == HandlerOf(t) IN
  c.id # Whole => /\ row[c.id].state \in h.route.takes
                  /\ h.route.compares /\ h.sends => c.shown.version = row[c.id].version
\* Which records a request is for: a new one takes a place among Rows, while there are any.
Targets(id) == IF id # Whole THEN {id} ELSE {r \in Rows : row[r].state = "-"}
Change(rs, state) ==
  /\ clock' = clock + 1
  /\ IF rs = {} THEN UNCHANGED row
     ELSE row' = [row EXCEPT ![CHOOSE r \in rs : TRUE] = [state |-> state, version |-> clock + 1]]

\* The route does the operation.
Respond(t) ==
  /\ task[t].pc = "sent"
  /\ Accepts(t)
  /\ LET c == task[t] h == HandlerOf(t) IN
     /\ IF h.route.gives = {} THEN clock' = clock + 1 /\ UNCHANGED <<row, spent>>
        ELSE /\ \E s \in h.route.gives : Change(Targets(c.id), s)
             /\ spent' = spent \cup {c.draft}
     /\ task' = [task EXCEPT ![t] = [pc |-> "done", h |-> c.h, id |-> c.id, draft |-> c.draft,
                                     got |-> IF "reply" \in h.atOnce THEN row'[c.id] ELSE Whole]]
  /\ UNCHANGED <<page, list, detail, busy, loading, draft, lost>>

\* ... or refuses it, with an error in the answer.
Refuse(t) ==
  /\ task[t].pc = "sent"
  /\ ~Accepts(t)
  /\ task' = [task EXCEPT ![t].pc = "refused"]
  /\ clock' = clock + 1
  /\ UNCHANGED <<page, row, list, detail, busy, loading, draft, spent, lost>>

\* Others do the same operations on their pages, and what the page's records go through elsewhere.
Elsewhere(r) ==
  /\ Left
  /\ \/ \E h \in OfPage[page.name] : /\ row[r].state \in h.route.takes
                        /\ \E s \in h.route.gives : Change({r}, s)
     \/ \E m \in page.moves : row[r].state = m[1] /\ Change({r}, m[2])
  /\ UNCHANGED <<page, list, detail, busy, loading, draft, spent, task, lost>>

-----------------------------------------------------------------------------
(* The answer.                                                                                         *)

\* Leaves the handler: finally clears the busy state, whoever set it last.
Release(t) ==
  busy' = [busy EXCEPT ![HandlerOf(t).form.flag] = Unmark(HandlerOf(t).form, task[t].id)]
Leave(t) == task' = [task EXCEPT ![t] = NoTask] /\ Release(t)

\* Goes on with what is left to load, each load raising its notice first.
Continue(t, todo, standing) ==
  LET c == task[t] IN
  IF todo = <<>> THEN Leave(t) /\ loading' = standing
  ELSE IF Head(todo) = "timer"
  THEN /\ task' = [task EXCEPT ![t] = [pc |-> "timer", h |-> c.h, id |-> c.id, todo |-> Tail(todo)]]
       /\ Release(t)
       /\ loading' = standing
  ELSE /\ task' = [task EXCEPT ![t] = [pc |-> "load", h |-> c.h, id |-> c.id, todo |-> todo]]
       /\ loading' = standing \cup {Head(todo)}
       /\ UNCHANGED busy

TakeAnswer(t) ==
  /\ task[t].pc = "done"
  /\ LET c == task[t] h == HandlerOf(t) IN
     /\ detail' = IF "reply" \in h.atOnce THEN {[id |-> c.id, shown |-> c.got]}
                  ELSE IF "close" \in h.atOnce THEN {} ELSE detail
     /\ draft' = IF "clear" \in h.atOnce THEN [draft EXCEPT ![c.draft[1]] = @ + 1] ELSE draft
     /\ Continue(t, h.loads, loading)
  /\ UNCHANGED <<page, row, list, spent, clock, lost>>

FailStillBusy(t) ==
  /\ task[t].pc = "refused"
  /\ task' = [task EXCEPT ![t] = NoTask]
  /\ UNCHANGED <<page, row, list, detail, busy, loading, draft, spent, clock, lost>>
\* An error, from the server or because the answer never came, is shown. Nothing is loaded again and
\* what was typed stays.
ShowError(t) ==
  /\ \/ task[t].pc = "refused" /\ UNCHANGED <<spent, lost>>
     \/ /\ task[t].pc \in {"sent", "done"}
        /\ lost < MaxLost
        /\ lost' = lost + 1
        /\ spent' = spent \ {task[t].draft}
  /\ Leave(t)
  /\ UNCHANGED <<page, row, list, detail, loading, draft, clock>>

\* The server reads for a load.
ReadCopy(t) ==
  /\ task[t].pc = "load"
  /\ task' = [task EXCEPT ![t] = [pc |-> "read", h |-> @.h, id |-> @.id, todo |-> @.todo,
                                  got |-> IF Head(@.todo) = "list" THEN row ELSE row[@.id]]]
  /\ UNCHANGED <<page, row, list, detail, busy, loading, draft, spent, clock, lost>>

\* The loaded copy is shown, the notice goes, the handler goes on.
Show(t) ==
  /\ task[t].pc = "read"
  /\ LET c == task[t] IN
     /\ IF Head(c.todo) = "list" THEN list' = c.got /\ UNCHANGED detail
        ELSE detail' = {[id |-> c.id, shown |-> c.got]} /\ UNCHANGED list
     /\ Continue(t, Tail(c.todo), loading \ {Head(c.todo)})
  /\ UNCHANGED <<page, row, draft, spent, clock, lost>>

\* A load that fails leaves the copy; the handler goes on.
Miss(t) ==
  /\ task[t].pc \in {"load", "read"}
  /\ lost < MaxLost
  /\ lost' = lost + 1
  /\ Continue(t, Tail(task[t].todo), loading \ {Head(task[t].todo)})
  /\ UNCHANGED <<page, row, list, detail, draft, spent, clock>>

\* What setTimeout left to do, when its time has come.
Fire(t) ==
  /\ task[t].pc = "timer"
  /\ IF Head(task[t].todo) = "close"
     THEN /\ detail' = {}
          /\ task' = [task EXCEPT ![t] = NoTask]
     ELSE /\ UNCHANGED detail
          /\ task' = [task EXCEPT ![t].pc = "load"]
  /\ UNCHANGED <<page, row, list, busy, loading, draft, spent, clock, lost>>

-----------------------------------------------------------------------------
(* Moving about on the page.                                                                           *)

\* Refresh is disabled while the list loads, and under the window while that loads.
Refresh(t) ==
  /\ Free(t)
  /\ page.modal # "page"
  /\ detail = {}
  /\ loading = {}
  /\ loading' = loading \cup {"list"}
  /\ task' = [task EXCEPT ![t] = [pc |-> "load", h |-> JustLoads, id |-> Whole, todo |-> <<"list">>]]
  /\ UNCHANGED <<page, row, list, detail, busy, draft, spent, clock, lost>>

\* A window is filled by loading the record, or with the row that was clicked.
Open(t, r) ==
  /\ detail = {}
  /\ loading \cap page.hides = {}
  /\ \/ /\ page.modal = "fetched"
        /\ Free(t)
        /\ list[r].state \in OpenQuotation.on
        /\ loading' = loading \cup {"detail"}
        /\ task' = [task EXCEPT ![t] = [pc |-> "load", h |-> JustLoads, id |-> r, todo |-> <<"detail">>]]
        /\ UNCHANGED detail
     \/ /\ page.modal = "copied"
        /\ list[r].state \in OpenSubscription.on \cup RulesTable.on
        /\ detail' = {[id |-> r, shown |-> list[r]]}
        /\ UNCHANGED <<loading, task>>
  /\ UNCHANGED <<page, row, list, busy, draft, spent, clock, lost>>

\* The window is closed. A load under way will fill it again.
CloseWindow ==
  /\ page.modal # "page"
  /\ detail # {}
  /\ detail' = {}
  /\ UNCHANGED <<page, row, list, busy, loading, draft, spent, task, clock, lost>>

Run(t) == Respond(t) \/ Refuse(t) \/ TakeAnswer(t) \/ ShowError(t) \/ ReadCopy(t) \/ Show(t) \/ Fire(t)
PageNext ==
  \/ \E t \in Tasks : \/ \E h \in OfPage[page.name] : Press(t, h)
                      \/ Run(t) \/ Miss(t) \/ Refresh(t)
                      \/ \E r \in Rows : Open(t, r)
  \/ \E r \in Rows : Elsewhere(r)
  \/ CloseWindow
PageSpec == PageInit /\ [][PageNext]_pageVars

-----------------------------------------------------------------------------
PageTypeOK ==
  /\ \A r \in Rows : row[r].version \in 0..MaxRequests /\ list[r].version \in 0..MaxRequests
  /\ Cardinality(detail) <= 1
  /\ \A f \in DOMAIN busy : busy[f] \subseteq Rows \cup {Whole}
  /\ loading \subseteq {"list", "detail"}
  /\ \A k \in DOMAIN draft : draft[k] \in 0..MaxRequests
  /\ lost \in 0..MaxLost

Takes(t) == task[t].pc = "sent" /\ task'[t].pc = "done"

\* The operations for which the architecture document promises that they work on the version that was
\* shown. It promises the same of the customer's confirmation and of the answer to a negotiation, which
\* carry no version: they act on whatever the quotation has become.
Promised == {"EditDraft", "AddLine", "SubmitQuotation", "Decide", "ApplyModify", "ConfirmCancel"}

\* What a user does to a quotation, an approval or a subscription is done to what the page showed when
\* the button was pressed, or not at all, although copies grow old, windows keep rows of lists loaded
\* since, and handlers that ended late fill windows that show something else.
ActsOnWhatWasShown ==
  [][\A t \in Tasks : Takes(t) /\ task[t].h.name \in Promised => row[task[t].id] = task[t].shown]_pageVars

\* Two forms are there whatever the record: the line form, once opened, and the button to deactivate
\* oneself.
Regardless == {"AddLine", "Deactivate"}

\* No page offers what its route will not do: a press is refused only if the record changed after the
\* page read it.
RefusedOnlyWhenStale ==
  [][\A t \in Tasks : /\ task[t].pc = "sent" /\ task'[t].pc = "refused"
                      /\ task[t].h.name \notin Regardless
                     => row[task[t].id] # task[t].shown]_pageVars

\* What was typed into a form that is cleared when it succeeds, for a new record, a new line or a
\* request of the customer's, takes effect once, however often and wherever else the user presses,
\* unless an answer was lost and the user, not knowing, sent it again. The payments beside the invoices
\* are the exception: one busy id serves them all, so that a second payment frees the first one's
\* button while that is still under way, with its amount in the field (payingId).
OneEffectPerDraft ==
  [][\A t \in Tasks : /\ Takes(t)
                      /\ "clear" \in HandlerOf(t).atOnce
                      /\ task[t].h.name # "RecordPayment"
                     => task[t].draft \notin spent]_pageVars

\* No button stays disabled and no notice stays up: whatever became of the requests, in whatever
\* order handlers ended, once none is under way all is taken back.
FormsComeBack ==
  (\A t \in Tasks : task[t] = NoTask) => (\A f \in DOMAIN busy : busy[f] = {}) /\ loading = {}

ScreensInv == PageTypeOK /\ FormsComeBack
=============================================================================
