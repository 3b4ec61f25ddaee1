------------------------------ MODULE PageParts ------------------------------
(***************************************************************************)
(* The parts of which the pages of the front ends are described, one       *)
(* definition per part of a component, and what they have in common.       *)
(*                                                                         *)
(* A page is a record:                                                     *)
(*   app      "admin-web", "user-web", "mobile-h5" or "web-app"            *)
(*   reads    the lists it loads: key -> what the server answers with      *)
(*   panels   what it draws: tables, cards, drawers                        *)
(*   effects  operation -> what its success does to the lists              *)
(*   forms    operation -> when the control that sends it is disabled      *)
(* An operation has the name of the function of the API module.            *)
(***************************************************************************)
EXTENDS TLC

\* A panel draws some lists. If it has controls on records, they stand on the rows of
\* "list"; offers: operation -> statuses of the row that enable it, {} for an operation
\* that needs no row. Tabs and filters are left out: a user can choose any.
Rows(kind, list, offers) == [kind |-> kind, list |-> list, offers |-> offers, draws |-> {list}]
Panel(offers, draws) == [kind |-> "none", list |-> "none", offers |-> offers, draws |-> draws]
View(draws) == Panel(<<>>, draws)
For(statuses, ops) == [o \in ops |-> statuses]
Makes(ops) == For({}, ops)

\* Success: the answer is put into some lists, others are loaded again; a dialog may go
\* over to the answered record, or the page is left.
Refresh(lists) == [patch |-> {}, refresh |-> lists, moves |-> "none"]
Patch(lists) == [patch |-> lists, refresh |-> {}, moves |-> "none"]
PatchRefresh(patched, lists) == [patch |-> patched, refresh |-> lists, moves |-> "none"]
Leaving == [Refresh({}) EXCEPT !.moves = "away"]
Selecting(dialog, effect) == [effect EXCEPT !.moves = dialog]

\* A form: requests that disable its button while they are sent. A dialog is a piece of
\* state of the page, and shows one form at a time. A form is emptied when it opens for a
\* row, unless Kept; Uploading: a file is added to it when its upload ends.
Form(locks) == [locks |-> locks, dialog |-> "action", keeps |-> FALSE, uploads |-> FALSE]
Kept(form) == [form EXCEPT !.keeps = TRUE]
Uploading(form) == [form EXCEPT !.uploads = TRUE]
In(dialog, forms) == [o \in DOMAIN forms |-> [forms[o] EXCEPT !.dialog = dialog]]
\* Disabled while their own request is sent, or the request of any of them; the same for
\* buttons without a dialog, or with a mere question; and buttons that stay enabled.
OwnLock(ops) == [o \in ops |-> Form({o})]
JointLock(ops) == [o \in ops |-> Form(ops)]
Buttons(ops) == In("button", OwnLock(ops))
Unlocked(ops) == In("button", [o \in ops |-> Form({})])
=============================================================================
