-------------------------------- MODULE Desk --------------------------------
(***************************************************************************)
(* A page of a front end at work: a list it loaded, the controls it offers *)
(* on the rows, the form that is open, the requests on their way and what  *)
(* their answers do to the list. Other people work on the same records,    *)
(* loads and answers overtake each other, some are lost, and the user      *)
(* leaves the page and comes back.                                         *)
(*                                                                         *)
(* Pages are data (PageParts says how they are described). One list is     *)
(* watched at a time, since lists do not influence each other: either the  *)
(* table the operations stand in, or a list they change from elsewhere.    *)
(* admin-web, user-web and mobile-h5 hold lists in a query cache that      *)
(* their pages share (TanStack Query); web-app holds them in the page.     *)
(***************************************************************************)
EXTENDS Naturals, Sequences

CONSTANTS
    Pages,          \* the pages, by name
    Server,         \* the server: operation -> [kind, from, to, touches, idem]
    Statuses,       \* kind of record -> its statuses
    Recs,           \* records of the kind under work
    None,           \* no record
    MaxSends,       \* bound: requests of this user
    MaxTroubles,    \* bound: failed loads, lost answers, operations of others, visits elsewhere
    Stale, Denied, Slips, Repeats   \* what pages are known to do, see the properties

ASSUME NoneAssumption == None \notin Recs

VARIABLES
    desk,           \* the page at work, with the list that is watched and the operations in use
    at,             \* is the user on the page, or on another one that shows the list?
    db, ver,        \* server: statuses of the records; writes to the list so far
    list,           \* what is shown, and the loads on their way
    form,           \* the open form
    draft,          \* the record something was typed for, None if the form is empty
    upload,         \* the record a file is being uploaded for
    out,            \* requests on their way
    owed,           \* history: the own write the list has to show by now
    count           \* requests and troubles so far

vars == <<desk, at, db, ver, list, form, draft, upload, out, owed, count>>

-----------------------------------------------------------------------------
PanelsOf(p) == {Pages[p].panels[i] : i \in DOMAIN Pages[p].panels}
Drawn(p) == UNION {x.draws : x \in PanelsOf(p)}
\* The lists of the query cache, or of the page.
AppLists(p) == IF Pages[p].app = "web-app" THEN Drawn(p)
               ELSE UNION {Drawn(q) : q \in {r \in DOMAIN Pages : Pages[r].app = Pages[p].app}}
\* What the server answers with for a list: pages that share a key mean the same.
Source(k) == LET p == CHOOSE q \in DOMAIN Pages : k \in DOMAIN Pages[q].reads IN Pages[p].reads[k]

\* Where a user may be at work: on a page, one of whose lists is watched (or "none"), with
\* some of its operations. drawn: the page shows the list. offers: the statuses in which a
\* row offers an operation. others: what other people do to the list.
Work(p, k, kind, offers, others) == [
    page |-> p, list |-> k, kind |-> kind, offers |-> offers, others |-> others,
    source |-> IF k = "none" THEN "none" ELSE Source(k),
    queried |-> Pages[p].app # "web-app", drawn |-> k \in Drawn(p),
    forms |-> [o \in DOMAIN offers |-> Pages[p].forms[o]],
    effects |-> [o \in DOMAIN offers |-> Pages[p].effects[o]]]
\* In the rows of a list, where an operation is offered in some statuses.
RowOffers(p, k, kind) ==
    LET panels == {x \in PanelsOf(p) : x.list = k /\ x.kind = kind} IN
    [o \in {o2 \in UNION {DOMAIN x.offers : x \in panels} : Server[o2].kind = kind} |->
        UNION {x.offers[o] : x \in {y \in panels : o \in DOMAIN y.offers}}]
RowDesks(p) == {Work(p, x.list, x.kind, RowOffers(p, x.list, x.kind),
                     {o \in DOMAIN Server : Server[o].kind = x.kind /\ Server[o].from # {}}) :
                    x \in {y \in PanelsOf(p) : y.list # "none"}}
\* Or outside of them, where it matters only that the operation writes to a list, or to
\* none that the pages show.
OtherDesks(p) ==
    LET all == UNION {DOMAIN x.offers : x \in PanelsOf(p)}
        rows(x) == {o \in DOMAIN x.offers : Server[o].kind = x.kind}
        inRows(k) == UNION {rows(x) : x \in {y \in PanelsOf(p) : y.list = k}}
        writing(k) == LET s == Source(k) IN {o \in all : s \in Server[o].touches}
        outside(k, ops) == Work(p, k, "none", [o \in ops |-> {}], ops)
    IN  {outside(k, writing(k) \ inRows(k)) : k \in {l \in AppLists(p) : writing(l) # {}}} \cup
        {outside("none", all \ UNION {writing(k) \cup inRows(k) : k \in AppLists(p)})}
Desks == {d \in UNION {RowDesks(p) \cup OtherDesks(p) : p \in DOMAIN Pages} : DOMAIN d.offers # {}}

\* Rows show statuses of their kind, and operations leave such a status.
ASSUME StatusAssumption == \A d \in Desks : d.kind # "none" =>
    /\ \A o \in DOMAIN d.offers : d.offers[o] \subseteq Statuses[d.kind]
    /\ \A o \in DOMAIN d.offers \cup d.others : Server[o].from # {} => Server[o].to \in Statuses[d.kind] \cup {"same"}

\* What the pages are expected to do, save for the known exceptions: a list an operation
\* writes to is loaded again when it succeeds; a control is offered in statuses in which the
\* server runs the operation; the form of a row starts empty and takes no late input.
ASSUME StaleAssumption == \A d \in Desks : \A o \in DOMAIN d.offers :
    \/ d.source \notin Server[o].touches
    \/ d.list \in d.effects[o].refresh \/ d.effects[o].moves = "away"
    \/ <<d.page, o, d.list>> \in Stale
ASSUME DeniedAssumption == \A d \in Desks : \A o \in DOMAIN d.offers : \A s \in d.offers[o] :
    s \in Server[o].from \/ <<d.page, o, s>> \in Denied
ASSUME SlipsAssumption == \A d \in Desks : \A o \in DOMAIN d.offers :
    \/ /\ ~d.forms[o].keeps
       /\ d.kind # "none" /\ Server[o].from # {} =>
            ~d.forms[o].uploads /\ \A o2 \in DOMAIN d.offers : d.effects[o2].moves # d.forms[o].dialog
    \/ <<d.page, o>> \in Slips
\* And a form is locked while its request is sent, unless the operation leaves the statuses
\* that accept it, or has the same effect when it is repeated.
ASSUME RepeatsAssumption == \A d \in Desks : \A o \in DOMAIN d.offers :
    \/ o \in d.forms[o].locks
    \/ Server[o].idem
    \/ Server[o].from # {} /\ (d.kind # "none" => Server[o].to \notin Server[o].from \cup {"same"})
    \/ <<d.page, o>> \in Repeats

InRows == desk.kind # "none"
Queried == desk.queried     \* the list lives in a query cache
Shown(there) == desk.list # "none" /\ IF there = "page" THEN desk.drawn ELSE Queried /\ ~desk.drawn

Touches(o) == desk.source \in Server[o].touches
NeedsRow(o) == InRows /\ Server[o].from # {}
Accepts(o, s) == s \in Server[o].from
Outcome(o, s) == IF Server[o].to = "same" THEN s ELSE Server[o].to

\* rows: the statuses shown. seen: the writes the shown data holds. stale: known to be
\* outdated, or the last load failed. late, crossed: the answer may be older than a write
\* the user was told of, or than the answer to a later load.
Asked == [read |-> FALSE, seen |-> 0, rows |-> <<>>, late |-> FALSE]
Overtaken(loads) == [i \in DOMAIN loads |-> [loads[i] EXCEPT !.late = TRUE]]
Load(l) == [l EXCEPT !.stale = TRUE, !.loads = Append(@, Asked)]
NoList == [loaded |-> FALSE, seen |-> 0, rows |-> <<>>, stale |-> TRUE, crossed |-> FALSE, loads |-> <<>>]
Fresh(rows) == [NoList EXCEPT !.loaded = TRUE, !.stale = FALSE, !.rows = rows]
NoForm == [op |-> "none", rec |-> None, meant |-> None, saw |-> "unknown", hits |-> 0, again |-> FALSE]

\* Work in the rows begins when they are there; another list may still be loading.
Init ==
    /\ desk \in Desks
    /\ at = "page"
    /\ IF InRows THEN \E o \in DOMAIN desk.offers : \E s \in desk.offers[o] : db = [r \in Recs |-> s]
       ELSE db = <<>>
    /\ ver = 0
    /\ list \in IF ~Shown("page") THEN {NoList, Fresh(<<>>)}
                ELSE IF InRows THEN {Fresh(db)} ELSE {Load(NoList)}
    /\ owed = 0
    /\ form = NoForm
    /\ draft = None
    /\ upload = None
    /\ out = {}
    /\ count = [sends |-> 0, troubles |-> 0]

-----------------------------------------------------------------------------
Trouble ==
    /\ count.troubles < MaxTroubles
    /\ count' = [count EXCEPT !.troubles = @ + 1]

\* Loads. The server reads, the answer arrives or does not.
ServerReads(i) ==
    /\ ~list.loads[i].read
    /\ list' = [list EXCEPT !.loads[i].read = TRUE, !.loads[i].seen = ver, !.loads[i].rows = db]
    /\ UNCHANGED <<desk, at, db, ver, form, draft, upload, out, owed, count>>

\* An answer is shown, also if a later load is answered already, or failed.
LoadsBut(i) == Overtaken(SubSeq(list.loads, 1, i - 1)) \o SubSeq(list.loads, i + 1, Len(list.loads))
Arrives(i) ==
    LET l == list.loads[i] IN
    /\ l.read
    /\ list' = [loaded |-> TRUE, seen |-> l.seen, rows |-> l.rows, stale |-> FALSE,
                crossed |-> l.late, loads |-> LoadsBut(i)]
    /\ UNCHANGED <<desk, at, db, ver, form, draft, upload, out, owed, count>>

LoadFails(i) ==
    /\ Trouble
    /\ list' = [list EXCEPT !.loads = LoadsBut(i), !.stale = TRUE]
    /\ UNCHANGED <<desk, at, db, ver, form, draft, upload, out, owed>>

\* invalidateQueries: a list that is not shown is only marked; a load on its way is
\* dropped for a new one, unless the list is not shown or this is its first load: then
\* its answer counts, and may be older. web-app calls its load function again, and the
\* loads race.
Joins(l) == ~Shown(at) \/ (Queried /\ ~l.loaded /\ l.loads # <<>>)
Refreshed_Joined(l) ==      \* mutant: any load on its way is joined
    IF Joins(l) THEN [l EXCEPT !.stale = TRUE, !.loads = Overtaken(@)]
    ELSE IF Queried /\ l.loads # <<>> THEN l
    ELSE Load(l)
Refreshed_Raced(l) ==       \* mutant: the load on its way is not dropped
    IF Joins(l) THEN [l EXCEPT !.stale = TRUE, !.loads = Overtaken(@)] ELSE Load(l)
Refreshed(l) ==
    IF Joins(l) THEN [l EXCEPT !.stale = TRUE, !.loads = Overtaken(@)]
    ELSE IF Queried THEN Load([l EXCEPT !.loads = <<>>])
    ELSE Load(l)

\* The user goes to another page, and back: the form is gone. A list of a query cache
\* stays; a page that shows it loads it if it is marked, or older than 30 s. One of web-app
\* is gone, and the answers to its requests find nobody.
Entered(there, old) ==
    IF ~Queried THEN IF Shown(there) THEN Load(NoList) ELSE NoList
    ELSE IF Shown(there) /\ list.loads = <<>> /\ (list.stale \/ old) THEN Load(list)
    ELSE list
Leaves(there, old, requests) ==
    /\ at' = there
    /\ list' = Entered(there, old)
    /\ out' = {[q EXCEPT !.this = FALSE, !.heard = @ /\ Queried] : q \in requests}
    /\ owed' = IF Queried THEN owed ELSE 0
    /\ form' = NoForm /\ draft' = None /\ upload' = None
    /\ UNCHANGED <<desk, db, ver>>
Go(there, old) ==
    /\ at # there
    /\ IF there = "away" THEN Trouble ELSE UNCHANGED count
    /\ Leaves(there, old, out)

-----------------------------------------------------------------------------
\* The user.
Offered_Always(o, r) == list.loaded      \* mutant: the status is not looked at
Offered(o, r) == list.loaded /\ list.rows[r] \in desk.offers[o]

Pending(o) == \E q \in out : q.op = o /\ q.heard
Locked_Never(o) == FALSE       \* mutant: no control is disabled
Locked(o) == \E o2 \in desk.forms[o].locks : Pending(o2)

\* The form is emptied and filled for the record, unless it is left as it was.
Filled_Left(o, r) == IF draft # None THEN draft ELSE r      \* mutant: no form is emptied
Filled(o, r) == IF desk.forms[o].keeps /\ draft # None THEN draft ELSE r
OpenForm(o, r, s) ==
    /\ at = "page" /\ form = NoForm
    /\ form' = [NoForm EXCEPT !.op = o, !.rec = r, !.meant = r, !.saw = s]
    /\ draft' = Filled(o, r)
    /\ UNCHANGED <<desk, at, db, ver, list, upload, out, owed, count>>
Open(o, r) == NeedsRow(o) /\ Offered(o, r) /\ OpenForm(o, r, list.rows[r])
OpenNew(o) == ~NeedsRow(o) /\ OpenForm(o, None, "unknown")

\* A file goes to the server first; what comes back is added to the form of that moment.
StartUpload ==
    /\ form.rec # None /\ desk.forms[form.op].uploads
    /\ upload' = form.meant
    /\ UNCHANGED <<desk, at, db, ver, list, form, draft, out, owed, count>>
EndUpload ==
    /\ upload # None
    /\ upload' = None
    /\ draft' = IF form.rec # None /\ desk.forms[form.op].uploads THEN upload ELSE draft
    /\ UNCHANGED <<desk, at, db, ver, list, form, out, owed, count>>

\* Cancel stays enabled while a request is sent.
Dismiss ==
    /\ form # NoForm
    /\ form' = NoForm
    /\ out' = {[q EXCEPT !.this = FALSE] : q \in out}
    /\ UNCHANGED <<desk, at, db, ver, list, draft, upload, owed, count>>

Confirm ==
    /\ form # NoForm
    /\ ~Locked(form.op)
    /\ count.sends < MaxSends
    /\ count' = [count EXCEPT !.sends = @ + 1]
    /\ out' = out \cup {[op |-> form.op, rec |-> form.rec, meant |-> form.meant, typed |-> draft,
            saw |-> form.saw, no |-> count.sends, stage |-> "sent", heard |-> TRUE, this |-> TRUE,
            result |-> "unknown", wrote |-> 0]}
    /\ UNCHANGED <<desk, at, db, ver, list, form, draft, upload, owed>>

-----------------------------------------------------------------------------
\* The server runs the operation, or refuses it for the status of the record. Outside of
\* the rows the record is not followed.
Written(o) == IF Touches(o) THEN ver + 1 ELSE ver
Told(q, news) == IF q.this THEN news ELSE form
\* History: a record that comes back to a status that accepts the form's operation is as new.
Reopened(r, s) == IF form.rec = r /\ Accepts(form.op, s) THEN [form EXCEPT !.hits = 0] ELSE form
Runs(q) ==
    /\ q.stage = "sent"
    /\ NeedsRow(q.op) => Accepts(q.op, db[q.rec])
    /\ db' = IF NeedsRow(q.op) THEN [db EXCEPT ![q.rec] = Outcome(q.op, @)] ELSE db
    /\ ver' = Written(q.op)
    /\ out' = (out \ {q}) \cup {[q EXCEPT !.stage = "done", !.wrote = Written(q.op),
            !.result = IF NeedsRow(q.op) THEN Outcome(q.op, db[q.rec]) ELSE @]}
    /\ form' = IF q.this THEN [form EXCEPT !.hits = IF Server[q.op].idem THEN 1 ELSE @ + 1]
               ELSE IF NeedsRow(q.op) THEN Reopened(q.rec, Outcome(q.op, db[q.rec]))
               ELSE form
    /\ UNCHANGED <<desk, at, list, draft, upload, owed, count>>
Refuses(q) ==
    /\ q.stage = "sent"
    /\ NeedsRow(q.op) /\ ~Accepts(q.op, db[q.rec])
    /\ out' = (out \ {q}) \cup {[q EXCEPT !.stage = IF db[q.rec] = q.saw THEN "denied" ELSE "outdated"]}
    /\ UNCHANGED <<desk, at, db, ver, list, form, draft, upload, owed, count>>

\* onSuccess: the answer goes into some lists, others are loaded again, the dialog of the
\* operation closes, whatever it shows by now, or a dialog goes over to the answered record
\* and is filled again, or emptied if openings leave it alone. Records made by an operation are not followed.
Patched(q, l) ==
    IF l.loaded /\ desk.list \in desk.effects[q.op].patch
    THEN [l EXCEPT !.seen = IF q.wrote > @ THEN q.wrote ELSE @,
                   !.rows = IF NeedsRow(q.op) THEN [@ EXCEPT ![q.rec] = q.result] ELSE @]
    ELSE l
Owes(q) ==
    /\ Touches(q.op)
    /\ <<desk.page, q.op, desk.list>> \notin Stale
Closes(q) ==
    /\ form # NoForm
    /\ desk.forms[form.op].dialog = desk.forms[q.op].dialog
    /\ desk.forms[q.op].dialog = "button" => form.op = q.op
Selects(q) ==
    form.rec # None /\ NeedsRow(q.op) /\ desk.forms[form.op].dialog = desk.effects[q.op].moves
Succeeds(q) ==
    /\ q.stage = "done" /\ q.heard /\ desk.effects[q.op].moves # "away"
    /\ out' = {[r EXCEPT !.this = @ /\ ~Closes(q) /\ ~Selects(q)] : r \in out \ {q}}
    /\ list' = IF desk.list \in desk.effects[q.op].refresh
               THEN Refreshed(Patched(q, list)) ELSE Patched(q, list)
    /\ owed' = IF Owes(q) /\ q.wrote > owed THEN q.wrote ELSE owed
    /\ form' = IF Selects(q) THEN [form EXCEPT !.rec = q.rec, !.hits = 0, !.again = FALSE]
               ELSE IF Closes(q) THEN NoForm ELSE form
    /\ draft' = IF Selects(q) THEN (IF desk.forms[form.op].keeps THEN None ELSE q.rec)
                ELSE IF Closes(q) \/ (form = NoForm /\ desk.forms[q.op].keeps) THEN None ELSE draft
    /\ UNCHANGED <<desk, at, db, ver, upload, count>>

\* Or the page is left for another one.
SucceedsAway(q) ==
    /\ q.stage = "done" /\ q.heard /\ desk.effects[q.op].moves = "away"
    /\ Leaves("away", FALSE, out \ {q})
    /\ UNCHANGED count

\* A refusal or another error, or no answer in time: a message, the form stays open.
Rejected(q) ==
    /\ q.stage \in {"denied", "outdated"} /\ q.heard
    /\ out' = out \ {q}
    /\ form' = Told(q, [form EXCEPT !.again = TRUE])
    /\ UNCHANGED <<desk, at, db, ver, list, draft, upload, owed, count>>
Lost(q) ==
    /\ q.stage \in {"sent", "done"} /\ q.heard
    /\ Trouble
    /\ out' = (out \ {q}) \cup {[q EXCEPT !.heard = FALSE]}
    /\ form' = Told(q, [form EXCEPT !.again = TRUE])
    /\ UNCHANGED <<desk, at, db, ver, list, draft, upload, owed>>

-----------------------------------------------------------------------------
\* Another user, or another tab, runs an operation that writes to the list.
Foreign(o) ==
    /\ Trouble
    /\ IF InRows
       THEN \E r \in Recs :
            /\ Accepts(o, db[r])
            /\ db' = [db EXCEPT ![r] = Outcome(o, @)]
            /\ form' = Reopened(r, Outcome(o, db[r]))
       ELSE UNCHANGED <<db, form>>
    /\ ver' = Written(o)
    /\ UNCHANGED <<desk, at, list, draft, upload, out, owed>>

Next ==
    \/ \E i \in DOMAIN list.loads : ServerReads(i) \/ Arrives(i) \/ LoadFails(i)
    \/ \E o \in DOMAIN desk.offers : OpenNew(o) \/ \E r \in Recs : Open(o, r)
    \/ StartUpload \/ EndUpload \/ Dismiss \/ Confirm
    \/ \E q \in out : Runs(q) \/ Refuses(q) \/ Succeeds(q) \/ SucceedsAway(q) \/ Rejected(q) \/ Lost(q)
    \/ \E o \in desk.others : Foreign(o)
    \/ \E there \in {"page", "away"}, old \in BOOLEAN : Go(there, old)

Spec == Init /\ [][Next]_vars

-----------------------------------------------------------------------------
Here == IF InRows THEN Statuses[desk.kind] ELSE {}
RowsType == IF InRows THEN [Recs -> Here] ELSE {<<>>}
LoadType == [read : BOOLEAN, seen : Nat, rows : RowsType \cup {<<>>}, late : BOOLEAN]
ListType == [loaded : BOOLEAN, seen : Nat, rows : RowsType \cup {<<>>}, stale : BOOLEAN,
             crossed : BOOLEAN, loads : Seq(LoadType)]
FormType == [op : DOMAIN desk.offers, rec : Recs \cup {None}, meant : Recs \cup {None},
             saw : Here \cup {"unknown"}, hits : Nat, again : BOOLEAN]
Request == [op : DOMAIN desk.offers, rec : Recs \cup {None}, meant : Recs \cup {None},
            typed : Recs \cup {None}, saw : Here \cup {"unknown"}, no : Nat,
            stage : {"sent", "done", "denied", "outdated"}, heard : BOOLEAN, this : BOOLEAN,
            result : Here \cup {"unknown"}, wrote : Nat]
TypeOK ==
    /\ at \in {"page", "away"}
    /\ db \in RowsType /\ ver \in Nat /\ owed \in 0 .. ver
    /\ list \in ListType /\ (Queried => Len(list.loads) <= 1)
    /\ form \in FormType \cup {NoForm} /\ (form # NoForm => at = "page")
    /\ draft \in Recs \cup {None} /\ upload \in Recs \cup {None}
    /\ out \subseteq Request
    /\ \A q \in out : q.wrote <= ver /\ (q.rec = None <=> ~NeedsRow(q.op))
    /\ count \in [sends : Nat, troubles : Nat]

\* What a user did and saw succeed stands in every list on the screen, once nothing is
\* loading and no load has failed since, unless the answer that came last was asked for earlier.
\* Stale: <<page, operation, list>> for which it does not.
OwnWritesShown ==
    Shown(at) /\ list.loads = <<>> /\ ~list.stale /\ ~list.crossed => list.seen >= owed

\* A control that is shown for a status works in that status: the server refuses only if
\* somebody changed the record since. Denied: <<page, operation, status>> of controls
\* that are shown and never work.
OfferedAccepted == \A q \in out :
    q.stage = "denied" => <<desk.page, q.op, q.saw>> \in Denied

\* A request goes to the record its form was opened for, with what was typed for that
\* record. Slips: <<page, operation>> of forms that may send it elsewhere.
IntentKept == \A q \in out :
    (q.meant = q.rec /\ q.typed \in {None, q.rec}) \/ <<desk.page, q.op>> \in Slips

\* However often a user confirms a form, it takes effect once, unless an error told them
\* to try again; and then still once, if the operation leaves the statuses that accept it
\* and nobody brings the record back to one.
\* Repeats: <<page, operation>> of forms that can take effect twice.
Final(o) == NeedsRow(o) /\ Server[o].to \notin Server[o].from \cup {"same"}
TakesEffectOnce ==
    form.hits > 1 =>
        \/ form.again /\ ~Final(form.op)
        \/ <<desk.page, form.op>> \in Repeats
        \/ ~InRows /\ Server[form.op].from # {}     \* the status of the record is not followed
=============================================================================
