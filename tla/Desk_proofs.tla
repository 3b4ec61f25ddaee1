----------------------------- MODULE Desk_proofs -----------------------------
(***************************************************************************)
(* Proofs about Desk, for any pages, server, records and bounds. What the  *)
(* assumptions of Desk demand of the page tables, read off one page at a   *)
(* time, is enough for what users see, in whatever order loads, answers,   *)
(* other people's work and visits to other pages happen.                   *)
(***************************************************************************)
EXTENDS Desk, SequenceTheorems, TLAPS

\* The form of a row has a record. A request belongs to the open form only while a form is
\* open, and knows the status it left once it ran.
FormRow == form # NoForm => (form.rec = None <=> ~NeedsRow(form.op))
FormOpen == \A q \in out : q.this => form # NoForm
ResultKnown == \A q \in out : q.stage = "done" /\ NeedsRow(q.op) => q.result \in Here
TypeInv == TypeOK /\ desk \in Desks /\ FormRow /\ FormOpen /\ ResultKnown

-----------------------------------------------------------------------------
\* Loads that are overtaken are as many as before, and all late.
LEMMA OvertakenLoads ==
  ASSUME NEW loads \in Seq(LoadType)
  PROVE  /\ Overtaken(loads) \in Seq(LoadType)
         /\ Len(Overtaken(loads)) = Len(loads)
         /\ \A i \in 1 .. Len(loads) : Overtaken(loads)[i].late
<1>1. DOMAIN loads = 1 .. Len(loads) /\ Len(loads) \in Nat
  OBVIOUS
<1>2. ASSUME NEW i \in 1 .. Len(loads)
      PROVE  Overtaken(loads)[i] \in LoadType /\ Overtaken(loads)[i].late
  <2>1. loads[i] \in LoadType
    BY <1>1
  <2>2. [loads[i] EXCEPT !.late = TRUE] \in LoadType /\ [loads[i] EXCEPT !.late = TRUE].late
    BY <2>1 DEF LoadType
  <2> QED
    BY <1>1, <2>2 DEF Overtaken
<1>3. Overtaken(loads) = [i \in 1 .. Len(loads) |-> Overtaken(loads)[i]]
  BY <1>1 DEF Overtaken
<1>4. Overtaken(loads) \in [1 .. Len(loads) -> LoadType]
  BY <1>2, <1>3
<1>5. Overtaken(loads) \in Seq(LoadType)
  BY <1>1, <1>4, SeqDef
<1>6. Len(Overtaken(loads)) = Len(loads)
  BY <1>1, <1>4
<1> QED
  BY <1>2, <1>5, <1>6

\* Without load i there is one load less. The last one is the last of before, or late.
LEMMA OtherLoads ==
  ASSUME NEW i \in DOMAIN list.loads, list.loads \in Seq(LoadType)
  PROVE  /\ LoadsBut(i) \in Seq(LoadType)
         /\ Len(LoadsBut(i)) = Len(list.loads) - 1
         /\ Len(LoadsBut(i)) > 0 =>
                \/ LoadsBut(i)[Len(LoadsBut(i))].late
                \/ LoadsBut(i)[Len(LoadsBut(i))] = list.loads[Len(list.loads)]
<1> DEFINE n == Len(list.loads)
           earlier == SubSeq(list.loads, 1, i - 1)
           later == SubSeq(list.loads, i + 1, n)
<1>1. i \in 1 .. n /\ n \in Nat
  OBVIOUS
<1>2. earlier \in Seq(LoadType) /\ Len(earlier) = i - 1
  BY <1>1, SubSeqProperties
<1>3. later \in Seq(LoadType) /\ Len(later) = n - i /\ \A j \in 1 .. n - i : later[j] = list.loads[i + j]
  BY <1>1, SubSeqProperties
<1>4. /\ Overtaken(earlier) \in Seq(LoadType) /\ Len(Overtaken(earlier)) = i - 1
      /\ \A j \in 1 .. i - 1 : Overtaken(earlier)[j].late
  BY <1>2, OvertakenLoads
<1>5. LoadsBut(i) = Overtaken(earlier) \o later
  BY DEF LoadsBut
<1> HIDE DEF earlier, later, n
<1>6. LoadsBut(i) \in Seq(LoadType) /\ Len(LoadsBut(i)) = n - 1
  BY <1>1, <1>3, <1>4, <1>5, ConcatProperties
<1>7. CASE i = n
  <2>1. Len(LoadsBut(i)) > 0 => LoadsBut(i)[n - 1] = Overtaken(earlier)[n - 1]
    BY <1>1, <1>3, <1>4, <1>5, <1>6, <1>7, ConcatProperties
  <2> QED
    BY <1>1, <1>4, <1>6, <1>7, <2>1 DEF n
<1>8. CASE i < n
  <2>1. LoadsBut(i)[n - 1] = later[n - i]
    BY <1>1, <1>3, <1>4, <1>5, <1>6, <1>8, ConcatProperties
  <2>2. later[n - i] = list.loads[n]
    <3>1. n - i \in 1 .. n - i /\ i + (n - i) = n
      BY <1>1, <1>8
    <3> QED
      BY <1>3, <3>1
  <2> QED
    BY <1>6, <2>1, <2>2 DEF n
<1> QED
  BY <1>1, <1>7, <1>8

\* A new load is the last one, and the server has not read for it.
LEMMA OneMoreLoad ==
  ASSUME NEW l \in ListType
  PROVE  /\ Load(l) \in ListType
         /\ Load(l).seen = l.seen /\ Load(l).stale
         /\ Len(Load(l).loads) = Len(l.loads) + 1
         /\ Load(l).loads[Len(l.loads) + 1] = Asked
<1>1. Asked \in LoadType
  BY DEF Asked, LoadType
<1>2. l.loads \in Seq(LoadType)
  BY DEF ListType
<1>3. /\ Append(l.loads, Asked) \in Seq(LoadType)
      /\ Len(Append(l.loads, Asked)) = Len(l.loads) + 1
      /\ Append(l.loads, Asked)[Len(l.loads) + 1] = Asked
  BY <1>1, <1>2, AppendProperties
<1> HIDE DEF Asked
<1> QED
  BY <1>3 DEF Load, ListType

\* No list, and a list without loads, are lists.
LEMMA EmptyLists ==
  /\ NoList \in ListType /\ NoList.seen = 0 /\ NoList.stale /\ NoList.loads = <<>>
  /\ \A rows \in RowsType \cup {<<>>} : Fresh(rows) \in ListType /\ Fresh(rows).seen = 0 /\ Fresh(rows).loads = <<>>
<1>1. <<>> \in Seq(LoadType)
  BY EmptySeq
<1> QED
  BY <1>1 DEF NoList, Fresh, ListType

\* The first load of a list.
LEMMA FirstLoad ==
  ASSUME NEW l \in ListType, l.loads = <<>>
  PROVE  /\ Load(l) \in ListType
         /\ Load(l).seen = l.seen /\ Load(l).stale
         /\ Len(Load(l).loads) = 1 /\ Load(l).loads[1] = Asked
<1>1. Len(l.loads) = 0
  BY EmptySeq
<1>2. /\ Load(l) \in ListType
      /\ Load(l).seen = l.seen /\ Load(l).stale
      /\ Len(Load(l).loads) = Len(l.loads) + 1
      /\ Load(l).loads[Len(l.loads) + 1] = Asked
  BY OneMoreLoad
<1> QED
  BY <1>1, <1>2

\* A list that is loaded again is marked, and what the last load brings is new, or late.
LastNew(l) == Len(l.loads) > 0 => l.loads[Len(l.loads)].late \/ ~l.loads[Len(l.loads)].read
LEMMA LoadedAgain ==
  ASSUME NEW l \in ListType, Queried => Len(l.loads) <= 1
  PROVE  /\ Refreshed(l) \in ListType
         /\ Refreshed(l).seen = l.seen /\ Refreshed(l).stale
         /\ Queried => Len(Refreshed(l).loads) <= 1
         /\ LastNew(Refreshed(l))
<1>1. l.loads \in Seq(LoadType) /\ Len(l.loads) \in Nat
  BY DEF ListType
<1>2. CASE Joins(l)
  <2> DEFINE m == [l EXCEPT !.stale = TRUE, !.loads = Overtaken(@)]
  <2>1. /\ Overtaken(l.loads) \in Seq(LoadType) /\ Len(Overtaken(l.loads)) = Len(l.loads)
        /\ \A i \in 1 .. Len(l.loads) : Overtaken(l.loads)[i].late
    BY <1>1, OvertakenLoads
  <2>2. m \in ListType /\ m.seen = l.seen /\ m.stale /\ m.loads = Overtaken(l.loads)
    BY <2>1 DEF ListType
  <2>3. Refreshed(l) = m
    BY <1>2 DEF Refreshed
  <2>4. LastNew(m)
    BY <1>1, <2>1, <2>2 DEF LastNew
  <2> QED
    BY <1>1, <2>1, <2>2, <2>3, <2>4
<1>3. ASSUME NEW m \in ListType, m.seen = l.seen, m.loads \in {<<>>, l.loads}, Queried => m.loads = <<>>,
             Refreshed(l) = Load(m)
      PROVE  /\ Refreshed(l) \in ListType
             /\ Refreshed(l).seen = l.seen /\ Refreshed(l).stale
             /\ Queried => Len(Refreshed(l).loads) <= 1
             /\ LastNew(Refreshed(l))
  <2>1. /\ Load(m) \in ListType /\ Load(m).seen = m.seen /\ Load(m).stale
        /\ Len(Load(m).loads) = Len(m.loads) + 1 /\ Load(m).loads[Len(m.loads) + 1] = Asked
    BY OneMoreLoad
  <2>2. LastNew(Load(m))
    BY <2>1 DEF LastNew, Asked
  <2> QED
    BY <1>3, <2>1, <2>2
<1>4. CASE ~Joins(l) /\ Queried
  <2> DEFINE m == [l EXCEPT !.loads = <<>>]
  <2>1. <<>> \in Seq(LoadType)
    BY EmptySeq
  <2>2. m \in ListType /\ m.seen = l.seen /\ m.loads = <<>>
    BY <2>1 DEF ListType
  <2>3. Refreshed(l) = Load(m)
    BY <1>4 DEF Refreshed
  <2> HIDE DEF m
  <2> QED
    BY <1>3, <2>2, <2>3
<1>5. CASE ~Joins(l) /\ ~Queried
  BY <1>3, <1>5 DEF Refreshed
<1> QED
  BY <1>2, <1>4, <1>5

\* Entering a page leaves the list alone, drops it, or loads it.
LEMMA PageEntered ==
  ASSUME list \in ListType, Queried => Len(list.loads) <= 1, NEW there, NEW old \in BOOLEAN
  PROVE  /\ Entered(there, old) \in ListType
         /\ Entered(there, old).seen \in {0, list.seen}
         /\ Queried => Len(Entered(there, old).loads) <= 1
         /\ \/ Entered(there, old) = list /\ Queried
            \/ Entered(there, old).stale /\ LastNew(Entered(there, old))
<1> DEFINE e == Entered(there, old)
<1>1. CASE ~Queried
  <2>1. NoList \in ListType /\ NoList.seen = 0 /\ NoList.stale /\ NoList.loads = <<>>
    BY EmptyLists
  <2>2. /\ Load(NoList) \in ListType /\ Load(NoList).seen = 0 /\ Load(NoList).stale
        /\ Len(Load(NoList).loads) = 1 /\ Load(NoList).loads[1] = Asked
    BY <2>1, FirstLoad
  <2>3. LastNew(NoList) /\ LastNew(Load(NoList))
    BY <2>1, <2>2 DEF LastNew, Asked
  <2>4. e \in {NoList, Load(NoList)}
    BY <1>1 DEF Entered
  <2> QED
    BY <1>1, <2>1, <2>2, <2>3, <2>4
<1>2. CASE Queried /\ e = list
  BY <1>2
<1>3. CASE Queried /\ e # list
  <2>1. e = Load(list) /\ list.loads = <<>>
    BY <1>3 DEF Entered
  <2>2. /\ Load(list) \in ListType /\ Load(list).seen = list.seen /\ Load(list).stale
        /\ Len(Load(list).loads) = 1 /\ Load(list).loads[1] = Asked
    BY <2>1, FirstLoad
  <2>3. LastNew(Load(list))
    BY <2>2 DEF LastNew, Asked
  <2> QED
    BY <2>1, <2>2, <2>3
<1> QED
  BY <1>1, <1>2, <1>3

-----------------------------------------------------------------------------
\* The desk is chosen once, and the types hang on it.
LEMMA SameTypes ==
  ASSUME desk' = desk
  PROVE  /\ Here' = Here /\ RowsType' = RowsType /\ LoadType' = LoadType /\ ListType' = ListType
         /\ FormType' = FormType /\ Request' = Request
         /\ Queried' = Queried /\ InRows' = InRows
         /\ \A o : NeedsRow(o)' = NeedsRow(o)
BY DEF Here, RowsType, LoadType, ListType, FormType, Request, Queried, InRows, NeedsRow

\* What the user begins with is well typed.
LEMMA TypeInit == Init => TypeInv
<1> SUFFICES ASSUME Init PROVE TypeInv
  OBVIOUS
<1>1. desk \in Desks /\ db \in RowsType
  BY StatusAssumption DEF Init, RowsType, Here, InRows
<1>2. list \in ListType /\ list.seen = 0 /\ Len(list.loads) <= 1
  <2>1. list \in {NoList, Fresh(<<>>), Fresh(db), Load(NoList)}
    BY DEF Init
  <2>2. NoList \in ListType /\ NoList.seen = 0 /\ NoList.loads = <<>>
    BY EmptyLists
  <2>3. Load(NoList) \in ListType /\ Load(NoList).seen = 0 /\ Len(Load(NoList).loads) = 1
    BY <2>2, FirstLoad
  <2>4. \A rows \in RowsType \cup {<<>>} :
            Fresh(rows) \in ListType /\ Fresh(rows).seen = 0 /\ Fresh(rows).loads = <<>>
    BY EmptyLists
  <2>5. Len(<<>>) = 0
    BY EmptySeq
  <2>6. CASE list = Load(NoList)
    <3>1. list \in ListType /\ list.seen = 0 /\ Len(list.loads) = 1
      BY <2>3, <2>6
    <3> QED
      BY <3>1
  <2>7. CASE list \in {NoList, Fresh(<<>>), Fresh(db)}
    <3>1. list \in ListType /\ list.seen = 0 /\ list.loads = <<>>
      BY <1>1, <2>2, <2>4, <2>7
    <3> QED
      BY <2>5, <3>1
  <2> QED
    BY <2>1, <2>6, <2>7
<1>3. at = "page" /\ ver = 0 /\ owed = 0 /\ form = NoForm /\ draft = None /\ upload = None /\ out = {}
      /\ count \in [sends : Nat, troubles : Nat]
  BY DEF Init
<1> QED
  BY <1>1, <1>2, <1>3 DEF TypeInv, TypeOK, FormRow, FormOpen, ResultKnown

\* Loads come and go.
LEMMA TypeLoads ==
  ASSUME TypeInv, NEW i \in DOMAIN list.loads, ServerReads(i) \/ Arrives(i) \/ LoadFails(i)
  PROVE  TypeInv'
<1>1. /\ desk' = desk /\ at' = at /\ db' = db /\ ver' = ver /\ form' = form /\ draft' = draft
      /\ upload' = upload /\ out' = out /\ owed' = owed
  BY DEF ServerReads, Arrives, LoadFails
<1>2. count' \in [sends : Nat, troubles : Nat]
  BY DEF TypeInv, TypeOK, ServerReads, Arrives, LoadFails, Trouble
<1>3. /\ list \in ListType /\ list.loads \in Seq(LoadType) /\ Len(list.loads) \in Nat
      /\ i \in 1 .. Len(list.loads) /\ ver \in Nat
  BY DEF TypeInv, TypeOK, ListType
<1>4. list.loads[i] \in LoadType
  BY <1>3
<1>5. LoadsBut(i) \in Seq(LoadType) /\ Len(LoadsBut(i)) = Len(list.loads) - 1
  BY <1>3, OtherLoads
<1>6. list' \in ListType /\ (Queried => Len(list'.loads) <= 1)
  <2>1. CASE ServerReads(i)
    <3> DEFINE l == [list.loads[i] EXCEPT !.read = TRUE, !.seen = ver, !.rows = db]
    <3>1. l \in LoadType
      BY <1>3, <1>4 DEF LoadType, TypeInv, TypeOK
    <3>2. list' = [list EXCEPT !.loads = [@ EXCEPT ![i] = l]]
      BY <1>3, <1>4, <2>1 DEF ServerReads, ListType, LoadType
    <3> HIDE DEF l
    <3>3. [list.loads EXCEPT ![i] = l] \in Seq(LoadType) /\ Len([list.loads EXCEPT ![i] = l]) = Len(list.loads)
      BY <1>3, <3>1, ExceptSeq
    <3> QED
      BY <1>3, <3>2, <3>3 DEF ListType, TypeInv, TypeOK
  <2>2. CASE Arrives(i)
    BY <1>3, <1>4, <1>5, <2>2 DEF Arrives, ListType, LoadType, TypeInv, TypeOK
  <2>3. CASE LoadFails(i)
    <3> DEFINE loads == LoadsBut(i)
    <3>1. list' = [list EXCEPT !.loads = loads, !.stale = TRUE]
      BY <2>3 DEF LoadFails
    <3>2. loads \in Seq(LoadType) /\ Len(loads) = Len(list.loads) - 1
      BY <1>5
    <3> HIDE DEF loads
    <3>3. list' \in ListType /\ list'.loads = loads
      BY <1>3, <3>1, <3>2 DEF ListType
    <3>4. Queried => Len(list.loads) <= 1
      BY DEF TypeInv, TypeOK
    <3> QED
      BY <1>3, <3>2, <3>3, <3>4
  <2> QED
    BY <2>1, <2>2, <2>3
<1> QED
  BY <1>1, <1>2, <1>6, SameTypes DEF TypeInv, TypeOK, FormRow, FormOpen, ResultKnown

\* Rows show statuses of their kind, and requests leave one.
LEMMA StatusesHere ==
  ASSUME desk \in Desks, InRows
  PROVE  /\ \A o \in DOMAIN desk.offers : desk.offers[o] \subseteq Here
         /\ \A o \in DOMAIN desk.offers \cup desk.others : \A s \in Here :
                Server[o].from # {} => Outcome(o, s) \in Here
BY StatusAssumption DEF InRows, Here, Outcome

\* The user fills in forms and confirms them.
LEMMA TypeOpenForm ==
  ASSUME TypeInv, NEW o \in DOMAIN desk.offers, OpenNew(o) \/ \E r \in Recs : Open(o, r)
  PROVE  TypeInv'
<1>1. PICK r \in Recs \cup {None}, s \in Here \cup {"unknown"} :
            OpenForm(o, r, s) /\ (r = None <=> ~NeedsRow(o))
  <2>1. CASE OpenNew(o)
    BY <2>1 DEF OpenNew
  <2>2. ASSUME NEW r \in Recs, Open(o, r) PROVE list.rows[r] \in Here
    BY <2>2, StatusesHere DEF Open, Offered, NeedsRow, TypeInv
  <2> QED
    BY <2>1, <2>2, NoneAssumption DEF Open
<1>2. /\ desk' = desk /\ at' = at /\ at = "page" /\ db' = db /\ ver' = ver /\ list' = list
      /\ upload' = upload /\ out' = out /\ owed' = owed /\ count' = count /\ form = NoForm
  BY <1>1 DEF OpenForm
<1>3. draft' \in Recs \cup {None}
  BY <1>1 DEF OpenForm, Filled, TypeInv, TypeOK
<1>4. form' \in FormType /\ form'.op = o /\ form'.rec = r
  BY <1>1 DEF OpenForm, NoForm, FormType
<1> QED
  BY <1>1, <1>2, <1>3, <1>4, SameTypes DEF TypeInv, TypeOK, FormRow, FormOpen, ResultKnown

LEMMA TypeUpload == TypeInv /\ (StartUpload \/ EndUpload) => TypeInv'
<1> SUFFICES ASSUME TypeInv, StartUpload \/ EndUpload PROVE TypeInv'
  OBVIOUS
<1>1. /\ desk' = desk /\ at' = at /\ db' = db /\ ver' = ver /\ list' = list /\ form' = form
      /\ out' = out /\ owed' = owed /\ count' = count
  BY DEF StartUpload, EndUpload
<1>2. upload' \in Recs \cup {None} /\ draft' \in Recs \cup {None}
  BY DEF StartUpload, EndUpload, TypeInv, TypeOK, FormType, NoForm
<1> QED
  BY <1>1, <1>2, SameTypes DEF TypeInv, TypeOK, FormRow, FormOpen, ResultKnown

LEMMA TypeDismiss == TypeInv /\ Dismiss => TypeInv'
<1> SUFFICES ASSUME TypeInv, Dismiss PROVE TypeInv'
  OBVIOUS
<1>1. /\ desk' = desk /\ at' = at /\ db' = db /\ ver' = ver /\ list' = list /\ form' = NoForm
      /\ draft' = draft /\ upload' = upload /\ owed' = owed /\ count' = count
  BY DEF Dismiss
<1>2. ASSUME NEW r \in out'
      PROVE  \E q \in out : r = [q EXCEPT !.this = FALSE]
  BY DEF Dismiss
<1>3. ASSUME NEW r \in out'
      PROVE  /\ r \in Request /\ r.wrote <= ver /\ (r.rec = None <=> ~NeedsRow(r.op)) /\ ~r.this
             /\ r.stage = "done" /\ NeedsRow(r.op) => r.result \in Here
  <2>1. PICK q \in out : r = [q EXCEPT !.this = FALSE]
    BY <1>2
  <2>2. /\ q \in Request /\ q.wrote <= ver /\ (q.rec = None <=> ~NeedsRow(q.op))
        /\ q.stage = "done" /\ NeedsRow(q.op) => q.result \in Here
    BY DEF TypeInv, TypeOK, ResultKnown
  <2>3. /\ r \in Request /\ ~r.this
        /\ r.wrote = q.wrote /\ r.rec = q.rec /\ r.op = q.op /\ r.stage = q.stage /\ r.result = q.result
    BY <2>1, <2>2 DEF Request
  <2> QED
    BY <2>2, <2>3
<1> QED
  BY <1>1, <1>3, SameTypes DEF TypeInv, TypeOK, FormRow, FormOpen, ResultKnown

LEMMA TypeConfirm == TypeInv /\ Confirm => TypeInv'
<1> SUFFICES ASSUME TypeInv, Confirm PROVE TypeInv'
  OBVIOUS
<1>1. /\ desk' = desk /\ at' = at /\ db' = db /\ ver' = ver /\ list' = list /\ form' = form
      /\ draft' = draft /\ upload' = upload /\ owed' = owed /\ form # NoForm
      /\ count' \in [sends : Nat, troubles : Nat]
  BY DEF Confirm, TypeInv, TypeOK
<1> DEFINE new == [op |-> form.op, rec |-> form.rec, meant |-> form.meant, typed |-> draft,
            saw |-> form.saw, no |-> count.sends, stage |-> "sent", heard |-> TRUE, this |-> TRUE,
            result |-> "unknown", wrote |-> 0]
<1>2. out' = out \cup {new}
  BY DEF Confirm
<1>3. new \in Request
  BY <1>1 DEF TypeInv, TypeOK, FormType, Request
<1>4. new.wrote <= ver /\ (new.rec = None <=> ~NeedsRow(new.op)) /\ new.stage # "done"
  BY <1>1 DEF TypeInv, TypeOK, FormRow
<1> HIDE DEF new
<1>5. ASSUME NEW q \in out'
      PROVE  /\ q \in Request /\ q.wrote <= ver /\ (q.rec = None <=> ~NeedsRow(q.op))
             /\ q.stage = "done" /\ NeedsRow(q.op) => q.result \in Here
  BY <1>2, <1>3, <1>4 DEF TypeInv, TypeOK, ResultKnown
<1> QED
  BY <1>1, <1>5, SameTypes DEF TypeInv, TypeOK, FormRow, FormOpen, ResultKnown

\* A form whose record is as new is the form of before, but for what it brought about.
LEMMA FormReopened ==
  ASSUME form \in FormType \cup {NoForm}, NEW r \in Recs, NEW s
  PROVE  /\ Reopened(r, s) \in FormType \cup {NoForm}
         /\ Reopened(r, s) = NoForm <=> form = NoForm
         /\ Reopened(r, s).op = form.op /\ Reopened(r, s).rec = form.rec
         /\ Reopened(r, s).saw = form.saw /\ Reopened(r, s).meant = form.meant
         /\ Reopened(r, s).again = form.again
         /\ Reopened(r, s).hits \in {0, form.hits}
         /\ r = form.rec /\ Accepts(form.op, s) => Reopened(r, s).hits = 0
<1>1. CASE ~(form.rec = r /\ Accepts(form.op, s))
  BY <1>1 DEF Reopened
<1>2. CASE form.rec = r /\ Accepts(form.op, s)
  <2>1. form \in FormType /\ form # NoForm
    BY <1>2, NoneAssumption DEF NoForm
  <2>2. Reopened(r, s) = [form EXCEPT !.hits = 0]
    BY <1>2 DEF Reopened
  <2>3. [form EXCEPT !.hits = 0].rec # None
    BY <1>2, <2>1, NoneAssumption DEF FormType
  <2> QED
    BY <2>1, <2>2, <2>3 DEF FormType, NoForm
<1> QED
  BY <1>1, <1>2

\* The server works on a request, and it is answered.
LEMMA TypeRuns ==
  ASSUME TypeInv, NEW q \in out, Runs(q)
  PROVE  TypeInv'
<1>1. /\ desk' = desk /\ at' = at /\ list' = list /\ draft' = draft /\ upload' = upload
      /\ owed' = owed /\ count' = count /\ desk \in Desks
  BY DEF Runs, TypeInv
<1>2. /\ q \in Request /\ q.wrote <= ver /\ (q.rec = None <=> ~NeedsRow(q.op)) /\ ver \in Nat
      /\ q.op \in DOMAIN desk.offers
  BY DEF TypeInv, TypeOK, Request
<1>3. NeedsRow(q.op) => q.rec \in Recs /\ db[q.rec] \in Here /\ Outcome(q.op, db[q.rec]) \in Here
  BY <1>1, <1>2, StatusesHere DEF TypeInv, TypeOK, RowsType, NeedsRow, Request
<1>4. db' \in RowsType
  BY <1>3 DEF Runs, TypeInv, TypeOK, RowsType, NeedsRow
<1>5. ver' \in Nat /\ ver <= ver' /\ ver' = Written(q.op)
  BY <1>2 DEF Runs, Written
<1> DEFINE new == [q EXCEPT !.stage = "done", !.wrote = Written(q.op),
            !.result = IF NeedsRow(q.op) THEN Outcome(q.op, db[q.rec]) ELSE @]
<1>6. out' = (out \ {q}) \cup {new}
  BY DEF Runs
<1>7. /\ new \in Request /\ new.wrote <= ver' /\ (new.rec = None <=> ~NeedsRow(new.op))
      /\ NeedsRow(new.op) => new.result \in Here
      /\ new.this = q.this
  <2> DEFINE left == IF NeedsRow(q.op) THEN Outcome(q.op, db[q.rec]) ELSE q.result
  <2>1. left \in Here \cup {"unknown"} /\ (NeedsRow(q.op) => left \in Here)
    BY <1>2, <1>3 DEF Request
  <2>2. new = [q EXCEPT !.stage = "done", !.wrote = ver', !.result = left]
    BY <1>2, <1>5 DEF Request
  <2> HIDE DEF left, new
  <2>3. /\ new \in Request /\ new.wrote = ver' /\ new.rec = q.rec /\ new.op = q.op
        /\ new.result = left /\ new.this = q.this
    BY <1>2, <1>5, <2>1, <2>2 DEF Request
  <2> QED
    BY <1>2, <1>5, <2>1, <2>3
<1> HIDE DEF new
<1>8. ASSUME NEW r \in out'
      PROVE  /\ r \in Request /\ r.wrote <= ver' /\ (r.rec = None <=> ~NeedsRow(r.op))
             /\ r.stage = "done" /\ NeedsRow(r.op) => r.result \in Here
             /\ r.this => form # NoForm
  <2>1. CASE r = new
    BY <1>7, <2>1 DEF TypeInv, FormOpen
  <2>2. CASE r \in out
    <3>1. /\ r \in Request /\ r.wrote <= ver /\ (r.rec = None <=> ~NeedsRow(r.op))
          /\ r.stage = "done" /\ NeedsRow(r.op) => r.result \in Here
          /\ r.this => form # NoForm
      BY <2>2 DEF TypeInv, TypeOK, ResultKnown, FormOpen
    <3>2. r.wrote \in Nat
      BY <3>1 DEF Request
    <3> QED
      BY <1>2, <1>5, <3>1, <3>2
  <2> QED
    BY <1>6, <2>1, <2>2
<1>9. /\ form' \in FormType \cup {NoForm}
      /\ form' = NoForm <=> form = NoForm
      /\ form'.op = form.op /\ form'.rec = form.rec
  <2>1. CASE ~q.this
    BY <1>3, <2>1, FormReopened DEF Runs, TypeInv, TypeOK
  <2>2. CASE q.this
    <3>1. form # NoForm /\ form \in FormType
      BY <2>2 DEF TypeInv, TypeOK, FormOpen
    <3>2. form' = [form EXCEPT !.hits = IF Server[q.op].idem THEN 1 ELSE @ + 1]
      BY <2>2 DEF Runs
    <3>3. form' \in FormType /\ form'.hits > 0 /\ form'.op = form.op /\ form'.rec = form.rec
      BY <3>1, <3>2 DEF FormType
    <3> QED
      BY <3>1, <3>3 DEF NoForm
  <2> QED
    BY <2>1, <2>2
<1>10. owed \in 0 .. ver'
  BY <1>5, <1>2 DEF TypeInv, TypeOK
<1> QED
  BY <1>1, <1>4, <1>5, <1>8, <1>9, <1>10, SameTypes DEF TypeInv, TypeOK, FormRow, FormOpen, ResultKnown

LEMMA TypeRefuses ==
  ASSUME TypeInv, NEW q \in out, Refuses(q)
  PROVE  TypeInv'
<1>1. /\ desk' = desk /\ at' = at /\ db' = db /\ ver' = ver /\ list' = list /\ form' = form
      /\ draft' = draft /\ upload' = upload /\ owed' = owed /\ count' = count
  BY DEF Refuses
<1> DEFINE new == [q EXCEPT !.stage = IF db[q.rec] = q.saw THEN "denied" ELSE "outdated"]
<1>2. out' = (out \ {q}) \cup {new}
  BY DEF Refuses
<1>3. q \in Request /\ q.wrote <= ver /\ (q.rec = None <=> ~NeedsRow(q.op)) /\ (q.this => form # NoForm)
  BY DEF TypeInv, TypeOK, FormOpen
<1>4. /\ new \in Request /\ new.wrote <= ver /\ (new.rec = None <=> ~NeedsRow(new.op))
      /\ new.stage # "done" /\ new.this = q.this
  BY <1>3 DEF Request
<1> HIDE DEF new
<1>5. ASSUME NEW r \in out'
      PROVE  /\ r \in Request /\ r.wrote <= ver /\ (r.rec = None <=> ~NeedsRow(r.op))
             /\ r.stage = "done" /\ NeedsRow(r.op) => r.result \in Here
             /\ r.this => form # NoForm
  BY <1>2, <1>3, <1>4 DEF TypeInv, TypeOK, ResultKnown, FormOpen
<1> QED
  BY <1>1, <1>5, SameTypes DEF TypeInv, TypeOK, FormRow, FormOpen, ResultKnown

\* An error, or no answer.
LEMMA TypeErrors ==
  ASSUME TypeInv, NEW q \in out, Rejected(q) \/ Lost(q)
  PROVE  TypeInv'
<1>1. /\ desk' = desk /\ at' = at /\ db' = db /\ ver' = ver /\ list' = list
      /\ draft' = draft /\ upload' = upload /\ owed' = owed
      /\ count' \in [sends : Nat, troubles : Nat]
  BY DEF Rejected, Lost, Trouble, TypeInv, TypeOK
<1> DEFINE new == [q EXCEPT !.heard = FALSE]
<1>2. out' \subseteq out \cup {new}
  BY DEF Rejected, Lost
<1>3. /\ q \in Request /\ q.wrote <= ver /\ (q.rec = None <=> ~NeedsRow(q.op)) /\ (q.this => form # NoForm)
      /\ q.stage = "done" /\ NeedsRow(q.op) => q.result \in Here
  BY DEF TypeInv, TypeOK, FormOpen, ResultKnown
<1>4. /\ new \in Request /\ new.wrote <= ver /\ (new.rec = None <=> ~NeedsRow(new.op))
      /\ new.stage = "done" /\ NeedsRow(new.op) => new.result \in Here
      /\ new.this = q.this
  BY <1>3 DEF Request
<1> HIDE DEF new
<1>5. ASSUME NEW r \in out'
      PROVE  /\ r \in Request /\ r.wrote <= ver /\ (r.rec = None <=> ~NeedsRow(r.op))
             /\ r.stage = "done" /\ NeedsRow(r.op) => r.result \in Here
             /\ r.this => form # NoForm
  BY <1>2, <1>3, <1>4 DEF TypeInv, TypeOK, ResultKnown, FormOpen
<1>6. /\ form' \in FormType \cup {NoForm}
      /\ form' = NoForm <=> form = NoForm
      /\ form'.op = form.op /\ form'.rec = form.rec
  <2>1. form' = Told(q, [form EXCEPT !.again = TRUE])
    BY DEF Rejected, Lost
  <2>2. CASE ~q.this
    BY <2>1, <2>2 DEF Told, TypeInv, TypeOK
  <2>3. CASE q.this
    <3>1. form # NoForm /\ form \in FormType
      BY <2>3 DEF TypeInv, TypeOK, FormOpen
    <3>2. form' = [form EXCEPT !.again = TRUE]
      BY <2>1, <2>3 DEF Told
    <3>3. form' \in FormType /\ form'.again /\ form'.op = form.op /\ form'.rec = form.rec
      BY <3>1, <3>2 DEF FormType
    <3> QED
      BY <3>1, <3>3 DEF NoForm
  <2> QED
    BY <2>2, <2>3
<1> QED
  BY <1>1, <1>5, <1>6, SameTypes DEF TypeInv, TypeOK, FormRow, FormOpen, ResultKnown

\* A page is left, or entered.
LEMMA TypeLeaves ==
  ASSUME TypeInv, NEW there \in {"page", "away"}, NEW old \in BOOLEAN,
         NEW requests \in SUBSET out, Leaves(there, old, requests), count' \in [sends : Nat, troubles : Nat]
  PROVE  TypeInv'
<1>1. /\ desk' = desk /\ at' = there /\ db' = db /\ ver' = ver /\ list' = Entered(there, old)
      /\ form' = NoForm /\ draft' = None /\ upload' = None /\ owed' = IF Queried THEN owed ELSE 0
  BY DEF Leaves
<1>2. Entered(there, old) \in ListType /\ (Queried => Len(Entered(there, old).loads) <= 1)
  BY PageEntered DEF TypeInv, TypeOK
<1>3. ASSUME NEW r \in out'
      PROVE  /\ r \in Request /\ r.wrote <= ver /\ (r.rec = None <=> ~NeedsRow(r.op)) /\ ~r.this
             /\ r.stage = "done" /\ NeedsRow(r.op) => r.result \in Here
  <2>1. PICK q \in requests : r = [q EXCEPT !.this = FALSE, !.heard = @ /\ Queried]
    BY DEF Leaves
  <2>2. /\ q \in Request /\ q.wrote <= ver /\ (q.rec = None <=> ~NeedsRow(q.op))
        /\ q.stage = "done" /\ NeedsRow(q.op) => q.result \in Here
    BY DEF TypeInv, TypeOK, ResultKnown
  <2> DEFINE heard == q.heard /\ Queried
  <2>3. heard \in BOOLEAN /\ r = [q EXCEPT !.this = FALSE, !.heard = heard]
    BY <2>1, <2>2 DEF Request
  <2> HIDE DEF heard
  <2>4. /\ r \in Request /\ ~r.this
        /\ r.wrote = q.wrote /\ r.rec = q.rec /\ r.op = q.op /\ r.stage = q.stage /\ r.result = q.result
    BY <2>2, <2>3 DEF Request
  <2> QED
    BY <2>2, <2>4
<1>4. owed' \in 0 .. ver
  BY <1>1 DEF TypeInv, TypeOK
<1> QED
  BY <1>1, <1>2, <1>3, <1>4, SameTypes DEF TypeInv, TypeOK, FormRow, FormOpen, ResultKnown

LEMMA TypeGo ==
  ASSUME TypeInv, NEW there \in {"page", "away"}, NEW old \in BOOLEAN, Go(there, old)
  PROVE  TypeInv'
<1>1. Leaves(there, old, out) /\ count' \in [sends : Nat, troubles : Nat]
  BY DEF Go, Trouble, TypeInv, TypeOK
<1> QED
  BY <1>1, TypeLeaves

LEMMA TypeSucceedsAway ==
  ASSUME TypeInv, NEW q \in out, SucceedsAway(q)
  PROVE  TypeInv'
<1>1. Leaves("away", FALSE, out \ {q})
  BY DEF SucceedsAway
<1>2. count' \in [sends : Nat, troubles : Nat]
  BY DEF SucceedsAway, TypeInv, TypeOK
<1>3. (out \ {q}) \in SUBSET out
  OBVIOUS
<1> QED
  BY <1>1, <1>2, <1>3, TypeLeaves

\* The answer that goes into a list leaves its loads alone.
LEMMA PatchedList ==
  ASSUME TypeInv, NEW q \in out, q.stage = "done"
  PROVE  /\ Patched(q, list) \in ListType
         /\ Patched(q, list).loads = list.loads /\ Patched(q, list).stale = list.stale
         /\ Patched(q, list).crossed = list.crossed /\ list.seen <= Patched(q, list).seen
<1>1. /\ q \in Request /\ (NeedsRow(q.op) => q.result \in Here) /\ list \in ListType
      /\ list.seen \in Nat /\ q.wrote \in Nat
  BY DEF TypeInv, TypeOK, ResultKnown, Request, ListType
<1> DEFINE seen == IF q.wrote > list.seen THEN q.wrote ELSE list.seen
           rows == IF NeedsRow(q.op) THEN [list.rows EXCEPT ![q.rec] = q.result] ELSE list.rows
<1>2. seen \in Nat /\ list.seen <= seen
  BY <1>1
<1>3. rows \in RowsType \cup {<<>>}
  <2>1. CASE ~NeedsRow(q.op)
    BY <1>1, <2>1 DEF ListType
  <2>2. CASE NeedsRow(q.op) /\ list.rows = <<>>
    <3>1. DOMAIN list.rows = {}
      BY <2>2
    <3>2. rows = <<>>
      BY <2>2, <3>1
    <3> QED
      BY <3>2
  <2>3. CASE NeedsRow(q.op) /\ list.rows \in [Recs -> Here]
    <3>1. rows \in [Recs -> Here]
      BY <1>1, <2>3
    <3> QED
      BY <2>3, <3>1 DEF RowsType, NeedsRow
  <2> QED
    BY <1>1, <2>1, <2>2, <2>3 DEF ListType, RowsType
<1>4. Patched(q, list) \in {list, [list EXCEPT !.seen = seen, !.rows = rows]}
  BY DEF Patched
<1> HIDE DEF seen, rows
<1>5. CASE Patched(q, list) = list
  BY <1>1, <1>5
<1>6. CASE Patched(q, list) = [list EXCEPT !.seen = seen, !.rows = rows]
  <2> DEFINE l == [list EXCEPT !.seen = seen, !.rows = rows]
  <2>1. /\ l \in ListType /\ l.loads = list.loads /\ l.stale = list.stale
        /\ l.crossed = list.crossed /\ l.seen = seen
    BY <1>1, <1>2, <1>3 DEF ListType
  <2> QED
    BY <1>2, <1>6, <2>1
<1> QED
  BY <1>4, <1>5, <1>6

LEMMA TypeSucceeds ==
  ASSUME TypeInv, NEW q \in out, Succeeds(q)
  PROVE  TypeInv'
<1>1. /\ desk' = desk /\ at' = at /\ db' = db /\ ver' = ver /\ upload' = upload /\ count' = count
      /\ q.stage = "done"
  BY DEF Succeeds
<1>2. list' \in ListType /\ (Queried => Len(list'.loads) <= 1)
  <2>1. Patched(q, list) \in ListType /\ Patched(q, list).loads = list.loads
    BY <1>1, PatchedList
  <2>2. Queried => Len(list.loads) <= 1
    BY DEF TypeInv, TypeOK
  <2>3. Refreshed(Patched(q, list)) \in ListType /\ (Queried => Len(Refreshed(Patched(q, list)).loads) <= 1)
    BY <2>1, <2>2, LoadedAgain
  <2> QED
    BY <2>1, <2>2, <2>3 DEF Succeeds
<1>3. /\ q \in Request /\ q.wrote <= ver /\ q.wrote \in Nat /\ (q.rec = None <=> ~NeedsRow(q.op))
      /\ q.rec \in Recs \cup {None}
  BY DEF TypeInv, TypeOK, Request
<1>4. owed' \in 0 .. ver
  BY <1>3 DEF Succeeds, TypeInv, TypeOK
<1>5. draft' \in Recs \cup {None}
  BY <1>3 DEF Succeeds, TypeInv, TypeOK
<1>6. /\ form' \in FormType \cup {NoForm}
      /\ form' # NoForm => form # NoForm /\ (form'.rec = None <=> form.rec = None) /\ form'.op = form.op
      /\ form' = NoForm => form = NoForm \/ (Closes(q) /\ ~Selects(q))
  <2>1. CASE Selects(q)
    <3>1. q.rec # None /\ form.rec # None /\ form # NoForm /\ form \in FormType
      BY <1>3, <2>1 DEF Selects, NoForm, TypeInv, TypeOK
    <3>2. form' = [form EXCEPT !.rec = q.rec, !.hits = 0, !.again = FALSE]
      BY <2>1 DEF Succeeds
    <3>3. form' \in FormType /\ form'.rec = q.rec /\ form'.op = form.op
      BY <1>3, <3>1, <3>2 DEF FormType
    <3> QED
      BY <3>1, <3>3 DEF NoForm
  <2>2. CASE ~Selects(q)
    BY <2>2 DEF Succeeds, TypeInv, TypeOK
  <2> QED
    BY <2>1, <2>2
<1>7. ASSUME NEW r \in out'
      PROVE  /\ r \in Request /\ r.wrote <= ver /\ (r.rec = None <=> ~NeedsRow(r.op))
             /\ r.stage = "done" /\ NeedsRow(r.op) => r.result \in Here
             /\ r.this => form' # NoForm
  <2>1. PICK s \in out : r = [s EXCEPT !.this = @ /\ ~Closes(q) /\ ~Selects(q)]
    BY DEF Succeeds
  <2>2. /\ s \in Request /\ s.wrote <= ver /\ (s.rec = None <=> ~NeedsRow(s.op))
        /\ s.stage = "done" /\ NeedsRow(s.op) => s.result \in Here
        /\ s.this => form # NoForm
    BY DEF TypeInv, TypeOK, ResultKnown, FormOpen
  <2> DEFINE this == s.this /\ ~Closes(q) /\ ~Selects(q)
  <2>3. this \in BOOLEAN /\ r = [s EXCEPT !.this = this]
    BY <2>1, <2>2 DEF Request
  <2>4. this => form' # NoForm
    BY <1>6, <2>2
  <2> HIDE DEF this
  <2>5. /\ r \in Request /\ r.this = this
        /\ r.wrote = s.wrote /\ r.rec = s.rec /\ r.op = s.op /\ r.stage = s.stage /\ r.result = s.result
    BY <2>2, <2>3 DEF Request
  <2> QED
    BY <2>2, <2>4, <2>5
<1> QED
  BY <1>1, <1>2, <1>4, <1>5, <1>6, <1>7, SameTypes DEF TypeInv, TypeOK, FormRow, FormOpen, ResultKnown

\* Other people write to the list.
LEMMA TypeForeign ==
  ASSUME TypeInv, NEW o \in desk.others, Foreign(o)
  PROVE  TypeInv'
<1>1. /\ desk' = desk /\ at' = at /\ list' = list /\ draft' = draft /\ upload' = upload
      /\ out' = out /\ owed' = owed /\ count' \in [sends : Nat, troubles : Nat] /\ desk \in Desks
  BY DEF Foreign, Trouble, TypeInv, TypeOK
<1>2. ver' \in Nat /\ ver <= ver' /\ ver \in Nat
  BY DEF Foreign, Written, TypeInv, TypeOK
<1>3. db' \in RowsType
  <2>1. CASE ~InRows
    BY <2>1 DEF Foreign, TypeInv, TypeOK
  <2>2. CASE InRows
    <3>1. PICK r \in Recs : Accepts(o, db[r]) /\ db' = [db EXCEPT ![r] = Outcome(o, @)]
      BY <2>2 DEF Foreign
    <3>2. db \in [Recs -> Here]
      BY <2>2 DEF TypeInv, TypeOK, RowsType
    <3>3. Outcome(o, db[r]) \in Here
      BY <1>1, <2>2, <3>1, <3>2, StatusesHere DEF Accepts
    <3> QED
      BY <2>2, <3>1, <3>2, <3>3 DEF RowsType
  <2> QED
    BY <2>1, <2>2
<1>4. /\ form' \in FormType \cup {NoForm}
      /\ form' = NoForm <=> form = NoForm
      /\ form'.op = form.op /\ form'.rec = form.rec
  BY FormReopened DEF Foreign, TypeInv, TypeOK
<1>5. owed \in 0 .. ver'
  BY <1>2 DEF TypeInv, TypeOK
<1>6. \A q \in out : q.wrote <= ver'
  <2>1. \A q \in out : q.wrote <= ver /\ q.wrote \in Nat
    BY DEF TypeInv, TypeOK, Request
  <2> QED
    BY <1>2, <2>1
<1> QED
  BY <1>1, <1>2, <1>3, <1>4, <1>5, <1>6, SameTypes DEF TypeInv, TypeOK, FormRow, FormOpen, ResultKnown

\* Every step keeps the types.
LEMMA TypeStep == TypeInv /\ [Next]_vars => TypeInv'
<1> SUFFICES ASSUME TypeInv, [Next]_vars PROVE TypeInv'
  OBVIOUS
<1>1. CASE \E i \in DOMAIN list.loads : ServerReads(i) \/ Arrives(i) \/ LoadFails(i)
  BY <1>1, TypeLoads
<1>2. CASE \E o \in DOMAIN desk.offers : OpenNew(o) \/ \E r \in Recs : Open(o, r)
  BY <1>2, TypeOpenForm
<1>3. CASE StartUpload \/ EndUpload \/ Dismiss \/ Confirm
  BY <1>3, TypeUpload, TypeDismiss, TypeConfirm
<1>4. CASE \E q \in out : Runs(q) \/ Refuses(q) \/ Succeeds(q) \/ SucceedsAway(q) \/ Rejected(q) \/ Lost(q)
  BY <1>4, TypeRuns, TypeRefuses, TypeSucceeds, TypeSucceedsAway, TypeErrors
<1>5. CASE \E o \in desk.others : Foreign(o)
  BY <1>5, TypeForeign
<1>6. CASE \E there \in {"page", "away"}, old \in BOOLEAN : Go(there, old)
  BY <1>6, TypeGo
<1>7. CASE UNCHANGED vars
  BY <1>7, SameTypes DEF vars, TypeInv, TypeOK, FormRow, FormOpen, ResultKnown
<1> QED
  BY <1>1, <1>2, <1>3, <1>4, <1>5, <1>6, <1>7 DEF Next

\* The state of a page has its types, whatever the page, and web-app is the only front end in
\* which loads of one list race.
THEOREM TypeCorrect == Spec => []TypeOK
<1>1. TypeInv => TypeOK
  BY DEF TypeInv
<1> QED
  BY <1>1, TypeInit, TypeStep, PTL DEF Spec

-----------------------------------------------------------------------------
\* Once the user was told of a write, the load that is asked for last brings it, or is known
\* to be late; and while none is on its way the list has it, or is marked.
LastBrings ==
  Len(list.loads) > 0 =>
    LET last == list.loads[Len(list.loads)] IN last.late \/ ~last.read \/ last.seen >= owed
ListBrings == list.loads = <<>> /\ ~list.stale /\ ~list.crossed => list.seen >= owed
OwnInv == LastBrings /\ ListBrings

LEMMA OwnInit == Init => OwnInv
<1> SUFFICES ASSUME Init PROVE OwnInv
  OBVIOUS
<1>1. list \in {NoList, Fresh(<<>>), Fresh(db), Load(NoList)} /\ owed = 0
  BY DEF Init
<1>2. CASE list = Load(NoList)
  <2>1. NoList \in ListType /\ NoList.loads = <<>>
    BY EmptyLists
  <2>2. list.stale /\ Len(list.loads) = 1 /\ list.loads[1] = Asked
    BY <1>2, <2>1, FirstLoad
  <2> QED
    BY <2>2 DEF OwnInv, LastBrings, ListBrings, Asked
<1>3. CASE list \in {NoList, Fresh(<<>>), Fresh(db)}
  <2>1. list.loads = <<>> /\ list.seen = 0
    <3>1. NoList.loads = <<>> /\ NoList.seen = 0
      BY DEF NoList
    <3>2. \A rows : Fresh(rows).loads = <<>> /\ Fresh(rows).seen = 0
      BY DEF NoList, Fresh
    <3> QED
      BY <1>3, <3>1, <3>2
  <2>2. Len(<<>>) = 0
    BY EmptySeq
  <2> QED
    BY <1>1, <2>1, <2>2 DEF OwnInv, LastBrings, ListBrings
<1> QED
  BY <1>1, <1>2, <1>3

\* A load that is answered brings the write, unless it was overtaken.
LEMMA OwnLoads ==
  ASSUME TypeInv, OwnInv, NEW i \in DOMAIN list.loads, ServerReads(i) \/ Arrives(i) \/ LoadFails(i)
  PROVE  OwnInv'
<1> DEFINE n == Len(list.loads)
<1>1. /\ list \in ListType /\ list.loads \in Seq(LoadType) /\ n \in Nat /\ i \in 1 .. n /\ n > 0
      /\ ver \in Nat /\ owed \in 0 .. ver
  BY DEF TypeInv, TypeOK, ListType
<1>2. /\ LoadsBut(i) \in Seq(LoadType) /\ Len(LoadsBut(i)) = n - 1
      /\ n - 1 > 0 => LoadsBut(i)[n - 1].late \/ LoadsBut(i)[n - 1] = list.loads[n]
  <2>1. /\ LoadsBut(i) \in Seq(LoadType) /\ Len(LoadsBut(i)) = n - 1
        /\ Len(LoadsBut(i)) > 0 =>
              \/ LoadsBut(i)[Len(LoadsBut(i))].late
              \/ LoadsBut(i)[Len(LoadsBut(i))] = list.loads[n]
    BY <1>1, OtherLoads
  <2> QED
    BY <2>1
<1>3. owed' = owed
  BY DEF ServerReads, Arrives, LoadFails
<1>4. list.loads[n].late \/ ~list.loads[n].read \/ list.loads[n].seen >= owed
  BY <1>1 DEF OwnInv, LastBrings
<1>5. CASE ServerReads(i)
  <2>1. list.loads[i] \in LoadType
    BY <1>1
  <2> DEFINE l == [list.loads[i] EXCEPT !.read = TRUE, !.seen = ver, !.rows = db]
  <2>2. list' = [list EXCEPT !.loads = [@ EXCEPT ![i] = l]]
    BY <1>1, <1>5, <2>1 DEF ServerReads, ListType, LoadType
  <2>3. l.seen = ver /\ l \in LoadType
    BY <1>1, <2>1 DEF LoadType, TypeInv, TypeOK
  <2> HIDE DEF l
  <2>4. list'.loads = [list.loads EXCEPT ![i] = l]
    BY <1>1, <2>2 DEF ListType
  <2>5. Len(list'.loads) = n /\ list'.loads[n] = IF n = i THEN l ELSE list.loads[n]
    <3>1. Len([list.loads EXCEPT ![i] = l]) = n
      BY <1>1, <2>3, ExceptSeq
    <3> QED
      BY <1>1, <2>4, <3>1
  <2>6. list'.loads # <<>>
    BY <1>1, <2>5, EmptySeq
  <2> QED
    BY <1>1, <1>3, <1>4, <2>3, <2>5, <2>6 DEF OwnInv, LastBrings, ListBrings
<1>6. CASE Arrives(i) \/ LoadFails(i)
  <2>1. list'.loads = LoadsBut(i)
    <3>1. CASE Arrives(i)
      BY <3>1 DEF Arrives
    <3>2. CASE LoadFails(i)
      BY <1>1, <3>2 DEF LoadFails, ListType
    <3> QED
      BY <1>6, <3>1, <3>2
  <2>2. LastBrings'
    <3> DEFINE loads == list'.loads
    <3>1. Len(loads) = n - 1 /\ (n - 1 > 0 => loads[n - 1].late \/ loads[n - 1] = list.loads[n])
      BY <1>2, <2>1
    <3>2. Len(loads) > 0 =>
            loads[Len(loads)].late \/ ~loads[Len(loads)].read \/ loads[Len(loads)].seen >= owed
      <4> HIDE DEF loads, n
      <4> QED
        BY <1>4, <3>1
    <3> QED
      BY <1>3, <3>2 DEF LastBrings
  <2>3. LoadsBut(i) = <<>> => n = 1
    BY <1>1, <1>2, EmptySeq
  <2>4. ListBrings'
    <3>1. CASE Arrives(i)
      <4>1. list.loads[i].read /\ list'.crossed = list.loads[i].late /\ list'.seen = list.loads[i].seen
        BY <3>1 DEF Arrives
      <4> QED
        BY <1>1, <1>3, <1>4, <2>1, <2>3, <4>1 DEF ListBrings
    <3>2. CASE LoadFails(i)
      <4>1. list'.stale
        BY <1>1, <3>2 DEF LoadFails, ListType
      <4> QED
        BY <4>1 DEF ListBrings
    <3> QED
      BY <1>6, <3>1, <3>2
  <2> QED
    BY <2>2, <2>4 DEF OwnInv
<1> QED
  BY <1>5, <1>6

\* A list that is loaded again, or dropped, owes nothing until the answer comes.
LEMMA OwnAgain ==
  ASSUME list'.stale, LastNew(list')
  PROVE  OwnInv'
BY DEF OwnInv, LastBrings, ListBrings, LastNew

\* The answer to a request has the lists it wrote to loaded again.
LEMMA OwnSucceeds ==
  ASSUME TypeInv, OwnInv, NEW q \in out, Succeeds(q)
  PROVE  OwnInv'
<1>1. /\ Patched(q, list) \in ListType
      /\ Patched(q, list).loads = list.loads /\ Patched(q, list).stale = list.stale
      /\ Patched(q, list).crossed = list.crossed /\ list.seen <= Patched(q, list).seen
      /\ list.seen \in Nat /\ Patched(q, list).seen \in Nat /\ owed \in Nat
  <2>1. q.stage = "done"
    BY DEF Succeeds
  <2> QED
    BY <2>1, PatchedList DEF TypeInv, TypeOK, ListType
<1>2. CASE desk.list \in desk.effects[q.op].refresh
  <2>1. list' = Refreshed(Patched(q, list))
    BY <1>2 DEF Succeeds
  <2>2. Queried => Len(Patched(q, list).loads) <= 1
    BY <1>1 DEF TypeInv, TypeOK
  <2>3. list'.stale /\ LastNew(list')
    BY <1>1, <2>1, <2>2, LoadedAgain
  <2> QED
    BY <2>3, OwnAgain
<1>3. CASE desk.list \notin desk.effects[q.op].refresh
  <2>1. list' = Patched(q, list)
    BY <1>3 DEF Succeeds
  <2>2. ~Owes(q)
    <3>1. desk \in Desks /\ q.op \in DOMAIN desk.offers
      BY DEF TypeInv, TypeOK, Request
    <3> QED
      BY <1>3, <3>1, StaleAssumption DEF Owes, Touches, Succeeds
  <2>3. owed' = owed
    BY <2>2 DEF Succeeds
  <2> QED
    BY <1>1, <2>1, <2>3 DEF OwnInv, LastBrings, ListBrings
<1> QED
  BY <1>2, <1>3

LEMMA OwnLeaves ==
  ASSUME TypeInv, OwnInv, NEW there, NEW old \in BOOLEAN, NEW requests, Leaves(there, old, requests)
  PROVE  OwnInv'
<1>1. list' = Entered(there, old) /\ owed' = IF Queried THEN owed ELSE 0
  BY DEF Leaves
<1>2. \/ list' = list /\ Queried
      \/ list'.stale /\ LastNew(list')
  BY <1>1, PageEntered DEF TypeInv, TypeOK
<1>3. CASE list' = list /\ Queried
  BY <1>1, <1>3 DEF OwnInv, LastBrings, ListBrings
<1> QED
  BY <1>2, <1>3, OwnAgain

LEMMA OwnStep == TypeInv /\ OwnInv /\ [Next]_vars => OwnInv'
<1> SUFFICES ASSUME TypeInv, OwnInv, [Next]_vars PROVE OwnInv'
  OBVIOUS
<1>1. ASSUME list' = list, owed' = owed PROVE OwnInv'
  BY <1>1 DEF OwnInv, LastBrings, ListBrings
<1>2. CASE \E i \in DOMAIN list.loads : ServerReads(i) \/ Arrives(i) \/ LoadFails(i)
  BY <1>2, OwnLoads
<1>3. CASE \E o \in DOMAIN desk.offers : OpenNew(o) \/ \E r \in Recs : Open(o, r)
  BY <1>1, <1>3 DEF OpenNew, Open, OpenForm
<1>4. CASE StartUpload \/ EndUpload \/ Dismiss \/ Confirm
  BY <1>1, <1>4 DEF StartUpload, EndUpload, Dismiss, Confirm
<1>5. ASSUME NEW q \in out, Runs(q) \/ Refuses(q) \/ Rejected(q) \/ Lost(q)
      PROVE  OwnInv'
  BY <1>1, <1>5 DEF Runs, Refuses, Rejected, Lost
<1>6. ASSUME NEW q \in out, SucceedsAway(q)
      PROVE  OwnInv'
  <2>1. Leaves("away", FALSE, out \ {q})
    BY <1>6 DEF SucceedsAway
  <2> QED
    BY <2>1, OwnLeaves
<1>7. CASE \E o \in desk.others : Foreign(o)
  BY <1>1, <1>7 DEF Foreign
<1>8. ASSUME NEW there \in {"page", "away"}, NEW old \in BOOLEAN, Go(there, old)
      PROVE  OwnInv'
  <2>1. Leaves(there, old, out)
    BY <1>8 DEF Go
  <2> QED
    BY <2>1, OwnLeaves
<1>9. CASE UNCHANGED vars
  BY <1>1, <1>9 DEF vars
<1> QED
  BY <1>2, <1>3, <1>4, <1>5, <1>6, <1>7, <1>8, <1>9, OwnSucceeds DEF Next

\* What a user did and saw succeed stands in every list that is shown, on every page whose
\* answers have the lists they wrote to loaded again.
THEOREM OwnWritesCorrect == Spec => []OwnWritesShown
<1>1. OwnInv => OwnWritesShown
  BY DEF OwnInv, ListBrings, OwnWritesShown
<1> QED
  BY <1>1, TypeInit, TypeStep, OwnInit, OwnStep, PTL DEF Spec

-----------------------------------------------------------------------------
\* A request keeps what it was sent with, and is denied only in the status its control was
\* offered in.
Sent(r) ==
  /\ form # NoForm /\ r.stage = "sent"
  /\ r.op = form.op /\ r.rec = form.rec /\ r.meant = form.meant /\ r.typed = draft /\ r.saw = form.saw
Kept(r, q) ==
  /\ r.op = q.op /\ r.rec = q.rec /\ r.meant = q.meant /\ r.typed = q.typed /\ r.saw = q.saw
  /\ r.stage = "denied" => q.stage = "denied" \/ (NeedsRow(q.op) /\ ~Accepts(q.op, q.saw))
LEMMA RequestsKeep ==
  ASSUME TypeInv, [Next]_vars
  PROVE  desk' = desk /\ \A r \in out' : Sent(r) \/ \E q \in out : Kept(r, q)
<1> USE DEF Request
<1>1. out \subseteq Request
  BY DEF TypeInv, TypeOK
<1>2. ASSUME desk' = desk, out' \subseteq out
      PROVE  desk' = desk /\ \A r \in out' : Sent(r) \/ \E q \in out : Kept(r, q)
  BY <1>2 DEF Kept
<1>3. CASE \E i \in DOMAIN list.loads : ServerReads(i) \/ Arrives(i) \/ LoadFails(i)
  BY <1>2, <1>3 DEF ServerReads, Arrives, LoadFails
<1>4. CASE \E o \in DOMAIN desk.offers : OpenNew(o) \/ \E r \in Recs : Open(o, r)
  BY <1>2, <1>4 DEF OpenNew, Open, OpenForm
<1>5. CASE StartUpload \/ EndUpload
  BY <1>2, <1>5 DEF StartUpload, EndUpload
<1>6. CASE Dismiss
  <2>1. desk' = desk /\ \A r \in out' : \E q \in out : r = [q EXCEPT !.this = FALSE]
    BY <1>6 DEF Dismiss
  <2>2. \A q \in out : Kept([q EXCEPT !.this = FALSE], q)
    BY <1>1 DEF Kept
  <2> QED
    BY <2>1, <2>2
<1>7. CASE Confirm
  BY <1>7 DEF Confirm, Sent, Kept
<1>8. ASSUME NEW q \in out, Runs(q)
      PROVE  desk' = desk /\ \A r \in out' : Sent(r) \/ \E s \in out : Kept(r, s)
  <2> DEFINE wrote == Written(q.op)
             result == IF NeedsRow(q.op) THEN Outcome(q.op, db[q.rec]) ELSE q.result
             new == [q EXCEPT !.stage = "done", !.wrote = wrote, !.result = result]
  <2>1. desk' = desk /\ out' = (out \ {q}) \cup {new}
    BY <1>1, <1>8 DEF Runs
  <2> HIDE DEF wrote, result
  <2>2. Kept(new, q)
    BY <1>1 DEF Kept
  <2>3. \A s \in out : Kept(s, s)
    BY DEF Kept
  <2> QED
    BY <2>1, <2>2, <2>3
<1>9. ASSUME NEW q \in out, Refuses(q)
      PROVE  desk' = desk /\ \A r \in out' : Sent(r) \/ \E s \in out : Kept(r, s)
  <2> DEFINE stage == IF db[q.rec] = q.saw THEN "denied" ELSE "outdated"
             new == [q EXCEPT !.stage = stage]
  <2>1. desk' = desk /\ out' = (out \ {q}) \cup {new} /\ NeedsRow(q.op) /\ ~Accepts(q.op, db[q.rec])
    BY <1>9 DEF Refuses
  <2>2. stage = "denied" => ~Accepts(q.op, q.saw)
    BY <2>1
  <2> HIDE DEF stage
  <2>3. Kept(new, q)
    BY <1>1, <2>1, <2>2 DEF Kept
  <2>4. \A s \in out : Kept(s, s)
    BY DEF Kept
  <2> QED
    BY <2>1, <2>3, <2>4
<1>10. ASSUME NEW q \in out, Succeeds(q)
       PROVE  desk' = desk /\ \A r \in out' : Sent(r) \/ \E s \in out : Kept(r, s)
  <2> DEFINE stays(s) == s.this /\ ~Closes(q) /\ ~Selects(q)
  <2>1. desk' = desk /\ \A r \in out' : \E s \in out : r = [s EXCEPT !.this = stays(s)]
    BY <1>10 DEF Succeeds
  <2> HIDE DEF stays
  <2>2. \A s \in out : Kept([s EXCEPT !.this = stays(s)], s)
    BY <1>1 DEF Kept
  <2> QED
    BY <2>1, <2>2
<1>11. ASSUME NEW there, NEW old \in BOOLEAN, NEW requests \in SUBSET out, Leaves(there, old, requests)
       PROVE  desk' = desk /\ \A r \in out' : Sent(r) \/ \E s \in out : Kept(r, s)
  <2> DEFINE heard(s) == s.heard /\ Queried
  <2>1. desk' = desk /\ \A r \in out' : \E s \in out : r = [s EXCEPT !.this = FALSE, !.heard = heard(s)]
    BY <1>11 DEF Leaves
  <2> HIDE DEF heard
  <2>2. \A s \in out : Kept([s EXCEPT !.this = FALSE, !.heard = heard(s)], s)
    BY <1>1 DEF Kept
  <2> QED
    BY <2>1, <2>2
<1>12. ASSUME NEW q \in out, SucceedsAway(q)
       PROVE  desk' = desk /\ \A r \in out' : Sent(r) \/ \E s \in out : Kept(r, s)
  BY <1>11, <1>12 DEF SucceedsAway
<1>13. ASSUME NEW q \in out, Rejected(q)
       PROVE  desk' = desk /\ \A r \in out' : Sent(r) \/ \E s \in out : Kept(r, s)
  BY <1>2, <1>13 DEF Rejected
<1>14. ASSUME NEW q \in out, Lost(q)
       PROVE  desk' = desk /\ \A r \in out' : Sent(r) \/ \E s \in out : Kept(r, s)
  <2>1. desk' = desk /\ out' = (out \ {q}) \cup {[q EXCEPT !.heard = FALSE]}
    BY <1>14 DEF Lost
  <2>2. Kept([q EXCEPT !.heard = FALSE], q)
    BY <1>1 DEF Kept
  <2>3. \A s \in out : Kept(s, s)
    BY DEF Kept
  <2> QED
    BY <2>1, <2>2, <2>3
<1>15. CASE \E o \in desk.others : Foreign(o)
  BY <1>2, <1>15 DEF Foreign
<1>16. ASSUME NEW there \in {"page", "away"}, NEW old \in BOOLEAN, Go(there, old)
       PROVE  desk' = desk /\ \A r \in out' : Sent(r) \/ \E s \in out : Kept(r, s)
  BY <1>11, <1>16 DEF Go
<1>17. CASE UNCHANGED vars
  BY <1>2, <1>17 DEF vars
<1> QED
  BY <1>3, <1>4, <1>5, <1>6, <1>7, <1>8, <1>9, <1>10, <1>12, <1>13, <1>14, <1>15, <1>16, <1>17 DEF Next

\* What is known of the open form after a step: it was opened by this step, or has the
\* operation, record and status of before, unless an answer moves the form to its record.
Moved == \E q \in out : Succeeds(q) /\ Selects(q)
LEMMA FormKeeps ==
  ASSUME TypeInv, [Next]_vars, form' # NoForm
  PROVE  \/ \E o \in DOMAIN desk.offers : OpenNew(o) \/ \E r \in Recs : Open(o, r)
         \/ /\ form # NoForm /\ form'.op = form.op /\ form'.saw = form.saw /\ form'.meant = form.meant
            /\ form'.rec = form.rec \/ Moved
<1> USE DEF FormType, NoForm
<1>1. form \in FormType \cup {NoForm}
  BY DEF TypeInv, TypeOK
<1> DEFINE Goal == /\ form # NoForm /\ form'.op = form.op /\ form'.saw = form.saw /\ form'.meant = form.meant
                   /\ form'.rec = form.rec \/ Moved
<1>2. ASSUME form' = form PROVE Goal
  BY <1>2
<1>3. CASE \E i \in DOMAIN list.loads : ServerReads(i) \/ Arrives(i) \/ LoadFails(i)
  BY <1>2, <1>3 DEF ServerReads, Arrives, LoadFails
<1>4. CASE \E o \in DOMAIN desk.offers : OpenNew(o) \/ \E r \in Recs : Open(o, r)
  BY <1>4
<1>5. CASE StartUpload \/ EndUpload \/ Confirm
  BY <1>2, <1>5 DEF StartUpload, EndUpload, Confirm
<1>6. ~Dismiss
  BY DEF Dismiss
<1>7. ASSUME NEW q \in out, NEW news, news.op = form.op, news.saw = form.saw, news.meant = form.meant,
             news.rec = form.rec, form' = Told(q, news)
      PROVE  Goal
  <2>1. q.this => form # NoForm
    BY DEF TypeInv, FormOpen
  <2> QED
    BY <1>2, <1>7, <2>1 DEF Told
<1>8. ASSUME NEW q \in out, Runs(q)
      PROVE  Goal
  <2>1. CASE q.this
    <3> DEFINE hits == IF Server[q.op].idem THEN 1 ELSE form.hits + 1
    <3>1. form' = [form EXCEPT !.hits = hits] /\ form # NoForm
      BY <1>8, <2>1 DEF Runs, TypeInv, FormOpen
    <3> HIDE DEF hits
    <3> QED
      BY <1>1, <3>1
  <2>2. CASE ~q.this /\ NeedsRow(q.op)
    <3>1. q.rec \in Recs
      BY <2>2 DEF TypeInv, TypeOK, Request
    <3> QED
      BY <1>1, <1>8, <2>2, <3>1, FormReopened DEF Runs
  <2>3. CASE ~q.this /\ ~NeedsRow(q.op)
    BY <1>2, <1>8, <2>3 DEF Runs
  <2> QED
    BY <2>1, <2>2, <2>3
<1>9. ASSUME NEW q \in out, Refuses(q)
      PROVE  Goal
  BY <1>2, <1>9 DEF Refuses
<1>10. ASSUME NEW q \in out, Succeeds(q)
       PROVE  Goal
  <2>1. CASE Selects(q)
    <3>1. form' = [form EXCEPT !.rec = q.rec, !.hits = 0, !.again = FALSE] /\ form # NoForm
      BY <1>10, <2>1 DEF Succeeds, Selects
    <3>2. Moved
      BY <1>10, <2>1 DEF Moved
    <3> QED
      BY <1>1, <3>1, <3>2
  <2>2. CASE ~Selects(q)
    BY <1>2, <1>10, <2>2 DEF Succeeds
  <2> QED
    BY <2>1, <2>2
<1>11. \A q \in out : ~SucceedsAway(q)
  BY DEF SucceedsAway, Leaves
<1>12. ASSUME NEW q \in out, Rejected(q) \/ Lost(q)
       PROVE  Goal
  <2>1. form' = Told(q, [form EXCEPT !.again = TRUE])
    BY <1>12 DEF Rejected, Lost
  <2>2. /\ [form EXCEPT !.again = TRUE].op = form.op /\ [form EXCEPT !.again = TRUE].saw = form.saw
        /\ [form EXCEPT !.again = TRUE].meant = form.meant /\ [form EXCEPT !.again = TRUE].rec = form.rec
    BY <1>1
  <2> QED
    BY <1>7, <2>1, <2>2
<1>13. CASE \E o \in desk.others : Foreign(o)
  <2>1. form' = form \/ \E r \in Recs, t \in {Outcome(o, db[r2]) : o \in desk.others, r2 \in Recs} : form' = Reopened(r, t)
    BY <1>13 DEF Foreign
  <2> QED
    BY <1>1, <1>2, <2>1, FormReopened
<1>14. \A there \in {"page", "away"}, old \in BOOLEAN : ~Go(there, old)
  BY DEF Go, Leaves
<1>15. CASE UNCHANGED vars
  BY <1>2, <1>15 DEF vars
<1> QED
  BY <1>3, <1>4, <1>5, <1>6, <1>8, <1>9, <1>10, <1>11, <1>12, <1>13, <1>14, <1>15 DEF Next

\* A form is opened from a row that shows a status in which it is offered, and its requests
\* remember that status.
FormOffered == form # NoForm /\ NeedsRow(form.op) => form.saw \in desk.offers[form.op]
SentOffered == \A q \in out : NeedsRow(q.op) => q.saw \in desk.offers[q.op]
OfferedInv == FormOffered /\ SentOffered /\ OfferedAccepted

LEMMA OfferedInit == Init => OfferedInv
BY DEF Init, OfferedInv, FormOffered, SentOffered, OfferedAccepted

LEMMA OfferedStep == TypeInv /\ OfferedInv /\ [Next]_vars => OfferedInv'
<1> SUFFICES ASSUME TypeInv, OfferedInv, [Next]_vars PROVE OfferedInv'
  OBVIOUS
<1>1. desk' = desk /\ \A r \in out' : Sent(r) \/ \E q \in out : Kept(r, q)
  BY RequestsKeep
<1>2. \A o : NeedsRow(o)' = NeedsRow(o)
  BY <1>1, SameTypes
<1>3. FormOffered'
  <2> SUFFICES ASSUME form' # NoForm, NeedsRow(form'.op) PROVE form'.saw \in desk.offers[form'.op]
    BY <1>1, <1>2 DEF FormOffered
  <2>1. ASSUME NEW o \in DOMAIN desk.offers, OpenNew(o) \/ \E r \in Recs : Open(o, r)
        PROVE  form'.saw \in desk.offers[form'.op]
    <3>1. CASE OpenNew(o)
      BY <3>1 DEF OpenNew, OpenForm, NoForm
    <3>2. ASSUME NEW r \in Recs, Open(o, r) PROVE form'.saw \in desk.offers[form'.op]
      <4>1. form'.saw = list.rows[r] /\ form'.op = o
        BY <3>2 DEF Open, OpenForm, NoForm
      <4> QED
        BY <3>2, <4>1 DEF Open, Offered
    <3> QED
      BY <2>1, <3>1, <3>2
  <2> QED
    BY <2>1, FormKeeps DEF OfferedInv, FormOffered
<1>4. ASSUME NEW r \in out', NeedsRow(r.op)
      PROVE  r.saw \in desk.offers[r.op]
  BY <1>1, <1>4 DEF Sent, Kept, OfferedInv, FormOffered, SentOffered
<1>5. ASSUME NEW r \in out', r.stage = "denied"
      PROVE  <<desk.page, r.op, r.saw>> \in Denied
  <2>1. CASE Sent(r)
    BY <1>5, <2>1 DEF Sent
  <2>2. ASSUME NEW q \in out, Kept(r, q)
        PROVE  <<desk.page, r.op, r.saw>> \in Denied
    <3>1. CASE q.stage = "denied"
      BY <2>2, <3>1 DEF Kept, OfferedInv, OfferedAccepted
    <3>2. CASE NeedsRow(q.op) /\ ~Accepts(q.op, q.saw)
      <4>1. q.saw \in desk.offers[q.op] /\ q.op \in DOMAIN desk.offers /\ desk \in Desks
        BY <3>2 DEF OfferedInv, SentOffered, TypeInv, TypeOK, Request
      <4> QED
        BY <2>2, <3>2, <4>1, DeniedAssumption DEF Kept, Accepts
    <3> QED
      BY <1>5, <2>2, <3>1, <3>2 DEF Kept
  <2> QED
    BY <1>1, <2>1, <2>2
<1> QED
  BY <1>1, <1>2, <1>3, <1>4, <1>5 DEF OfferedInv, SentOffered, OfferedAccepted

\* On every page that offers its controls in statuses the server accepts, a refusal means
\* that somebody changed the record since it was shown.
THEOREM OfferedCorrect == Spec => []OfferedAccepted
<1>1. OfferedInv => OfferedAccepted
  BY DEF OfferedInv
<1> QED
  BY <1>1, TypeInit, TypeStep, OfferedInit, OfferedStep, PTL DEF Spec

-----------------------------------------------------------------------------
\* A form that neither keeps what was typed nor takes late input holds what was typed for
\* its record, and no answer moves it to another one.
FormMeant == form # NoForm /\ <<desk.page, form.op>> \notin Slips =>
                form.meant = form.rec /\ draft \in {None, form.rec}
IntentInv == FormMeant /\ IntentKept

LEMMA IntentInit == Init => IntentInv
BY DEF Init, IntentInv, FormMeant, IntentKept

LEMMA IntentStep == TypeInv /\ IntentInv /\ [Next]_vars => IntentInv'
<1> SUFFICES ASSUME TypeInv, IntentInv, [Next]_vars PROVE IntentInv'
  OBVIOUS
<1>1. desk' = desk /\ \A r \in out' : Sent(r) \/ \E q \in out : Kept(r, q)
  BY RequestsKeep
<1>2. IntentKept'
  <2> SUFFICES ASSUME NEW r \in out', <<desk.page, r.op>> \notin Slips
               PROVE  r.meant = r.rec /\ r.typed \in {None, r.rec}
    BY <1>1 DEF IntentKept
  <2>1. CASE Sent(r)
    BY <2>1 DEF Sent, IntentInv, FormMeant
  <2>2. ASSUME NEW q \in out, Kept(r, q)
        PROVE  r.meant = r.rec /\ r.typed \in {None, r.rec}
    BY <2>2 DEF Kept, IntentInv, IntentKept
  <2> QED
    BY <1>1, <2>1, <2>2
<1>3. FormMeant'
  <2> SUFFICES ASSUME form' # NoForm, <<desk.page, form'.op>> \notin Slips
               PROVE  form'.meant = form'.rec /\ draft' \in {None, form'.rec}
    BY <1>1 DEF FormMeant
  <2>1. ASSUME NEW o \in DOMAIN desk.offers, NEW r, NEW s, OpenForm(o, r, s)
        PROVE  form'.meant = form'.rec /\ draft' \in {None, form'.rec}
    <3>1. form'.meant = r /\ form'.rec = r /\ form'.op = o /\ draft' = Filled(o, r)
      BY <2>1 DEF OpenForm, NoForm
    <3>2. ~desk.forms[o].keeps
      BY <3>1, SlipsAssumption DEF TypeInv
    <3> QED
      BY <3>1, <3>2 DEF Filled
  <2>2. CASE \E o \in DOMAIN desk.offers : OpenNew(o) \/ \E r \in Recs : Open(o, r)
    BY <2>1, <2>2 DEF OpenNew, Open
  <2>3. CASE /\ form # NoForm /\ form'.op = form.op /\ form'.saw = form.saw /\ form'.meant = form.meant
             /\ form'.rec = form.rec \/ Moved
    <3>1. /\ form \in FormType /\ form.op \in DOMAIN desk.offers /\ desk \in Desks
          /\ form.rec = None <=> ~NeedsRow(form.op)
          /\ form.meant = form.rec /\ draft \in {None, form.rec}
      BY <2>3 DEF TypeInv, TypeOK, FormRow, FormType, IntentInv, FormMeant
    <3>2. NeedsRow(form.op) => ~desk.forms[form.op].uploads
      BY <2>3, <3>1, SlipsAssumption DEF NeedsRow, InRows
    <3>3. ~Moved
      <4> SUFFICES ASSUME NEW q \in out, Selects(q) PROVE FALSE
        BY DEF Moved
      <4>1. q.op \in DOMAIN desk.offers /\ form.rec # None
            /\ desk.forms[form.op].dialog = desk.effects[q.op].moves
        BY DEF Selects, TypeInv, TypeOK, Request
      <4> QED
        BY <2>3, <3>1, <4>1, SlipsAssumption DEF NeedsRow, InRows
    <3>4. draft' \in {None, draft}
      <4>1. ASSUME draft' # draft, [Next]_vars PROVE draft' = None
        <5>1. CASE EndUpload
          BY <3>1, <3>2, <4>1, <5>1 DEF EndUpload
        <5>2. ASSUME NEW q \in out, Succeeds(q) PROVE draft' = None
          BY <3>3, <4>1, <5>2 DEF Succeeds, Moved
        <5>3. ASSUME NEW q \in out, SucceedsAway(q) PROVE draft' = None
          BY <5>3 DEF SucceedsAway, Leaves
        <5>4. ASSUME NEW there \in {"page", "away"}, NEW old \in BOOLEAN, Go(there, old) PROVE draft' = None
          BY <5>4 DEF Go, Leaves
        <5>5. ASSUME NEW o \in DOMAIN desk.offers, OpenNew(o) \/ \E r \in Recs : Open(o, r) PROVE FALSE
          BY <2>3, <5>5 DEF OpenNew, Open, OpenForm
        <5>6. CASE \E i \in DOMAIN list.loads : ServerReads(i) \/ Arrives(i) \/ LoadFails(i)
          BY <4>1, <5>6 DEF ServerReads, Arrives, LoadFails
        <5>7. CASE StartUpload \/ Dismiss \/ Confirm
          BY <4>1, <5>7 DEF StartUpload, Dismiss, Confirm
        <5>8. ASSUME NEW q \in out, Runs(q) \/ Refuses(q) \/ Rejected(q) \/ Lost(q) PROVE FALSE
          BY <4>1, <5>8 DEF Runs, Refuses, Rejected, Lost
        <5>9. CASE \E o \in desk.others : Foreign(o)
          BY <4>1, <5>9 DEF Foreign
        <5>10. CASE UNCHANGED vars
          BY <4>1, <5>10 DEF vars
        <5> QED
          BY <4>1, <5>1, <5>2, <5>3, <5>4, <5>5, <5>6, <5>7, <5>8, <5>9, <5>10 DEF Next
      <4> QED
        BY <4>1
    <3> QED
      BY <2>3, <3>1, <3>3, <3>4
  <2> QED
    BY <2>2, <2>3, FormKeeps
<1> QED
  BY <1>2, <1>3 DEF IntentInv

\* On every page whose forms start empty and take no late input, what is sent about a record
\* was typed for that record.
THEOREM IntentCorrect == Spec => []IntentKept
<1>1. IntentInv => IntentKept
  BY DEF IntentInv
<1> QED
  BY <1>1, TypeInit, TypeStep, IntentInit, IntentStep, PTL DEF Spec

-----------------------------------------------------------------------------
\* The requests of the open form carry its operation and its record.
ThisForm == \A q \in out : q.this => q.op = form.op /\ q.rec = form.rec
\* Repeating an operation that has the same effect each time counts once.
OnceIdem == form # NoForm /\ Server[form.op].idem => form.hits <= 1
\* What took effect left the statuses that accept it.
OnceFinal == form # NoForm /\ Final(form.op) /\ form.hits > 0 =>
                form.hits = 1 /\ ~Accepts(form.op, db[form.rec])
\* A form that is locked while its request is sent has one request on its way at most, as
\* long as no error came back; and what took effect is that request.
OnceLocked == form # NoForm /\ form.op \in desk.forms[form.op].locks /\ ~form.again =>
                /\ \A q, r \in out : q.this /\ r.this => q = r /\ q.heard
                /\ form.hits > 0 => form.hits = 1 /\ \E q \in out : q.this /\ q.stage = "done"
OnceInv == ThisForm /\ OnceIdem /\ OnceFinal /\ OnceLocked

LEMMA OnceInit == Init => OnceInv
BY DEF Init, OnceInv, ThisForm, OnceIdem, OnceFinal, OnceLocked

\* Without a form, or with one that has not taken effect and waits for nothing, there is
\* nothing to repeat.
LEMMA OnceAnew ==
  ASSUME \A q \in out' : ~q.this, form' # NoForm => form'.hits = 0
  PROVE  OnceInv'
BY DEF OnceInv, ThisForm, OnceIdem, OnceFinal, OnceLocked

\* The user opens a form, empties it, or confirms it.
LEMMA OnceUser ==
  ASSUME TypeInv, OnceInv,
         \/ \E o \in DOMAIN desk.offers : OpenNew(o) \/ \E r \in Recs : Open(o, r)
         \/ Dismiss \/ Confirm
  PROVE  OnceInv'
<1>1. ASSUME NEW o, NEW r, NEW s, OpenForm(o, r, s) PROVE OnceInv'
  <2>1. form'.hits = 0 /\ out' = out /\ form = NoForm
    BY <1>1 DEF OpenForm, NoForm
  <2> QED
    BY <2>1, OnceAnew DEF TypeInv, FormOpen
<1>2. CASE Dismiss
  <2>1. \A q \in out' : ~q.this
    <3>1. \A q \in out : q \in Request
      BY DEF TypeInv, TypeOK
    <3> QED
      BY <1>2, <3>1 DEF Dismiss, Request
  <2> QED
    BY <1>2, <2>1, OnceAnew DEF Dismiss
<1>3. CASE Confirm
  <2> DEFINE new == [op |-> form.op, rec |-> form.rec, meant |-> form.meant, typed |-> draft,
            saw |-> form.saw, no |-> count.sends, stage |-> "sent", heard |-> TRUE, this |-> TRUE,
            result |-> "unknown", wrote |-> 0]
  <2>1. out' = out \cup {new} /\ new.op = form.op /\ new.rec = form.rec /\ new.this /\ new.heard
    BY <1>3 DEF Confirm
  <2> HIDE DEF new
  <2>2. form' = form /\ form # NoForm /\ db' = db /\ desk' = desk /\ ~Locked(form.op)
    BY <1>3 DEF Confirm
  <2>3. ThisForm'
    BY <2>1, <2>2 DEF OnceInv, ThisForm
  <2>4. ASSUME form.op \in desk.forms[form.op].locks, ~form.again
        PROVE  (\A q \in out : ~q.this) /\ ~(form.hits > 0)
    BY <2>2, <2>4 DEF Locked, Pending, OnceInv, ThisForm, OnceLocked
  <2>5. OnceLocked'
    BY <2>1, <2>2, <2>4 DEF OnceLocked
  <2> QED
    BY <2>2, <2>3, <2>5 DEF OnceInv, OnceIdem, OnceFinal, Final, NeedsRow, InRows
<1> QED
  BY <1>1, <1>2, <1>3 DEF OpenNew, Open

\* The server runs an operation of this form, or of another one.
LEMMA OnceRuns ==
  ASSUME TypeInv, OnceInv, NEW q \in out, Runs(q)
  PROVE  OnceInv'
<1>1. /\ q \in Request /\ form \in FormType \cup {NoForm} /\ desk' = desk
      /\ form # NoForm => form.hits \in Nat
      /\ NeedsRow(q.op) => q.rec \in Recs /\ db \in [Recs -> Here]
  BY DEF TypeInv, TypeOK, FormType, Runs, Request, RowsType, NeedsRow
<1> DEFINE wrote == Written(q.op)
           result == IF NeedsRow(q.op) THEN Outcome(q.op, db[q.rec]) ELSE q.result
           new == [q EXCEPT !.stage = "done", !.wrote = wrote, !.result = result]
<1>2. out' = (out \ {q}) \cup {new}
  BY <1>1 DEF Runs, Request
<1> HIDE DEF wrote, result
<1>3. new.this = q.this /\ new.heard = q.heard /\ new.stage = "done" /\ new.op = q.op /\ new.rec = q.rec
  BY <1>1 DEF Request
<1> HIDE DEF new
<1>4. NeedsRow(q.op) => /\ Accepts(q.op, db[q.rec])
                        /\ db' = [db EXCEPT ![q.rec] = Outcome(q.op, @)]
  BY DEF Runs
<1>5. ~NeedsRow(q.op) => db' = db
  BY DEF Runs
<1>6. \A o : Final(o)' = Final(o)
  BY <1>1 DEF Final, NeedsRow, InRows
<1>7. CASE q.this
  <2> DEFINE hits == IF Server[q.op].idem THEN 1 ELSE form.hits + 1
  <2>1. form # NoForm /\ form' = [form EXCEPT !.hits = hits] /\ q.op = form.op /\ q.rec = form.rec
    BY <1>7 DEF Runs, TypeInv, FormOpen, OnceInv, ThisForm
  <2>2. form.hits \in Nat /\ hits \in Nat /\ (form.hits = 0 => hits = 1)
    BY <1>1, <2>1
  <2>3. Server[form.op].idem => hits = 1
    BY <2>1
  <2> HIDE DEF hits
  <2>4. /\ form'.hits = hits /\ form'.op = form.op /\ form'.rec = form.rec /\ form'.again = form.again
    BY <1>1, <2>1 DEF FormType, NoForm
  <2>5. ThisForm'
    BY <1>2, <1>3, <2>1, <2>4 DEF OnceInv, ThisForm
  <2>6. OnceIdem'
    BY <2>3, <2>4 DEF OnceIdem
  <2>7. OnceFinal'
    <3> SUFFICES ASSUME Final(form.op)
                 PROVE  hits = 1 /\ ~Accepts(form.op, db'[form.rec])
      BY <1>6, <2>4 DEF OnceFinal, Accepts
    <3>1. NeedsRow(q.op) /\ Accepts(form.op, db[form.rec])
      BY <1>4, <2>1 DEF Final
    <3>2. ~(form.hits > 0)
      BY <2>1, <3>1 DEF OnceInv, OnceFinal
    <3>3. db'[form.rec] = Outcome(form.op, db[form.rec])
      BY <1>1, <1>4, <2>1, <3>1
    <3>4. ~Accepts(form.op, Outcome(form.op, db[form.rec]))
      BY DEF Final, Accepts, Outcome
    <3> QED
      BY <2>2, <3>2, <3>3, <3>4
  <2>8. OnceLocked'
    <3> SUFFICES ASSUME form.op \in desk.forms[form.op].locks, ~form.again
                 PROVE  /\ \A p, r \in out' : p.this /\ r.this => p = r /\ p.heard
                        /\ hits = 1
      BY <1>1, <1>2, <1>3, <1>7, <2>4 DEF OnceLocked
    <3>1. \A p, r \in out : p.this /\ r.this => p = r /\ p.heard
      BY <2>1 DEF OnceInv, OnceLocked
    <3>2. ~(form.hits > 0)
      BY <1>7, <2>1, <3>1 DEF OnceInv, OnceLocked, Runs
    <3> QED
      BY <1>2, <1>3, <1>7, <2>2, <3>1, <3>2
  <2> QED
    BY <2>5, <2>6, <2>7, <2>8 DEF OnceInv
<1>8. CASE ~q.this
  <2>1. /\ form' \in FormType \cup {NoForm} /\ (form' = NoForm <=> form = NoForm)
        /\ form'.op = form.op /\ form'.rec = form.rec /\ form'.again = form.again
        /\ form'.hits \in {0, form.hits}
    BY <1>1, <1>8, FormReopened DEF Runs
  <2>2. ThisForm'
    BY <1>2, <1>3, <1>8, <2>1 DEF OnceInv, ThisForm
  <2>3. OnceIdem'
    BY <1>1, <2>1 DEF OnceInv, OnceIdem
  <2>4. OnceFinal'
    <3> SUFFICES ASSUME form # NoForm, Final(form.op), form'.hits > 0
                 PROVE  form.hits = 1 /\ form'.hits = 1 /\ ~Accepts(form.op, db'[form.rec])
      BY <1>6, <2>1 DEF OnceFinal, Accepts
    <3>1. form'.hits = form.hits /\ form.hits = 1 /\ ~Accepts(form.op, db[form.rec])
      BY <1>1, <2>1 DEF OnceInv, OnceFinal
    <3>2. CASE NeedsRow(q.op) /\ q.rec = form.rec
      <4>1. db'[form.rec] = Outcome(q.op, db[q.rec])
        BY <1>1, <1>4, <3>2
      <4>2. form' = Reopened(q.rec, Outcome(q.op, db[q.rec]))
        BY <1>8, <3>2 DEF Runs
      <4>3. ~Accepts(form.op, Outcome(q.op, db[q.rec]))
        BY <1>1, <3>1, <3>2, <4>2, FormReopened
      <4> QED
        BY <3>1, <4>1, <4>3
    <3>3. CASE ~(NeedsRow(q.op) /\ q.rec = form.rec)
      <4>1. form.rec \in Recs
        BY DEF Final, TypeInv, TypeOK, FormRow, FormType
      <4>2. db'[form.rec] = db[form.rec]
        BY <1>1, <1>4, <1>5, <3>3, <4>1
      <4> QED
        BY <3>1, <4>2
    <3> QED
      BY <3>2, <3>3
  <2>5. OnceLocked'
    BY <1>1, <1>2, <1>3, <1>8, <2>1 DEF OnceInv, OnceLocked
  <2> QED
    BY <2>2, <2>3, <2>4, <2>5 DEF OnceInv
<1> QED
  BY <1>7, <1>8

\* The server refuses one.
LEMMA OnceRefuses ==
  ASSUME TypeInv, OnceInv, NEW q \in out, Refuses(q)
  PROVE  OnceInv'
<1> DEFINE stage == IF db[q.rec] = q.saw THEN "denied" ELSE "outdated"
           new == [q EXCEPT !.stage = stage]
<1>1. q \in Request /\ q.stage = "sent" /\ form' = form /\ db' = db /\ desk' = desk
  BY DEF TypeInv, TypeOK, Refuses
<1>2. out' = (out \ {q}) \cup {new}
  BY DEF Refuses
<1> HIDE DEF stage
<1>3. new.this = q.this /\ new.heard = q.heard /\ new.op = q.op /\ new.rec = q.rec
  BY <1>1 DEF Request
<1> HIDE DEF new
<1>4. ThisForm'
  BY <1>1, <1>2, <1>3 DEF OnceInv, ThisForm
<1>5. OnceLocked'
  BY <1>1, <1>2, <1>3 DEF OnceInv, OnceLocked
<1> QED
  BY <1>1, <1>4, <1>5 DEF OnceInv, OnceIdem, OnceFinal, Final, NeedsRow, InRows

\* An error comes back, or nothing.
LEMMA OnceErrors ==
  ASSUME TypeInv, OnceInv, NEW q \in out, Rejected(q) \/ Lost(q)
  PROVE  OnceInv'
<1>1. /\ q \in Request /\ form \in FormType \cup {NoForm} /\ db' = db /\ desk' = desk
      /\ form' = IF q.this THEN [form EXCEPT !.again = TRUE] ELSE form
  BY DEF TypeInv, TypeOK, Rejected, Lost, Told
<1> DEFINE new == [q EXCEPT !.heard = FALSE]
<1>2. out' = out \ {q} \/ out' = (out \ {q}) \cup {new}
  BY DEF Rejected, Lost
<1>3. new.this = q.this /\ new.op = q.op /\ new.rec = q.rec
  BY <1>1 DEF Request
<1> HIDE DEF new
<1>4. /\ form' = NoForm <=> form = NoForm
      /\ form'.op = form.op /\ form'.rec = form.rec /\ form'.hits = form.hits
      /\ q.this => form'.again
      /\ ~q.this => form' = form
  <2>1. q.this => form \in FormType /\ form # NoForm
    BY <1>1 DEF TypeInv, FormOpen
  <2> QED
    BY <1>1, <2>1 DEF FormType, NoForm
<1>5. ThisForm'
  BY <1>2, <1>3, <1>4 DEF OnceInv, ThisForm
<1>6. OnceLocked'
  BY <1>1, <1>2, <1>3, <1>4 DEF OnceInv, OnceLocked
<1> QED
  BY <1>1, <1>4, <1>5, <1>6 DEF OnceInv, OnceIdem, OnceFinal, Final, NeedsRow, InRows

\* The answer to a request of the form closes it, or moves it on to the answered record.
LEMMA OnceSucceeds ==
  ASSUME TypeInv, OnceInv, NEW q \in out, Succeeds(q)
  PROVE  OnceInv'
<1>1. /\ q \in Request /\ out \subseteq Request /\ form \in FormType \cup {NoForm}
      /\ db' = db /\ desk' = desk
  BY DEF TypeInv, TypeOK, Succeeds
<1> DEFINE stays(r) == r.this /\ ~Closes(q) /\ ~Selects(q)
<1>2. out' = {[r EXCEPT !.this = stays(r)] : r \in out \ {q}}
  BY DEF Succeeds
<1> HIDE DEF stays
<1>3. CASE Closes(q) \/ Selects(q)
  <2>1. \A r \in out : ~stays(r)
    BY <1>3 DEF stays
  <2>2. \A r \in out' : ~r.this
    BY <1>1, <1>2, <2>1 DEF Request
  <2>3. form' # NoForm => form'.hits = 0
    <3>1. CASE Selects(q)
      <4>1. form # NoForm /\ form' = [form EXCEPT !.rec = q.rec, !.hits = 0, !.again = FALSE]
        BY <3>1 DEF Succeeds, Selects, NoForm
      <4> QED
        BY <1>1, <4>1 DEF FormType
    <3>2. CASE ~Selects(q)
      BY <1>3, <3>2 DEF Succeeds
    <3> QED
      BY <3>1, <3>2
  <2> QED
    BY <2>2, <2>3, OnceAnew
<1>4. CASE ~Closes(q) /\ ~Selects(q)
  <2>1. form' = form
    BY <1>4 DEF Succeeds
  <2>2. ~q.this
    BY <1>4 DEF Closes, TypeInv, FormOpen, OnceInv, ThisForm
  <2>3. \A r \in out : [r EXCEPT !.this = stays(r)] = r
    BY <1>1, <1>4 DEF stays, Request
  <2>4. out' = out \ {q}
    BY <1>2, <2>3
  <2>5. ThisForm'
    BY <2>1, <2>4 DEF OnceInv, ThisForm
  <2>6. OnceLocked'
    BY <1>1, <2>1, <2>2, <2>4 DEF OnceInv, OnceLocked
  <2> QED
    BY <1>1, <2>1, <2>5, <2>6 DEF OnceInv, OnceIdem, OnceFinal, Final, NeedsRow, InRows
<1> QED
  BY <1>3, <1>4

LEMMA OnceLeaves ==
  ASSUME TypeInv, NEW there, NEW old, NEW requests \in SUBSET out, Leaves(there, old, requests)
  PROVE  OnceInv'
<1>1. form' = NoForm
  BY DEF Leaves
<1>2. \A r \in out' : ~r.this
  <2> DEFINE heard(q) == q.heard /\ Queried
  <2>1. \A r \in out' : \E q \in out : r = [q EXCEPT !.this = FALSE, !.heard = heard(q)]
    BY DEF Leaves
  <2> HIDE DEF heard
  <2> QED
    BY <2>1 DEF TypeInv, TypeOK, Request
<1> QED
  BY <1>1, <1>2, OnceAnew

\* Others write to records; one that comes back is as new.
LEMMA OnceForeign ==
  ASSUME TypeInv, OnceInv, NEW o \in desk.others, Foreign(o)
  PROVE  OnceInv'
<1>1. out' = out /\ desk' = desk /\ form \in FormType \cup {NoForm}
  BY DEF TypeInv, TypeOK, Foreign
<1>2. CASE ~InRows
  <2>1. form' = form /\ db' = db
    BY <1>2 DEF Foreign
  <2> QED
    BY <1>1, <2>1 DEF OnceInv, ThisForm, OnceIdem, OnceFinal, OnceLocked, Final, NeedsRow, InRows
<1>3. CASE InRows
  <2>1. PICK r \in Recs : /\ db' = [db EXCEPT ![r] = Outcome(o, db[r])]
                          /\ form' = Reopened(r, Outcome(o, db[r]))
    BY <1>3 DEF Foreign
  <2>2. db \in [Recs -> Here]
    BY <1>3 DEF TypeInv, TypeOK, RowsType
  <2>3. /\ form' \in FormType \cup {NoForm} /\ (form' = NoForm <=> form = NoForm)
        /\ form'.op = form.op /\ form'.rec = form.rec /\ form'.again = form.again
        /\ form'.hits \in {0, form.hits}
        /\ r = form.rec /\ Accepts(form.op, Outcome(o, db[r])) => form'.hits = 0
    BY <1>1, <2>1, FormReopened
  <2>4. OnceFinal'
    <3> SUFFICES ASSUME form # NoForm, Final(form.op), form'.hits > 0
                 PROVE  form'.hits = 1 /\ ~Accepts(form.op, db'[form.rec])
      BY <1>1, <2>3 DEF OnceFinal, Accepts, Final, NeedsRow, InRows
    <3>1. form'.hits = 1 /\ ~Accepts(form.op, db[form.rec])
      BY <2>3 DEF OnceInv, OnceFinal
    <3>2. db'[form.rec] = IF form.rec = r THEN Outcome(o, db[r]) ELSE db[form.rec]
      BY <2>1, <2>2
    <3> QED
      BY <2>3, <3>1, <3>2
  <2>5. ThisForm' /\ OnceIdem'
    BY <1>1, <2>3 DEF OnceInv, ThisForm, OnceIdem
  <2>6. OnceLocked'
    BY <1>1, <2>3 DEF OnceInv, OnceLocked
  <2> QED
    BY <2>4, <2>5, <2>6 DEF OnceInv
<1> QED
  BY <1>2, <1>3

LEMMA OnceStep == TypeInv /\ OnceInv /\ [Next]_vars => OnceInv'
<1> SUFFICES ASSUME TypeInv, OnceInv, [Next]_vars PROVE OnceInv'
  OBVIOUS
<1>1. ASSUME form' = form, out' = out, db' = db, desk' = desk PROVE OnceInv'
  BY <1>1 DEF OnceInv, ThisForm, OnceIdem, OnceFinal, OnceLocked, Final, NeedsRow, InRows
<1>2. CASE \E i \in DOMAIN list.loads : ServerReads(i) \/ Arrives(i) \/ LoadFails(i)
  BY <1>1, <1>2 DEF ServerReads, Arrives, LoadFails
<1>3. CASE StartUpload \/ EndUpload \/ UNCHANGED vars
  BY <1>1, <1>3 DEF StartUpload, EndUpload, vars
<1>4. ASSUME NEW q \in out, SucceedsAway(q)
      PROVE  OnceInv'
  <2>1. Leaves("away", FALSE, out \ {q})
    BY <1>4 DEF SucceedsAway
  <2> QED
    BY <2>1, OnceLeaves
<1>5. ASSUME NEW there \in {"page", "away"}, NEW old \in BOOLEAN, Go(there, old)
      PROVE  OnceInv'
  <2>1. Leaves(there, old, out)
    BY <1>5 DEF Go
  <2> QED
    BY <2>1, OnceLeaves
<1> QED
  BY <1>2, <1>3, <1>4, <1>5, OnceUser, OnceRuns, OnceRefuses, OnceErrors, OnceSucceeds, OnceForeign DEF Next

\* What a user confirms takes effect once on every page that locks its forms while they send,
\* or whose operations leave the statuses that accept them, or bear repetition; and when an
\* error told the user to try again, then still once where the operation leaves its statuses.
THEOREM EffectCorrect == Spec => []TakesEffectOnce
<1>1. TypeInv /\ OnceInv => TakesEffectOnce
  <2> SUFFICES ASSUME TypeInv, OnceInv, form.hits > 1 PROVE TakesEffectOnce
    BY DEF TakesEffectOnce
  <2>1. form # NoForm /\ form.op \in DOMAIN desk.offers /\ desk \in Desks /\ form.hits \in Nat
    BY DEF NoForm, TypeInv, TypeOK, FormType
  <2>2. ~Server[form.op].idem /\ ~Final(form.op)
    BY <2>1 DEF OnceInv, OnceIdem, OnceFinal
  <2>3. form.op \in desk.forms[form.op].locks => form.again
    BY <2>1 DEF OnceInv, OnceLocked
  <2> QED
    BY <2>1, <2>2, <2>3, RepeatsAssumption DEF TakesEffectOnce, Final, NeedsRow, InRows
<1> QED
  BY <1>1, TypeInit, TypeStep, OnceInit, OnceStep, PTL DEF Spec
=============================================================================
