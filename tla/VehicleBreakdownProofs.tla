------------------------ MODULE VehicleBreakdownProofs ------------------------
(***************************************************************************)
(* Theorems about VehicleBreakdown, for any number of trips, stops,        *)
(* reports and desks, and any plan.                                        *)
(***************************************************************************)
EXTENDS VehicleBreakdown, TLAPS

-----------------------------------------------------------------------------
(* The inductive invariant.                                                *)

Exists(t) == t \in Trips /\ status[t] # "absent"

\* A trip that does not exist continues none and has no stops
Unmade ==
    \A t \in Trips : status[t] = "absent" =>
        source[t] = NoTrip /\ \A s \in Stops : stop[t][s] = "none"

\* The admin screen works on trips that exist
AdminsExist ==
    \A a \in Admins : admin[a].op # "idle" => Exists(admin[a].trip) /\ admin[a].seen # "absent"

\* Reports and the copies of them that desks work on name existing trips, and
\* no two reports name the same
ReportsExist ==
    /\ \A b \in Reports : IF Reported(b) THEN Exists(row[b].on) ELSE row[b] = NoRow
    /\ \A d \in Desks : desk[d] # DeskOff =>
         Reported(desk[d].report) /\ Exists(desk[d].copy.on)
ReportsApart == \A b, c \in Reports : Reported(b) /\ row[b].on = row[c].on => b = c

\* The stops a verification carries have their row on the source
KeptKnown ==
    \A d \in Desks : desk[d] # DeskOff /\ desk[d].op = "carry" =>
        \A s \in desk[d].kept : stop[desk[d].copy.on][s] # "none"

\* While no requests on a report have crossed, one desk at most works on it,
\* its copy is the report as it is, and what it checked still holds
Alone ==
    \A d, e \in Desks :
        desk[d] # DeskOff /\ desk[e] # DeskOff /\ desk[d].report = desk[e].report
        /\ ~crossed[desk[d].report] => d = e
CopyFresh ==
    \A d \in Desks : desk[d] # DeskOff /\ ~crossed[desk[d].report] =>
        /\ desk[d].copy = row[desk[d].report]
        /\ desk[d].copy.approval # "Approved"
        /\ desk[d].op \in {"reject", "verify", "carry"} => desk[d].copy.approval = "Pending"

\* ... a report leads to a continuation once it is approved, and every
\* continuation is the one of a report on its source
Decided == \A b \in Reports : ~crossed[b] => (row[b].next # NoTrip <=> row[b].approval = "Approved")
Opened ==
    (\A b \in Reports : ~crossed[b]) =>
        \A n \in Trips : source[n] # NoTrip =>
            \E b \in Reports : row[b].next = n /\ row[b].on = source[n]

IInv ==
    /\ TypeOK
    /\ Unmade /\ AdminsExist /\ ReportsExist /\ ReportsApart /\ KeptKnown
    /\ Alone /\ CopyFresh /\ Decided /\ Opened
    /\ CarriedStopsArrive

\* What a desk that is not off has on it
LEMMA Desked ==
  ASSUME TypeOK, NEW d \in Desks
  PROVE  /\ desk[d].op # "idle" => desk[d] # DeskOff
         /\ desk[d] # DeskOff => /\ desk[d] \in Requests
                                 /\ desk[d].op \in DeskOps /\ desk[d].report \in Reports
                                 /\ desk[d].copy \in Rows /\ desk[d].kept \subseteq Stops
BY DEF TypeOK, Requests, DeskOff

LEMMA NoTripIsNone == NoTrip \notin Trips
BY DEF NoTrip, Trips

-----------------------------------------------------------------------------
(* Trips.                                                                  *)

\* The admin screen's copies are of the row's own columns
LEMMA AdminStepType ==
  ASSUME TripTypeOK, NEW a \in Admins, NEW plan, AdminStep(a, plan)
  PROVE  TripTypeOK'
<1> DEFINE Copies == admin' \in [Admins -> AdminSteps \cup {AdminOff}]
<1> USE DEF TripTypeOK, stopVars
<1>1. admin[a].op # "idle" => admin[a] \in AdminSteps
  BY DEF AdminOff
<1>2. \A op \in AdminOps, t \in Trips : Loading(op, t) \in AdminSteps
  BY DEF Loading, AdminSteps
<1>3. ASSUME NEW t \in Trips, LoadStatus(a, t) \/ LoadForm(a, t) PROVE TripTypeOK'
  BY <1>2, <1>3 DEF LoadStatus, LoadForm, AdminOps
<1>4. CASE ReloadForm(a)
  <2>1. admin[a].trip \in Trips
    BY <1>1, <1>4 DEF ReloadForm, AdminSteps
  <2> QED
    BY <1>2, <1>4, <2>1 DEF ReloadForm, AdminOps
<1>5. CASE AdminStart(a)
  BY <1>5 DEF AdminStart, MarkStarted, Done, TripStatus
<1>6. CASE AdminComplete(a)
  BY <1>6 DEF AdminComplete, MarkEnded, Done, StatusAfterEnd, StartedAfterEnd, TripStatus
<1>7. ASSUME NEW t, NEW new \in TripStatus, NEW begun \in BOOLEAN, SaveRow(t, new, begun), Copies,
             UNCHANGED stopVars
      PROVE  TripTypeOK'
  BY <1>7 DEF SaveRow
<1>8. /\ admin[a].op # "idle" => admin[a].begun \in BOOLEAN /\ admin[a].seen \in TripStatus
      /\ "Cancelled" \in TripStatus
  BY <1>1 DEF AdminSteps, TripStatus
<1>9. Done(a) => Copies
  BY DEF Done
<1>10. ASSUME NEW op \in AdminOps, admin[a].op # "idle", admin' = [admin EXCEPT ![a].op = op]
       PROVE  Copies
  <2>1. [admin[a] EXCEPT !.op = op] \in AdminSteps
    BY <1>1, <1>10 DEF AdminSteps
  <2> QED
    BY <1>10, <2>1
<1>11. CASE AdminCancel(a)
  BY <1>7, <1>8, <1>9, <1>11 DEF AdminCancel
<1>12. CASE AdminEdit(a)
  <2>1. PICK new \in TripStatus : SaveRow(admin[a].trip, new, admin[a].begun)
    BY <1>8, <1>12 DEF AdminEdit
  <2>2. admin[a].begun \in BOOLEAN /\ UNCHANGED stopVars /\ Copies
    BY <1>8, <1>10, <1>12 DEF AdminEdit, AdminOps
  <2> QED
    BY <1>7, <2>1, <2>2
<1>13. CASE CheckForm(a)
  <2>1. Copies
    BY <1>10, <1>13 DEF CheckForm, AdminOps
  <2> QED
    BY <1>13, <2>1 DEF CheckForm
<1>14. CASE FormStops(a, plan)
  <2>1. Copies
    BY <1>9, <1>14 DEF FormStops
  <2>2. PICK form \in [Stops -> StopStatus \ {"none"}] :
          stop' = [stop EXCEPT ![admin[a].trip] =
                     [s \in Stops |-> IF stop[admin[a].trip][s] # "none" THEN form[s]
                                      ELSE IF s \in plan THEN "Pending" ELSE "none"]]
    BY <1>14 DEF FormStops
  <2>3. stop' \in [Trips -> [Stops -> StopStatus]]
    BY <2>2 DEF StopStatus
  <2> QED
    BY <1>14, <2>1, <2>3 DEF FormStops
<1>15. CASE AdminGiveUp(a)
  BY <1>9, <1>15 DEF AdminGiveUp
<1> QED
  BY <1>3, <1>4, <1>5, <1>6, <1>11, <1>12, <1>13, <1>14, <1>15 DEF AdminStep

\* It writes only rows that it found, and never unmakes one
LEMMA AdminKeeps ==
  ASSUME TripTypeOK, AdminsExist, NEW a \in Admins, NEW plan, AdminStep(a, plan)
  PROVE  \A t \in Trips : status'[t] = "absent" <=> status[t] = "absent"
<1> DEFINE Same == \A t \in Trips : status'[t] = "absent" <=> status[t] = "absent"
<1>1. status \in [Trips -> TripStatus]
  BY DEF TripTypeOK
<1>2. admin[a].op # "idle" => status[admin[a].trip] # "absent" /\ admin[a].seen # "absent"
  BY DEF AdminsExist, Exists
<1>3. ASSUME NEW t, NEW new, status[t] # "absent", new # "absent", status' = [status EXCEPT ![t] = new]
      PROVE  Same
  BY <1>1, <1>3
<1>4. ASSUME UNCHANGED status PROVE Same
  BY <1>4
<1>5. CASE AdminStart(a)
  BY <1>1, <1>2, <1>5 DEF AdminStart, MarkStarted
<1>6. CASE AdminComplete(a)
  BY <1>2, <1>3, <1>6 DEF AdminComplete, MarkEnded, StatusAfterEnd
<1>7. CASE AdminCancel(a)
  BY <1>2, <1>3, <1>7 DEF AdminCancel, SaveRow
<1>8. CASE AdminEdit(a)
  BY <1>2, <1>3, <1>8 DEF AdminEdit, SaveRow
<1> QED
  BY <1>4, <1>5, <1>6, <1>7, <1>8 DEF AdminStep, LoadStatus, LoadForm, ReloadForm,
                                          CheckForm, FormStops, AdminGiveUp

\* Its next copy, too, is of a trip that exists
LEMMA AdminFinds ==
  ASSUME TripTypeOK, AdminsExist, NEW a \in Admins, NEW plan, AdminStep(a, plan)
  PROVE  AdminsExist'
<1>1. \A t : Exists(t) => t \in Trips /\ status'[t] # "absent"
  BY AdminKeeps DEF Exists
<1>2. admin \in [Admins -> AdminSteps \cup {AdminOff}]
  BY DEF TripTypeOK
<1>3. ASSUME NEW b \in Admins, admin'[b] = admin[b], admin'[b].op # "idle"
      PROVE  /\ admin'[b].trip \in Trips /\ status'[admin'[b].trip] # "absent"
             /\ admin'[b].seen # "absent"
  BY <1>1, <1>3 DEF AdminsExist
<1>4. ASSUME NEW t, NEW op, Exists(t), admin' = [admin EXCEPT ![a] = Loading(op, t)] PROVE AdminsExist'
  <2>1. admin'[a].trip = t /\ admin'[a].seen = status[t]
    BY <1>2, <1>4 DEF Loading
  <2>2. \A b \in Admins \ {a} : admin'[b] = admin[b]
    BY <1>2, <1>4
  <2> QED
    BY <1>1, <1>3, <1>4, <2>1, <2>2 DEF AdminsExist, Exists
<1>5. ASSUME NEW t \in Trips, LoadStatus(a, t) \/ LoadForm(a, t) PROVE AdminsExist'
  BY <1>4, <1>5 DEF LoadStatus, LoadForm, Exists
<1>6. CASE ReloadForm(a)
  <2>1. Exists(admin[a].trip)
    BY <1>6 DEF ReloadForm, AdminsExist
  <2> QED
    BY <1>4, <1>6, <2>1 DEF ReloadForm
<1>7. CASE Done(a)
  <2>1. admin'[a].op = "idle" /\ \A b \in Admins \ {a} : admin'[b] = admin[b]
    BY <1>2, <1>7 DEF Done, AdminOff
  <2> QED
    BY <1>3, <2>1 DEF AdminsExist, Exists
<1>8. ASSUME NEW op, admin[a].op # "idle", admin' = [admin EXCEPT ![a].op = op] PROVE AdminsExist'
  <2>1. admin'[a].trip = admin[a].trip /\ admin'[a].seen = admin[a].seen
    BY <1>2, <1>8 DEF AdminSteps, AdminOff
  <2>2. \A b \in Admins \ {a} : admin'[b] = admin[b]
    BY <1>2, <1>8
  <2> QED
    BY <1>1, <1>3, <1>8, <2>1, <2>2 DEF AdminsExist, Exists
<1>9. CASE CheckForm(a) \/ AdminEdit(a)
  BY <1>8, <1>9 DEF CheckForm, AdminEdit
<1> QED
  BY <1>5, <1>6, <1>7, <1>9 DEF AdminStep, AdminStart, AdminComplete, AdminCancel, FormStops, AdminGiveUp

\* The only stops a screen adds are rows of the plan on a trip that exists
LEMMA AdminStops ==
  ASSUME TripTypeOK, AdminsExist, NEW a \in Admins, NEW plan, AdminStep(a, plan)
  PROVE  /\ UNCHANGED carriedTo
         /\ \A t \in Trips, s \in Stops : stop[t][s] # "none" => stop'[t][s] # "none"
         /\ \A t \in Trips : status[t] = "absent" => stop'[t] = stop[t]
<1> DEFINE Kept == /\ UNCHANGED carriedTo
                   /\ \A t \in Trips, s \in Stops : stop[t][s] # "none" => stop'[t][s] # "none"
                   /\ \A t \in Trips : status[t] = "absent" => stop'[t] = stop[t]
<1>1. CASE UNCHANGED <<stop, carriedTo>>
  BY <1>1
<1>2. CASE FormStops(a, plan)
  <2>1. admin[a].trip \in Trips /\ status[admin[a].trip] # "absent"
    BY <1>2 DEF FormStops, AdminsExist, Exists
  <2>2. PICK form \in [Stops -> StopStatus \ {"none"}] :
          stop' = [stop EXCEPT ![admin[a].trip] =
                     [s \in Stops |-> IF stop[admin[a].trip][s] # "none" THEN form[s]
                                      ELSE IF s \in plan THEN "Pending" ELSE "none"]]
    BY <1>2 DEF FormStops
  <2>3. \A t \in Trips : t # admin[a].trip => stop'[t] = stop[t]
    BY <2>2 DEF TripTypeOK
  <2>4. \A s \in Stops : stop[admin[a].trip][s] # "none" => stop'[admin[a].trip][s] # "none"
    BY <2>1, <2>2 DEF TripTypeOK
  <2>5. UNCHANGED carriedTo
    BY <1>2 DEF FormStops
  <2> QED
    BY <2>1, <2>3, <2>4, <2>5
<1> QED
  BY <1>1, <1>2 DEF AdminStep, LoadStatus, LoadForm, ReloadForm, CheckForm, AdminStart, AdminComplete,
                    AdminCancel, AdminEdit, AdminGiveUp, stopVars

\* No screen or scan creates or removes a trip, removes a stop or redirects one
LEMMA TripKeeps ==
  ASSUME TypeOK, AdminsExist, TripStep
  PROVE  /\ TripTypeOK' /\ AdminsExist'
         /\ \A t \in Trips : status'[t] = "absent" <=> status[t] = "absent"
         /\ \A t \in Trips, s \in Stops : stop[t][s] # "none" => stop'[t][s] # "none"
         /\ \A t \in Trips : status[t] = "absent" => stop'[t] = stop[t]
         /\ UNCHANGED carriedTo
<1> DEFINE Kept == /\ TripTypeOK' /\ AdminsExist'
                   /\ \A t \in Trips : status'[t] = "absent" <=> status[t] = "absent"
                   /\ \A t \in Trips, s \in Stops : stop[t][s] # "none" => stop'[t][s] # "none"
                   /\ \A t \in Trips : status[t] = "absent" => stop'[t] = stop[t]
                   /\ UNCHANGED carriedTo
<1> SUFFICES Kept
  OBVIOUS
<1>0. TripTypeOK
  BY DEF TypeOK
<1>1. ASSUME NEW a \in Admins, AdminStep(a, Planned) PROVE Kept
  BY <1>0, <1>1, AdminStepType, AdminKeeps, AdminFinds, AdminStops
<1> USE DEF TripTypeOK
<1>4. ASSUME NEW t \in Visible, NEW s \in Stops, NEW outcome \in {"Collected", "Skipped", "Missed"},
             NEW weight \in BOOLEAN, Resolve(t, s, outcome, weight)
      PROVE  Kept
  <2>1. t \in Trips /\ status[t] # "absent"
    BY DEF Visible
  <2>2. /\ stop' \in [Trips -> [Stops -> StopStatus]]
        /\ \A u \in Trips, z \in Stops : stop[u][z] # "none" => stop'[u][z] # "none"
        /\ \A u \in Trips : status[u] = "absent" => stop'[u] = stop[u]
    BY <1>0, <1>4, <2>1 DEF Resolve, PendingStops, StopStatus
  <2>3. weighed' \in [Trips -> BOOLEAN]
    BY <1>0, <1>4 DEF Resolve
  <2>4. log' \in [Trips -> LogStatus]
    BY <1>0, <1>4 DEF Resolve, LogStatus
  <2>5. /\ status' \in [Trips -> TripStatus] /\ started' \in [Trips -> BOOLEAN]
        /\ \A u \in Trips : status'[u] = "absent" <=> status[u] = "absent"
    BY <1>0, <1>4, <2>1 DEF Resolve, MarkEnded, StatusAfterEnd, StartedAfterEnd, TripStatus
  <2>6. AdminsExist' /\ UNCHANGED <<admin, unstamped, carriedTo>>
    BY <1>0, <1>4, <2>5 DEF Resolve, AdminsExist, Exists
  <2> QED
    BY <1>0, <2>2, <2>3, <2>4, <2>5, <2>6
<1> QED
  BY <1>1, <1>4 DEF TripStep

LEMMA TripInv == ASSUME IInv, TripStep PROVE IInv'
<1>1. TypeOK /\ AdminsExist
  BY DEF IInv
<1>2. UNCHANGED <<row, source, desk, crossed>>
  BY DEF TripStep, breakdownVars
<1>3. TypeOK'
  BY <1>1, <1>2, TripKeeps DEF TypeOK
<1>4. Unmade' /\ AdminsExist'
  BY <1>1, <1>2, TripKeeps DEF IInv, Unmade
<1>5. ReportsExist' /\ ReportsApart'
  BY <1>1, <1>2, TripKeeps DEF IInv, ReportsExist, ReportsApart, Exists, Reported
<1>6. KeptKnown'
  <2> SUFFICES ASSUME NEW d \in Desks, desk[d] # DeskOff, desk[d].op = "carry", NEW s \in desk[d].kept
               PROVE  stop'[desk[d].copy.on][s] # "none"
    BY <1>2 DEF KeptKnown
  <2>1. s \in Stops /\ desk[d].copy.on \in Trips
    BY <1>1, Desked DEF IInv, ReportsExist, Exists
  <2> QED
    BY <1>1, <2>1, TripKeeps DEF IInv, KeptKnown
<1>7. Alone' /\ CopyFresh' /\ Decided' /\ Opened'
  BY <1>2 DEF IInv, Alone, CopyFresh, Decided, Opened
<1>8. CarriedStopsArrive'
  <2>1. \A t \in Trips, s \in Stops : carriedTo[t][s] \in Trips \cup {NoTrip}
    BY <1>1 DEF TypeOK, TripTypeOK
  <2>2. \A t \in Trips : source[t] \in Trips \cup {NoTrip}
    BY <1>1 DEF TypeOK
  <2> QED
    BY <1>1, <1>2, <2>1, <2>2, TripKeeps DEF IInv, CarriedStopsArrive
<1> QED
  BY <1>3, <1>4, <1>5, <1>6, <1>7, <1>8 DEF IInv

-----------------------------------------------------------------------------
(* Requests that leave the trips alone.                                    *)

LEMMA SameTrips ==
  ASSUME IInv, UNCHANGED <<tripVars, source>>
  PROVE  /\ TripTypeOK' /\ source' \in [Trips -> Trips \cup {NoTrip}]
         /\ Unmade' /\ AdminsExist' /\ CarriedStopsArrive'
         /\ \A t \in Trips : status'[t] = status[t]
BY DEF IInv, TypeOK, TripTypeOK, Unmade, AdminsExist, Exists, CarriedStopsArrive, tripVars, stopVars

\* A driver reports a breakdown
LEMMA ReportInv ==
  ASSUME IInv, NEW b \in Reports, NEW t \in Trips, Report(b, t)
  PROVE  IInv'
<1>1. TypeOK /\ UNCHANGED <<tripVars, source, desk, crossed>>
  BY DEF IInv, Report
<1>2. /\ row \in [Reports -> Rows] /\ ~Reported(b) /\ Untaken(b, t) /\ Exists(t)
      /\ row' = [row EXCEPT ![b] = [NoRow EXCEPT !.on = t]]
  BY <1>1 DEF Report, TypeOK, Exists, OpenStatus
<1>3. /\ [NoRow EXCEPT !.on = t] \in Rows /\ row'[b].on = t /\ row'[b].next = NoTrip
      /\ row'[b].approval = "Pending"
      /\ \A c \in Reports \ {b} : row'[c] = row[c]
  BY <1>2 DEF NoRow, Rows, Approvals, NoTrip
<1>4. TypeOK'
  BY <1>1, <1>2, <1>3, SameTrips DEF TypeOK
<1>5. \A d \in Desks : desk[d] # DeskOff => desk[d].report \in Reports \ {b}
  BY <1>1, <1>2, Desked DEF IInv, ReportsExist
<1>6. ReportsExist'
  BY <1>1, <1>2, <1>3, <1>5, NoTripIsNone DEF IInv, ReportsExist, Exists, Reported, tripVars, stopVars
<1>7. ReportsApart'
  BY <1>2, <1>3 DEF IInv, ReportsApart, Reported, Untaken
<1>8. KeptKnown' /\ Alone'
  BY <1>1 DEF IInv, KeptKnown, Alone, tripVars, stopVars
<1>9. CopyFresh'
  BY <1>1, <1>3, <1>5 DEF IInv, CopyFresh
<1>10. Decided'
  BY <1>1, <1>3 DEF IInv, Decided
<1>11. Opened'
  <2> SUFFICES ASSUME \A c \in Reports : ~crossed[c], NEW n \in Trips, source[n] # NoTrip
               PROVE  \E c \in Reports : row'[c].next = n /\ row'[c].on = source[n]
    BY <1>1 DEF Opened
  <2>1. PICK c \in Reports : row[c].next = n /\ row[c].on = source[n]
    BY DEF IInv, Opened
  <2> QED
    BY <1>2, <1>3, <2>1 DEF Reported
<1> QED
  BY <1>1, <1>4, <1>6, <1>7, <1>8, <1>9, <1>10, <1>11, SameTrips DEF IInv

\* A request begins: it has its copy, and may cross another
LEMMA BeginInv ==
  ASSUME IInv, NEW d \in Desks, NEW op \in DeskOps, NEW b \in Reports, Begin(d, op, b),
         row[b].approval # "Approved", op # "carry",
         op \in {"reject", "verify"} => row[b].approval = "Pending"
  PROVE  IInv'
<1>1. TypeOK /\ UNCHANGED <<tripVars, source, row>>
  BY DEF IInv, Begin
<1>2. /\ desk \in [Desks -> Requests \cup {DeskOff}] /\ crossed \in [Reports -> BOOLEAN]
      /\ row \in [Reports -> Rows] /\ Reported(b)
      /\ desk' = [desk EXCEPT ![d] = Request(op, b, row[b], {})]
      /\ crossed' = [crossed EXCEPT ![b] = @ \/ \E e \in Desks : Busy(e, b)]
  BY <1>1 DEF Begin, TypeOK
<1>3. Request(op, b, row[b], {}) \in Requests /\ Request(op, b, row[b], {}) # DeskOff
  BY <1>2 DEF Request, Requests, DeskOff, DeskOps
<1>4. /\ desk'[d] # DeskOff /\ desk'[d].op = op /\ desk'[d].report = b /\ desk'[d].copy = row[b]
      /\ \A e \in Desks \ {d} : desk'[e] = desk[e]
  BY <1>2, <1>3 DEF Request
<1>5. /\ \A c \in Reports : ~crossed'[c] => ~crossed[c]
      /\ ~crossed'[b] => \A e \in Desks : ~Busy(e, b)
  BY <1>2
<1>6. TypeOK'
  BY <1>1, <1>2, <1>3, SameTrips DEF TypeOK
<1>7. ReportsExist' /\ ReportsApart'
  BY <1>1, <1>2, <1>4, SameTrips DEF IInv, ReportsExist, ReportsApart, Exists, Reported
<1>8. KeptKnown'
  BY <1>1, <1>4 DEF IInv, KeptKnown, tripVars, stopVars
<1>9. \A e \in Desks : desk[e] # DeskOff => desk[e].report \in Reports /\ desk[e].op # "idle"
  BY <1>1, Desked DEF DeskOps
<1>10. Alone'
  BY <1>4, <1>5, <1>9 DEF IInv, Alone, Busy
<1>11. CopyFresh'
  BY <1>1, <1>4, <1>5, <1>9 DEF IInv, CopyFresh
<1>12. Decided' /\ Opened'
  BY <1>1, <1>5 DEF IInv, Decided, Opened
<1> QED
  BY <1>1, <1>6, <1>7, <1>8, <1>10, <1>11, <1>12, SameTrips DEF IInv

\* A request goes on, or is given up, without writing a row
LEMMA DeskInv ==
  ASSUME IInv, NEW d \in Desks, desk[d] # DeskOff, NEW work \in Requests \cup {DeskOff},
         desk' = [desk EXCEPT ![d] = work], UNCHANGED <<tripVars, row, source, crossed>>,
         work # DeskOff => /\ work.report = desk[d].report
                           /\ work.copy \in {desk[d].copy, row[desk[d].report]}
                           /\ work.op = desk[d].op \/ work.op = "save"
                              \/ desk[d].op = "verify"
                           /\ work.op = "carry" =>
                                \A s \in work.kept : stop[work.copy.on][s] # "none"
  PROVE  IInv'
<1>1. TypeOK /\ desk \in [Desks -> Requests \cup {DeskOff}]
  BY DEF IInv, TypeOK
<1>2. desk'[d] = work /\ \A e \in Desks \ {d} : desk'[e] = desk[e]
  BY <1>1
<1>3. TypeOK'
  BY <1>1, SameTrips DEF TypeOK
<1>4. ReportsExist' /\ ReportsApart'
  <2>1. Reported(desk[d].report) /\ Exists(desk[d].copy.on) /\ Exists(row[desk[d].report].on)
    BY <1>1, Desked DEF IInv, ReportsExist
  <2>2. work # DeskOff => Reported(work.report)' /\ Exists(work.copy.on)'
    BY <2>1, SameTrips DEF Exists, Reported
  <2> QED
    BY <1>2, <2>2, SameTrips DEF IInv, ReportsExist, ReportsApart, Exists, Reported
<1>5. KeptKnown'
  BY <1>2 DEF IInv, KeptKnown, tripVars, stopVars
<1>6. Alone'
  BY <1>2 DEF IInv, Alone
<1>7. CopyFresh'
  BY <1>2 DEF IInv, CopyFresh
<1>8. Decided' /\ Opened'
  BY DEF IInv, Decided, Opened
<1> QED
  BY <1>3, <1>4, <1>5, <1>6, <1>7, <1>8, SameTrips DEF IInv

\* A request that opens no continuation writes the report
LEMMA WriteInv ==
  ASSUME IInv, NEW d \in Desks, desk[d] # DeskOff, NEW columns \in Rows, Conclude(d, columns),
         UNCHANGED <<tripVars, source>>,
         Exists(columns.on), Untaken(desk[d].report, columns.on),
         ~crossed[desk[d].report] => columns.next = NoTrip /\ columns.approval # "Approved"
  PROVE  IInv'
<1> DEFINE b == desk[d].report
<1>1. /\ TypeOK /\ b \in Reports /\ crossed' = crossed
      /\ desk \in [Desks -> Requests \cup {DeskOff}] /\ row \in [Reports -> Rows]
  BY Desked DEF IInv, TypeOK, Conclude
<1>2. /\ desk'[d] = DeskOff /\ \A e \in Desks \ {d} : desk'[e] = desk[e]
      /\ row'[b] = columns /\ \A c \in Reports \ {b} : row'[c] = row[c]
  BY <1>1 DEF Conclude
<1>3. TypeOK'
  BY <1>1, SameTrips DEF TypeOK, Conclude
<1>4. ReportsExist'
  BY <1>1, <1>2, SameTrips, Desked DEF IInv, ReportsExist, Exists, Reported, NoTrip, Trips
<1>5. ReportsApart'
  BY <1>2 DEF IInv, ReportsApart, Reported, Untaken
<1>6. KeptKnown' /\ Alone'
  BY <1>1, <1>2 DEF IInv, KeptKnown, Alone, tripVars, stopVars
<1>7. CopyFresh'
  BY <1>1, <1>2, Desked DEF IInv, CopyFresh, Alone
<1>8. Decided'
  BY <1>1, <1>2 DEF IInv, Decided
<1>9. Opened'
  <2> SUFFICES ASSUME \A c \in Reports : ~crossed[c], NEW n \in Trips, source[n] # NoTrip
               PROVE  \E c \in Reports : row'[c].next = n /\ row'[c].on = source[n]
    BY <1>1 DEF Opened
  <2>1. PICK c \in Reports : row[c].next = n /\ row[c].on = source[n]
    BY DEF IInv, Opened
  <2>2. row[b].next = NoTrip
    BY <1>1 DEF IInv, CopyFresh, Decided
  <2> QED
    BY <1>2, <2>1, <2>2, NoTripIsNone
<1> QED
  BY <1>3, <1>4, <1>5, <1>6, <1>7, <1>8, <1>9, SameTrips DEF IInv

-----------------------------------------------------------------------------
(* A verification opens the continuation.                                  *)

LEMMA VerifyInv ==
  ASSUME IInv, NEW d \in Desks, NEW n \in Trips, VerifyCommit(d, n)
  PROVE  IInv'
<1> DEFINE b == desk[d].report
           src == desk[d].copy.on
           kept == desk[d].kept
<1>1. /\ TypeOK /\ desk[d] # DeskOff /\ desk[d].op = "carry" /\ crossed' = crossed
      /\ b \in Reports /\ kept \subseteq Stops /\ Exists(src) /\ Reported(b)
      /\ \A s \in kept : stop[src][s] # "none"
  BY Desked DEF IInv, VerifyCommit, Conclude, DeskOff, ReportsExist, KeptKnown
<1>2. /\ status[n] = "absent" /\ n # src /\ source[n] = NoTrip /\ n # NoTrip /\ src # NoTrip
      /\ src \in Trips
  BY <1>1, NoTripIsNone DEF VerifyCommit, IInv, Unmade, Exists, Trips
<1>3. /\ status' = [status EXCEPT ![n] = "Scheduled"]
      /\ source' = [source EXCEPT ![n] = src]
      /\ stop' = [stop EXCEPT ![n] =
                    [s \in Stops |-> IF s \in kept \cap Planned THEN "Pending" ELSE "none"]]
      /\ carriedTo' = [carriedTo EXCEPT ![src] = [s \in Stops |-> IF s \in kept THEN n ELSE @[s]]]
      /\ UNCHANGED <<started, weighed, log, admin, unstamped>>
  BY DEF VerifyCommit, Replace
<1>4. row[b] \in Rows /\ row \in [Reports -> Rows] /\ desk \in [Desks -> Requests \cup {DeskOff}]
  BY <1>1 DEF TypeOK
<1>5. /\ desk'[d] = DeskOff /\ \A e \in Desks \ {d} : desk'[e] = desk[e]
      /\ row'[b] = [row[b] EXCEPT !.approval = "Approved", !.next = n]
      /\ \A c \in Reports \ {b} : row'[c] = row[c]
  BY <1>1, <1>4 DEF VerifyCommit, Conclude, InDb
<1>6. /\ row'[b] \in Rows /\ row'[b].on = row[b].on /\ row'[b].next = n
      /\ row'[b].approval = "Approved"
  BY <1>4, <1>5 DEF Rows, Approvals
<1>7. /\ \A t \in Trips : Exists(t) => status'[t] # "absent"
      /\ source'[n] = src /\ \A t \in Trips \ {n} : source'[t] = source[t]
      /\ \A t \in Trips \ {n} : stop'[t] = stop[t]
      /\ \A s \in Stops : stop'[n][s] = IF s \in kept \cap Planned THEN "Pending" ELSE "none"
      /\ \A t \in Trips \ {src} : carriedTo'[t] = carriedTo[t]
      /\ \A s \in Stops : carriedTo'[src][s] = IF s \in kept THEN n ELSE carriedTo[src][s]
  BY <1>1, <1>2, <1>3 DEF TypeOK, TripTypeOK, Exists
<1>8. TypeOK'
  <2>1. TripTypeOK'
    <3>1. /\ status' \in [Trips -> TripStatus]
          /\ UNCHANGED <<started, weighed, log, admin, unstamped>>
      BY <1>1, <1>3 DEF TypeOK, TripTypeOK, TripStatus
    <3>2. stop' \in [Trips -> [Stops -> StopStatus]]
      BY <1>1, <1>3 DEF TypeOK, TripTypeOK, StopStatus
    <3>3. carriedTo' \in [Trips -> [Stops -> Trips \cup {NoTrip}]]
      BY <1>1, <1>2, <1>3 DEF TypeOK, TripTypeOK
    <3> QED
      BY <1>1, <3>1, <3>2, <3>3 DEF TypeOK, TripTypeOK
  <2>2. source' \in [Trips -> Trips \cup {NoTrip}]
    BY <1>1, <1>2, <1>3 DEF TypeOK
  <2>3. row' \in [Reports -> Rows] /\ desk' \in [Desks -> Requests \cup {DeskOff}]
    BY <1>4, <1>5, <1>6 DEF VerifyCommit, Conclude
  <2> QED
    BY <1>1, <2>1, <2>2, <2>3 DEF TypeOK
<1>9. Unmade' /\ AdminsExist'
  <2>1. AdminsExist'
    BY <1>3, <1>7 DEF IInv, AdminsExist, Exists
  <2> QED
    BY <1>1, <1>2, <1>3, <2>1 DEF IInv, Unmade, TypeOK, TripTypeOK
<1>10. ReportsExist'
  <2>1. \A c \in Reports : row'[c].on = row[c].on
    BY <1>5, <1>6
  <2> QED
    BY <1>1, <1>5, <1>7, <2>1, Desked DEF IInv, ReportsExist, Exists, Reported
<1>11. ReportsApart'
  <2>1. \A c \in Reports : row'[c].on = row[c].on
    BY <1>5, <1>6
  <2> QED
    BY <2>1 DEF IInv, ReportsApart, Reported
<1>12. KeptKnown'
  <2> SUFFICES ASSUME NEW e \in Desks \ {d}, desk[e] # DeskOff, desk[e].op = "carry",
                      NEW s \in desk[e].kept
               PROVE  stop'[desk[e].copy.on][s] # "none"
    BY <1>5 DEF KeptKnown
  <2>1. Exists(desk[e].copy.on) /\ stop[desk[e].copy.on][s] # "none"
    BY DEF IInv, ReportsExist, KeptKnown
  <2> QED
    BY <1>2, <1>7, <2>1 DEF Exists
<1>13. Alone'
  BY <1>1, <1>5 DEF IInv, Alone
<1>14. CopyFresh'
  BY <1>1, <1>5, Desked DEF IInv, CopyFresh, Alone
<1>15. Decided'
  <2> SUFFICES ASSUME NEW c \in Reports, ~crossed[c]
               PROVE  row'[c].next # NoTrip <=> row'[c].approval = "Approved"
    BY <1>1 DEF Decided
  <2>1. CASE c = b
    BY <1>2, <1>6, <2>1
  <2>2. CASE c # b
    BY <1>5, <2>2 DEF IInv, Decided
  <2> QED
    BY <2>1, <2>2
<1>16. Opened'
  <2> SUFFICES ASSUME \A c \in Reports : ~crossed[c], NEW m \in Trips, source'[m] # NoTrip
               PROVE  \E c \in Reports : row'[c].next = m /\ row'[c].on = source'[m]
    BY <1>1 DEF Opened
  <2>1. row[b].on = src /\ row[b].next = NoTrip
    BY <1>1 DEF IInv, CopyFresh, Decided
  <2>2. CASE m = n
    BY <1>1, <1>6, <1>7, <2>1, <2>2
  <2>3. CASE m # n
    <3>1. PICK c \in Reports : row[c].next = m /\ row[c].on = source[m]
      BY <1>7, <2>3 DEF IInv, Opened
    <3> QED
      BY <1>5, <1>7, <2>1, <2>3, <3>1, NoTripIsNone
  <2> QED
    BY <2>2, <2>3
<1>17. CarriedStopsArrive'
  <2>1. ASSUME NEW t \in Trips, NEW s \in Stops, carriedTo'[t][s] # NoTrip
        PROVE  /\ source'[carriedTo'[t][s]] = t
               /\ s \in Planned => stop'[carriedTo'[t][s]][s] # "none"
    <3>1. CASE t = src /\ s \in kept
      BY <1>2, <1>7, <3>1
    <3>2. CASE ~(t = src /\ s \in kept)
      <4>1. carriedTo'[t][s] = carriedTo[t][s] /\ carriedTo[t][s] \in Trips
        BY <1>1, <1>7, <2>1, <3>2 DEF TypeOK, TripTypeOK
      <4>2. /\ source[carriedTo[t][s]] = t
            /\ s \in Planned => stop[carriedTo[t][s]][s] # "none"
        BY <2>1, <4>1 DEF IInv, CarriedStopsArrive
      <4>3. carriedTo[t][s] # n
        BY <1>2, <4>2, NoTripIsNone
      <4> QED
        BY <1>7, <4>1, <4>2, <4>3
    <3> QED
      BY <3>1, <3>2
  <2> QED
    BY <2>1 DEF CarriedStopsArrive
<1> QED
  BY <1>8, <1>9, <1>10, <1>11, <1>12, <1>13, <1>14, <1>15, <1>16, <1>17 DEF IInv

-----------------------------------------------------------------------------
(* The specification.                                                      *)

\* Every step of a desk is one of the above
LEMMA DeskStepInv == ASSUME IInv, NEW d \in Desks, DeskStep(d) PROVE IInv'
<1>1. TypeOK /\ desk \in [Desks -> Requests \cup {DeskOff}] /\ row \in [Reports -> Rows]
  BY DEF IInv, TypeOK
<1>2. ASSUME NEW b \in Reports,
             BeginEdit(d, b) \/ BeginDelete(d, b) \/ BeginReject(d, b) \/ BeginVerify(d, b)
      PROVE  IInv'
  <2>1. CASE BeginEdit(d, b)
    BY <2>1, BeginInv DEF BeginEdit, DeskOps
  <2>2. CASE BeginDelete(d, b)
    BY <2>2, BeginInv DEF BeginDelete, DeskOps
  <2>3. CASE BeginReject(d, b)
    BY <2>3, BeginInv DEF BeginReject, DeskOps
  <2>4. CASE BeginVerify(d, b)
    BY <2>4, BeginInv DEF BeginVerify, DeskOps
  <2> QED
    BY <1>2, <2>1, <2>2, <2>3, <2>4
<1>3. CASE GiveUp(d)
  <2>1. desk[d] # DeskOff
    BY <1>1, <1>3, Desked DEF GiveUp
  <2> QED
    BY <1>3, <2>1, DeskInv DEF GiveUp
<1>4. ASSUME desk[d] # DeskOff
      PROVE  /\ desk[d].report \in Reports /\ desk[d].copy \in Rows /\ InDb(d) \in Rows
             /\ Reported(desk[d].report) /\ Exists(desk[d].copy.on) /\ Exists(InDb(d).on)
             /\ ~crossed[desk[d].report] => /\ desk[d].copy = InDb(d)
                                            /\ InDb(d).approval # "Approved"
                                            /\ InDb(d).next = NoTrip
  <2>1. desk[d].report \in Reports /\ desk[d].copy \in Rows
    BY <1>1, <1>4, Desked
  <2>2. Reported(desk[d].report) /\ Exists(desk[d].copy.on) /\ Exists(InDb(d).on)
    BY <1>4, <2>1 DEF IInv, ReportsExist, InDb
  <2> QED
    BY <1>1, <1>4, <2>1, <2>2 DEF IInv, CopyFresh, Decided, InDb
<1>5. CASE EditReload(d)
  <2>1. desk[d] # DeskOff
    BY <1>1, <1>5, Desked DEF EditReload
  <2> DEFINE work == Request("save", desk[d].report, InDb(d), {})
  <2>2. /\ work \in Requests /\ work.report = desk[d].report
        /\ work.copy = row[desk[d].report] /\ work.op = "save"
    BY <1>4, <2>1 DEF Request, Requests, DeskOps, InDb
  <2>3. desk' = [desk EXCEPT ![d] = work] /\ UNCHANGED <<tripVars, row, source, crossed>>
    BY <1>5 DEF EditReload
  <2> HIDE DEF work
  <2> QED
    BY <2>1, <2>2, <2>3, DeskInv
<1>6. ASSUME NEW kept \in SUBSET Stops, VerifyRead(d, kept) PROVE IInv'
  <2>1. desk[d] # DeskOff /\ desk[d].op = "verify"
    BY <1>1, <1>6, Desked DEF VerifyRead
  <2> DEFINE work == Request("carry", desk[d].report, desk[d].copy, kept)
  <2>2. /\ work \in Requests /\ work.report = desk[d].report
        /\ work.copy = desk[d].copy /\ work.op = "carry" /\ work.kept = kept
    BY <1>4, <2>1 DEF Request, Requests, DeskOps
  <2>3. \A s \in kept : stop[desk[d].copy.on][s] # "none"
    BY <1>6 DEF VerifyRead, PendingStops
  <2>4. desk' = [desk EXCEPT ![d] = work] /\ UNCHANGED <<tripVars, row, source, crossed>>
    BY <1>6 DEF VerifyRead
  <2> HIDE DEF work
  <2> QED
    BY <2>1, <2>2, <2>3, <2>4, DeskInv
<1>7. ASSUME NEW t \in Trips, EditSave(d, t) PROVE IInv'
  <2>1. desk[d] # DeskOff /\ desk[d].op = "save"
    BY <1>1, <1>7, Desked DEF EditSave
  <2> DEFINE columns == [desk[d].copy EXCEPT !.on = t]
  <2>2. /\ columns \in Rows /\ columns.on = t
        /\ columns.next = desk[d].copy.next /\ columns.approval = desk[d].copy.approval
    BY <1>4, <2>1 DEF Rows
  <2>3. Exists(t)
    BY <1>4, <1>7, <2>1 DEF EditSave, Exists, OpenStatus
  <2>4. Conclude(d, columns) /\ Untaken(desk[d].report, t) /\ UNCHANGED <<tripVars, source>>
    BY <1>7 DEF EditSave
  <2> HIDE DEF columns
  <2> QED
    BY <1>4, <2>1, <2>2, <2>3, <2>4, WriteInv
<1>8. ASSUME desk[d] # DeskOff PROVE Untaken(desk[d].report, InDb(d).on)
  BY <1>4, <1>8 DEF IInv, ReportsApart, Reported, Untaken, InDb
<1>9. CASE Delete(d)
  <2>1. desk[d] # DeskOff
    BY <1>1, <1>9, Desked DEF Delete
  <2> DEFINE columns == [InDb(d) EXCEPT !.deleted = TRUE]
  <2>2. /\ columns \in Rows /\ columns.on = InDb(d).on
        /\ columns.next = InDb(d).next /\ columns.approval = InDb(d).approval
    BY <1>4, <2>1 DEF Rows
  <2>3. Conclude(d, columns) /\ UNCHANGED <<tripVars, source>>
    BY <1>9 DEF Delete
  <2> HIDE DEF columns
  <2> QED
    BY <1>4, <1>8, <2>1, <2>2, <2>3, WriteInv
<1>10. CASE Reject(d)
  <2>1. desk[d] # DeskOff
    BY <1>1, <1>10, Desked DEF Reject
  <2> DEFINE columns == [InDb(d) EXCEPT !.approval = "Rejected"]
  <2>2. /\ columns \in Rows /\ columns.on = InDb(d).on
        /\ columns.next = InDb(d).next /\ columns.approval = "Rejected"
    BY <1>4, <2>1 DEF Rows, Approvals
  <2>3. Conclude(d, columns) /\ UNCHANGED <<tripVars, source>>
    BY <1>10 DEF Reject
  <2> HIDE DEF columns
  <2> QED
    BY <1>4, <1>8, <2>1, <2>2, <2>3, WriteInv
<1> QED
  BY <1>2, <1>3, <1>5, <1>6, <1>7, <1>9, <1>10, VerifyInv DEF DeskStep

LEMMA InvStep == IInv /\ [Next]_vars => IInv'
<1> SUFFICES ASSUME IInv, [Next]_vars PROVE IInv'
  OBVIOUS
<1>1. CASE TripStep
  BY <1>1, TripInv
<1>2. ASSUME NEW b \in Reports, NEW t \in Trips, Report(b, t) PROVE IInv'
  BY <1>2, ReportInv
<1>3. ASSUME NEW d \in Desks, DeskStep(d) PROVE IInv'
  BY <1>3, DeskStepInv
<1>4. CASE UNCHANGED vars
  <2>1. UNCHANGED <<tripVars, row, source, desk, crossed>>
    BY <1>4 DEF vars, breakdownVars
  <2>2. TypeOK' /\ Unmade' /\ AdminsExist' /\ CarriedStopsArrive'
    BY <2>1, SameTrips DEF IInv, TypeOK
  <2>3. ReportsExist' /\ ReportsApart' /\ KeptKnown' /\ Alone' /\ CopyFresh' /\ Decided' /\ Opened'
    BY <2>1 DEF IInv, ReportsExist, ReportsApart, KeptKnown, Alone, CopyFresh, Decided, Opened,
                Exists, Reported, tripVars, stopVars
  <2> QED
    BY <2>2, <2>3 DEF IInv
<1> QED
  BY <1>1, <1>2, <1>3, <1>4 DEF Next

LEMMA InitInv == Init => IInv
<1> SUFFICES ASSUME Init PROVE IInv
  OBVIOUS
<1>1. /\ TypeOK /\ \A b \in Reports : row[b] = NoRow /\ crossed[b] = FALSE
      /\ \A t \in Trips : source[t] = NoTrip
      /\ \A d \in Desks : desk[d] = DeskOff
  BY DEF Init, TypeOK, TripInit, TripTypeOK, TripStatus, StopStatus, LogStatus, Rows, NoRow,
         Approvals, Trips
<1>2. Unmade /\ AdminsExist
  BY <1>1 DEF Init, TripInit, Unmade, AdminsExist, AdminOff, Trips
<1>3. ReportsExist /\ ReportsApart /\ KeptKnown /\ Alone /\ CopyFresh /\ Decided /\ Opened
  <2>1. \A b \in Reports : ~Reported(b) /\ row[b].next = NoTrip /\ row[b].approval = "Pending"
    BY <1>1 DEF Reported, NoRow
  <2>2. ReportsExist
    BY <1>1, <2>1 DEF ReportsExist
  <2>3. ReportsApart /\ Decided
    BY <2>1 DEF ReportsApart, Decided
  <2>4. KeptKnown /\ Alone /\ CopyFresh
    BY <1>1 DEF KeptKnown, Alone, CopyFresh
  <2>5. Opened
    BY <1>1 DEF Opened
  <2> QED
    BY <2>2, <2>3, <2>4, <2>5
<1>4. CarriedStopsArrive
  BY <1>1 DEF Init, TripInit, CarriedStopsArrive, Trips
<1> QED
  BY <1>1, <1>2, <1>3, <1>4 DEF IInv

LEMMA Invariant == Spec => []IInv
BY InitInv, InvStep, PTL DEF Spec

-----------------------------------------------------------------------------
(* The theorems.                                                           *)

\* Every column of a report and of the trips keeps to its values, whatever the
\* desks' requests write in whichever order (VehicleBreakdown's choices)
THEOREM BreakdownTypes == Spec => []TypeOK
<1>1. IInv => TypeOK
  BY DEF IInv
<1> QED
  BY <1>1, Invariant, PTL

\* Verifying carries each ticked stop to the continuation it opens
\* (create_breakdown_continuation), and nothing else ever redirects a stop
THEOREM StopsArrive == Spec => []CarriedStopsArrive
<1>1. IInv => CarriedStopsArrive
  BY DEF IInv
<1> QED
  BY <1>1, Invariant, PTL

\* While no two requests on one report have crossed, a trip has one continuation
\* at most: save_verified's check of its copy then stands until it commits
THEOREM TripReplacedOnce == Spec => []ReplacedOnce
<1>1. IInv => ReplacedOnce
  <2> SUFFICES ASSUME IInv, \A b \in Reports : ~crossed[b], NEW m \in Trips, NEW n \in Trips,
                      source[m] = source[n], source[m] # NoTrip
               PROVE  m = n
    BY DEF ReplacedOnce
  <2>1. PICK b \in Reports : row[b].next = m /\ row[b].on = source[m]
    BY DEF IInv, Opened
  <2>2. PICK c \in Reports : row[c].next = n /\ row[c].on = source[n]
    BY DEF IInv, Opened
  <2>3. b = c
    BY <2>1, <2>2 DEF IInv, ReportsApart, Reported
  <2> QED
    BY <2>1, <2>2, <2>3
<1> QED
  BY <1>1, Invariant, PTL

\* While no two requests on it have crossed, an approved report is read-only:
\* no edit, delete, reject or second verify writes any of its columns
THEOREM ApprovedIsReadOnly == Spec => ApprovalStands
<1> DEFINE Stands ==
      \A b \in Reports : row[b].approval = "Approved" => row'[b] = row[b] \/ crossed[b]
<1>1. ASSUME IInv, [Next]_vars PROVE Stands
  <2>1. TypeOK /\ row \in [Reports -> Rows]
    BY <1>1 DEF IInv, TypeOK
  <2>2. ASSUME NEW d \in Desks, NEW columns, desk[d].op # "idle", Conclude(d, columns) PROVE Stands
    <3>1. /\ desk[d].report \in Reports
          /\ ~crossed[desk[d].report] => row[desk[d].report].approval # "Approved"
      BY <1>1, <2>1, <2>2, Desked DEF IInv, CopyFresh
    <3>2. \A b \in Reports \ {desk[d].report} : row'[b] = row[b]
      BY <2>1, <2>2 DEF Conclude
    <3> QED
      BY <3>1, <3>2
  <2>3. ASSUME NEW b \in Reports, NEW t \in Trips, Report(b, t) PROVE Stands
    <3>1. row[b].approval # "Approved"
      BY <1>1, <2>1, <2>3, NoTripIsNone DEF Report, IInv, ReportsExist, NoRow
    <3> QED
      BY <2>1, <2>3, <3>1 DEF Report
  <2>4. ASSUME NEW d \in Desks, DeskStep(d) PROVE Stands
    <3>1. CASE \E b \in Reports :
                 BeginEdit(d, b) \/ BeginDelete(d, b) \/ BeginReject(d, b) \/ BeginVerify(d, b)
      BY <3>1 DEF BeginEdit, BeginDelete, BeginReject, BeginVerify, Begin
    <3>2. CASE EditReload(d) \/ GiveUp(d) \/ \E kept \in SUBSET Stops : VerifyRead(d, kept)
      BY <3>2 DEF EditReload, GiveUp, VerifyRead
    <3>3. CASE Delete(d)
      BY <2>2, <3>3 DEF Delete
    <3>4. CASE Reject(d)
      BY <2>2, <3>4 DEF Reject
    <3>5. ASSUME NEW t \in Trips, EditSave(d, t) PROVE Stands
      BY <2>2, <3>5 DEF EditSave
    <3>6. ASSUME NEW t \in Trips, VerifyCommit(d, t) PROVE Stands
      BY <2>2, <3>6 DEF VerifyCommit
    <3> QED
      BY <2>4, <3>1, <3>2, <3>3, <3>4, <3>5, <3>6 DEF DeskStep
  <2>5. CASE TripStep \/ UNCHANGED vars
    BY <2>5 DEF TripStep, vars, breakdownVars
  <2> QED
    BY <1>1, <2>3, <2>4, <2>5 DEF Next
<1>2. IInv /\ [Next]_vars => [Stands]_vars
  BY <1>1
<1> QED
  BY <1>2, Invariant, PTL DEF Spec, ApprovalStands

-----------------------------------------------------------------------------
(* However requests on a report cross: which trip continues which.         *)

\* A step that is not a verification's commit opens no continuation
OpensNone == UNCHANGED source

LEMMA OtherSteps ==
  ASSUME [Next]_vars
  PROVE  \/ TripStep
         \/ OpensNone
         \/ \E d \in Desks, n \in Trips : VerifyCommit(d, n)
<1>1. ASSUME NEW b \in Reports, NEW t \in Trips, Report(b, t) PROVE OpensNone
  BY <1>1 DEF Report, OpensNone, tripVars, stopVars
<1>2. ASSUME NEW d \in Desks, DeskStep(d), ~\E n \in Trips : VerifyCommit(d, n) PROVE OpensNone
  BY <1>2 DEF DeskStep, BeginEdit, BeginDelete, BeginReject, BeginVerify, Begin, EditReload, Delete, Reject,
              GiveUp, EditSave, VerifyRead, OpensNone, tripVars, stopVars
<1>3. CASE UNCHANGED vars
  BY <1>3 DEF vars, tripVars, stopVars, breakdownVars, OpensNone
<1> QED
  BY <1>1, <1>2, <1>3 DEF Next

\* The continuation is the first number not taken: it comes after its source,
\* and continued no trip before
LEMMA VerifyOpens ==
  ASSUME IInv, NEW d \in Desks, NEW n \in Trips, VerifyCommit(d, n)
  PROVE  /\ source'[n] \in Trips /\ source'[n] < n
         /\ \A m \in Trips \ {n} : source'[m] = source[m]
<1> DEFINE src == desk[d].copy.on
<1>1. desk[d] # DeskOff /\ TypeOK
  BY DEF VerifyCommit, DeskOff, IInv
<1>2. src \in Trips /\ status[src] # "absent" /\ Trips \subseteq Nat
  BY <1>1 DEF IInv, ReportsExist, Exists, Trips
<1>3. status[n] = "absent" /\ src < n
  BY <1>2 DEF VerifyCommit, Trips
<1>4. source' = [source EXCEPT ![n] = src]
  BY DEF VerifyCommit
<1>5. source'[n] = src /\ \A m \in Trips \ {n} : source'[m] = source[m]
  BY <1>1, <1>4 DEF TypeOK
<1> QED
  BY <1>2, <1>3, <1>5

\* A stop is carried forward, and a continuation continues an earlier trip
CarriedForward ==
    /\ \A n \in Trips : source[n] # NoTrip => source[n] < n
    /\ \A t \in Trips, s \in Stops : carriedTo[t][s] # NoTrip => t < carriedTo[t][s]

\* Who follows carried_to from trip to trip arrives: breakdowns of continuations
\* and repeated or crossed verifications make no circle of trips
THEOREM NoCircle == Spec => []CarriedForward
<1> DEFINE Earlier == \A n \in Trips : source[n] # NoTrip => source[n] < n
<1>1. Init => Earlier
  BY DEF Init
<1>2. ASSUME IInv, Earlier, [Next]_vars PROVE Earlier'
  <2>1. CASE \E d \in Desks, n \in Trips : VerifyCommit(d, n)
    BY <1>2, <2>1, VerifyOpens
  <2>2. CASE TripStep \/ OpensNone
    BY <1>2, <2>2 DEF TripStep, breakdownVars, OpensNone
  <2> QED
    BY <1>2, <2>1, <2>2, OtherSteps
<1>3. IInv /\ Earlier => CarriedForward
  BY NoTripIsNone DEF IInv, TypeOK, TripTypeOK, CarriedStopsArrive, CarriedForward
<1> HIDE DEF Earlier
<1>4. IInv /\ Earlier /\ [Next]_vars => Earlier'
  BY <1>2
<1> QED
  BY <1>1, <1>3, <1>4, Invariant, PTL DEF Spec

==============================================================================
