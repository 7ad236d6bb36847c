------------------------ MODULE HouseholdStopsProofs ------------------------
(* What HouseholdStops keeps for any number of trips, crew requests and    *)
(* devices: one alert per stop, the told miss on record, and one ticket    *)
(* per handler.                                                            *)
EXTENDS HouseholdStops, TLAPS

USE StopConstants

\* A request is about a trip that was opened, an approval opens the next one
Opened ==
    /\ \A h \in Handlers : crew[h].op # "idle" => trip[crew[h].trip] # "none"
    /\ approval.op = "read" =>
          /\ approval.trip + 1 \in Trips
          /\ trip[approval.trip] # "none"
          /\ trip[approval.trip + 1] = "none"

\* No stop is flagged before its trip is opened
Unopened == \A t \in Trips : trip[t] = "none" => ~stop[t].flagged

\* Only who set the flag of a stop is about to alert its crew, and has not yet
AlertOwed ==
    /\ \A t \in Trips : alerts[t] <= 1 /\ (alerts[t] > 0 => stop[t].flagged)
    /\ \A d \in Devices : tap[d].op = "alert" =>
          stop[tap[d].trip].flagged /\ alerts[tap[d].trip] = 0
    /\ \A d, e \in Devices :
          tap[d].op = "alert" /\ tap[e].op = "alert" /\ tap[d].trip = tap[e].trip => d = e

\* The flag, and every copy of it, says what the customer has said
FlagTrue ==
    /\ \A t \in Trips : said[t] = stop[t].flagged
    /\ approval.op = "read" => approval.said = approval.flagged
    /\ \A h \in Handlers : crew[h].op = "loaded" => crew[h].said = crew[h].flagged

\* Who is about to open a ticket has opened none for that stop
TicketOwed ==
    /\ TicketsNeedOverlap
    /\ \A h \in Handlers : crew[h].op = "file" => tickets[crew[h].trip][h] = 0

IInv == TypeOK /\ Opened /\ Unopened /\ AlertOwed /\ FlagTrue /\ MissOnRecord /\ TicketOwed

\* Every step, named for the proofs below.
LEMMA Steps ==
    ASSUME [Next]_vars
    PROVE  \/ \E h \in Handlers, t \in Trips, mark \in Marks : Report(h, t, mark)
           \/ \E h \in Handlers : \/ Load(h) \/ mark_status(h) \/ mark_collected(h)
                                  \/ raise_missed_pickup_ticket(h) \/ _create_ticket(h)
                                  \/ CutShort(h)
           \/ \E d \in Devices, t \in Trips : ImHome(d, t)
           \/ \E d \in Devices : mark_customer_available(d) \/ _alert_crew(d) \/ TapLost(d)
           \/ \E t \in Trips : mark_started(t) \/ mark_ended(t) \/ ApproveReads(t)
           \/ ApproveCommits
           \/ ApproveAborts
           \/ UNCHANGED vars
  BY DEF Next, CrewStep, CustomerStep, TripStep

\* The names of statuses that the steps write.
LEMMA Names ==
    /\ STATUS_PENDING \in Statuses /\ STATUS_PENDING # "none"
    /\ STATUS_COLLECTED \in Marks /\ STATUS_COLLECT_LATER \in Marks /\ STATUS_MISSED \in Marks
    /\ \A m \in Marks : m \in Statuses /\ m # "none"
    /\ "none" \in Statuses
    /\ {"none", "Scheduled", "In Progress", "Completed"} \subseteq TripStatuses
    /\ {"none", "told", "untold", "excused"} \subseteq Misses
    /\ 1 \in Trips
  BY DEF STATUS_PENDING, STATUS_COLLECTED, STATUS_COLLECT_LATER, STATUS_MISSED, Marks, Statuses,
         TripStatuses, Misses, Trips

\* What the records of requests, taps, approvals and stops are made of.
LEMMA Records ==
    /\ \A op \in {"gated", "loaded"}, t \in Trips, m \in Marks, f \in BOOLEAN, k \in BOOLEAN :
          Request(op, t, m, f, k) \in Requests
    /\ NoRequest \in Requests
    /\ \A r \in Requests :
          /\ r.trip \in Trips /\ r.mark \in Marks /\ r.flagged \in BOOLEAN /\ r.said \in BOOLEAN
          /\ [r EXCEPT !.op = "look"] \in Requests /\ [r EXCEPT !.op = "file"] \in Requests
    /\ \A op \in {"chosen", "alert"}, t \in Trips, b \in BOOLEAN : Tap(op, t, b) \in Taps
    /\ NoTap \in Taps
    /\ \A x \in Taps : x.trip \in Trips
    /\ \A t \in Trips, f \in BOOLEAN, k \in BOOLEAN : Approval("read", t, f, k) \in Approvals
    /\ NoApproval \in Approvals
    /\ \A x \in Approvals : x.trip \in Trips /\ x.flagged \in BOOLEAN /\ x.said \in BOOLEAN
    /\ \A x \in Stops : x.status \in Statuses /\ x.flagged \in BOOLEAN
    /\ \A m \in Statuses, f \in BOOLEAN : Stop(m, f) \in Stops
<1> USE Names
<1>1. \A r \in Requests :
          /\ r.trip \in Trips /\ r.mark \in Marks /\ r.flagged \in BOOLEAN /\ r.said \in BOOLEAN
          /\ [r EXCEPT !.op = "look"] \in Requests /\ [r EXCEPT !.op = "file"] \in Requests
  BY DEF Requests
<1>2. NoRequest \in Requests
  BY DEF Requests, NoRequest, Request
<1>3. \A op \in {"gated", "loaded"}, t \in Trips, m \in Marks, f \in BOOLEAN, k \in BOOLEAN :
          Request(op, t, m, f, k) \in Requests
  BY DEF Requests, Request
<1>4. /\ \A op \in {"chosen", "alert"}, t \in Trips, b \in BOOLEAN : Tap(op, t, b) \in Taps
      /\ NoTap \in Taps
      /\ \A x \in Taps : x.trip \in Trips
  BY DEF Taps, Tap, NoTap
<1>5. /\ \A t \in Trips, f \in BOOLEAN, k \in BOOLEAN : Approval("read", t, f, k) \in Approvals
      /\ NoApproval \in Approvals
      /\ \A x \in Approvals : x.trip \in Trips /\ x.flagged \in BOOLEAN /\ x.said \in BOOLEAN
  BY DEF Approvals, Approval, NoApproval
<1>6. /\ \A x \in Stops : x.status \in Statuses /\ x.flagged \in BOOLEAN
      /\ \A m \in Statuses, f \in BOOLEAN : Stop(m, f) \in Stops
  BY DEF Stops, Stop
<1> QED
  BY <1>1, <1>2, <1>3, <1>4, <1>5, <1>6

\* The writes of a stop's row: of its status, of its flag, of a new row.
LEMMA StopWrites ==
    ASSUME stop \in [Trips -> Stops], NEW t \in Trips
    PROVE  /\ \A m \in Statuses :
                 LET new == [stop EXCEPT ![t].status = m] IN
                 /\ new \in [Trips -> Stops]
                 /\ new[t].status = m /\ new[t].flagged = stop[t].flagged
                 /\ \A u \in Trips \ {t} : new[u] = stop[u]
           /\ LET new == [stop EXCEPT ![t].flagged = TRUE] IN
                 /\ new \in [Trips -> Stops]
                 /\ new[t].status = stop[t].status /\ new[t].flagged = TRUE
                 /\ \A u \in Trips \ {t} : new[u] = stop[u]
  BY DEF Stops

\* Every request, tap and approval keeps the types, and every opened trip keeps
\* the household's row.
LEMMA TypeStep == ASSUME TypeOK, Opened, [Next]_vars PROVE TypeOK'
<1> USE DEF TypeOK
<1>1. ASSUME NEW h \in Handlers, NEW t \in Trips, NEW mark \in Marks, Report(h, t, mark)
      PROVE  TypeOK'
  <2>1. marks' \in 0..MaxMarks
    BY <1>1 DEF Report
  <2>2. Request("gated", t, mark, FALSE, FALSE) \in Requests
    BY Records
  <2>3. crew' \in [Handlers -> Requests]
    BY <1>1, <2>2 DEF Report, Serve
  <2> QED
    BY <1>1, <2>1, <2>3 DEF Report
<1>2. ASSUME NEW h \in Handlers, Load(h) PROVE TypeOK'
  <2>1. crew' \in [Handlers -> Requests]
    BY <1>2, Records DEF Load, Serve
  <2> QED
    BY <1>2, <2>1 DEF Load
<1>3. ASSUME NEW h \in Handlers, NEW m \in Marks, crew[h].op # "idle",
             stop' = [stop EXCEPT ![crew[h].trip].status = m],
             trip' = trip
      PROVE  /\ stop' \in [Trips -> Stops]
             /\ \A t \in Trips : trip'[t] = "none" <=> stop'[t].status = "none"
  <2> DEFINE t == crew[h].trip
  <2>1. t \in Trips
    BY Records
  <2>2. trip[t] # "none"
    BY <1>3 DEF Opened
  <2>3. m \in Statuses /\ m # "none"
    BY Names
  <2>4. /\ stop' \in [Trips -> Stops]
        /\ stop'[t].status = m
        /\ \A u \in Trips \ {t} : stop'[u] = stop[u]
    <3>1. stop \in [Trips -> Stops] /\ stop' = [stop EXCEPT ![t].status = m]
      BY <1>3
    <3> HIDE DEF t, TypeOK
    <3> QED
      BY <2>1, <2>3, <3>1, StopWrites
  <2>5. \A u \in Trips : trip[u] = "none" <=> stop[u].status = "none"
    OBVIOUS
  <2> HIDE DEF t, TypeOK
  <2>6. \A u \in Trips : trip[u] = "none" <=> stop'[u].status = "none"
    BY <2>1, <2>2, <2>3, <2>4, <2>5
  <2> QED
    BY <1>3, <2>4, <2>6
<1>4. ASSUME NEW h \in Handlers, mark_status(h) PROVE TypeOK'
  <2>1. crew[h] \in Requests /\ crew[h].mark \in Marks /\ crew[h].trip \in Trips
    BY Records
  <2>2. crew' \in [Handlers -> Requests]
    BY <1>4, <2>1, Records DEF mark_status, Serve
  <2>3. miss' \in [Trips -> Misses]
    BY <1>4, <2>1, Names DEF mark_status
  <2>4. /\ stop' \in [Trips -> Stops]
        /\ \A t \in Trips : trip'[t] = "none" <=> stop'[t].status = "none"
    BY <1>4, <2>1, <1>3 DEF mark_status
  <2> QED
    BY <1>4, <2>2, <2>3, <2>4 DEF mark_status
<1>5. ASSUME NEW h \in Handlers, mark_collected(h) PROVE TypeOK'
  <2>1. crew' \in [Handlers -> Requests]
    BY <1>5, Records DEF mark_collected, Serve
  <2>2. miss' \in [Trips -> Misses]
    BY <1>5, Names DEF mark_collected
  <2>3. /\ stop' \in [Trips -> Stops]
        /\ \A t \in Trips : trip'[t] = "none" <=> stop'[t].status = "none"
    BY <1>5, <1>3, Names DEF mark_collected
  <2> QED
    BY <1>5, <2>1, <2>2, <2>3 DEF mark_collected
<1>6. ASSUME NEW h \in Handlers, raise_missed_pickup_ticket(h) PROVE TypeOK'
  <2>1. crew' \in [Handlers -> Requests]
    BY <1>6, Records DEF raise_missed_pickup_ticket, Serve
  <2> QED
    BY <1>6, <2>1 DEF raise_missed_pickup_ticket
<1>7. ASSUME NEW h \in Handlers, _create_ticket(h) PROVE TypeOK'
  <2>1. crew' \in [Handlers -> Requests]
    BY <1>7, Records DEF _create_ticket, Serve
  <2>2. crew[h].trip \in Trips
    BY Records
  <2>3. tickets' \in [Trips -> [Handlers -> Nat]]
    BY <1>7, <2>2 DEF _create_ticket
  <2> QED
    BY <1>7, <2>1, <2>3 DEF _create_ticket
<1>8. ASSUME NEW h \in Handlers, CutShort(h) PROVE TypeOK'
  <2>1. crew' \in [Handlers -> Requests]
    BY <1>8, Records DEF CutShort, Serve
  <2>2. miss' \in [Trips -> Misses]
    BY <1>8, Names DEF CutShort
  <2> QED
    BY <1>8, <2>1, <2>2 DEF CutShort
<1>9. ASSUME NEW d \in Devices, NEW t \in Trips, ImHome(d, t) PROVE TypeOK'
  <2>1. taps' \in 0..MaxTaps
    <3>1. taps < MaxTaps /\ taps' = taps + 1
      BY <1>9, Zenon DEF ImHome
    <3> QED
      BY <3>1
  <2>2. Tap("chosen", t, trip[t] = "In Progress") \in Taps
    BY DEF Taps, Tap
  <2>3. tap' \in [Devices -> Taps]
    BY <1>9, <2>2 DEF ImHome
  <2> QED
    BY <1>9, <2>1, <2>3 DEF ImHome
<1>10. ASSUME NEW d \in Devices, mark_customer_available(d) PROVE TypeOK'
  <2> DEFINE t == tap[d].trip
  <2>1. t \in Trips
    BY Records
  <2>2. tap' \in [Devices -> Taps]
    BY <1>10, <2>1, Records DEF mark_customer_available
  <2>3. said' \in [Trips -> BOOLEAN]
    BY <1>10, <2>1 DEF mark_customer_available
  <2>4. stop' \in {stop, [stop EXCEPT ![t].flagged = TRUE]}
    BY <1>10 DEF mark_customer_available
  <2>5. /\ stop' \in [Trips -> Stops]
        /\ \A u \in Trips : stop'[u].status = stop[u].status
    <3>1. CASE stop' = stop
      BY <3>1
    <3>2. CASE stop' = [stop EXCEPT ![t].flagged = TRUE]
      BY <3>2, <2>1, StopWrites
    <3> QED
      BY <2>4, <3>1, <3>2
  <2> QED
    BY <1>10, <2>2, <2>3, <2>5 DEF mark_customer_available
<1>11. ASSUME NEW d \in Devices, _alert_crew(d) PROVE TypeOK'
  <2>1. tap[d].trip \in Trips /\ NoTap \in Taps
    BY Records
  <2>2. alerts' \in [Trips -> Nat]
    BY <1>11, <2>1 DEF _alert_crew
  <2>3. tap' \in [Devices -> Taps]
    BY <1>11, <2>1 DEF _alert_crew
  <2> QED
    BY <1>11, <2>2, <2>3 DEF _alert_crew
<1>12. ASSUME NEW d \in Devices, TapLost(d) PROVE TypeOK'
  <2>1. tap' \in [Devices -> Taps]
    BY <1>12, Records DEF TapLost
  <2> QED
    BY <1>12, <2>1 DEF TapLost
<1>13. ASSUME NEW t \in Trips, mark_started(t) \/ mark_ended(t) PROVE TypeOK'
  <2>1. /\ trip' \in [Trips -> TripStatuses]
        /\ \A u \in Trips : trip'[u] = "none" <=> trip[u] = "none"
    BY <1>13, Names DEF mark_started, mark_ended
  <2> QED
    BY <1>13, <2>1 DEF mark_started, mark_ended
<1>14. ASSUME NEW t \in Trips, ApproveReads(t) PROVE TypeOK'
  <2>1. stop[t].flagged \in BOOLEAN /\ said[t] \in BOOLEAN
    BY Records
  <2>2. approval' \in Approvals
    BY <1>14, <2>1, Records DEF ApproveReads
  <2> QED
    BY <1>14, <2>2 DEF ApproveReads
<1>15. ASSUME ApproveCommits PROVE TypeOK'
  <2> DEFINE t == approval.trip
  <2>1. /\ t \in Trips /\ t + 1 \in Trips /\ t # t + 1 /\ trip[t] # "none"
        /\ approval.flagged \in BOOLEAN /\ approval.said \in BOOLEAN
    BY <1>15, Records DEF ApproveCommits, Opened, Trips
  <2>2. Carried(approval.flagged) \in Stops /\ Carried(approval.flagged).status # "none"
    BY <2>1, Names DEF Carried, Stop, Stops
  <2>3. /\ stop' \in [Trips -> Stops]
        /\ \A u \in Trips : stop'[u] = IF u = t + 1 THEN Carried(approval.flagged) ELSE stop[u]
    BY <1>15, <2>1, <2>2 DEF ApproveCommits
  <2>4. /\ trip' \in [Trips -> TripStatuses]
        /\ \A u \in Trips : trip'[u] = "none" <=> trip[u] = "none" /\ u # t + 1
    BY <1>15, <2>1, Names DEF ApproveCommits
  <2>5. said' \in [Trips -> BOOLEAN] /\ approval' \in Approvals
    BY <1>15, <2>1, Records DEF ApproveCommits
  <2>6. \A u \in Trips : trip'[u] = "none" <=> stop'[u].status = "none"
    BY <2>2, <2>3, <2>4
  <2> QED
    BY <1>15, <2>3, <2>4, <2>5, <2>6 DEF ApproveCommits
<1>16. ASSUME ApproveAborts PROVE TypeOK'
  BY <1>16, Records DEF ApproveAborts
<1>17. ASSUME UNCHANGED vars PROVE TypeOK'
  BY <1>17 DEF vars
<1> HIDE DEF TypeOK
<1> QED
  BY Steps, <1>1, <1>2, <1>4, <1>5, <1>6, <1>7, <1>8, <1>9, <1>10, <1>11, <1>12, <1>13, <1>14,
     <1>15, <1>16, <1>17

-----------------------------------------------------------------------------

\* Requests stay on opened trips: a report is made on a started one, and no trip
\* goes back to unopened.
LEMMA OpenedStep == ASSUME TypeOK, Opened, [Next]_vars PROVE Opened'
<1> USE DEF Opened
<1>1. \A h \in Handlers : crew[h].trip \in Trips
  BY Records DEF TypeOK
<1>2. approval.trip \in Trips
  BY Records DEF TypeOK
<1>3. ASSUME NEW h \in Handlers, NEW t \in Trips, NEW mark \in Marks, Report(h, t, mark)
      PROVE  Opened'
  <2>1. trip[t] # "none" /\ trip' = trip /\ approval' = approval
    BY <1>3 DEF Report, HasStart
  <2>2. \A g \in Handlers : crew'[g] = IF g = h THEN Request("gated", t, mark, FALSE, FALSE) ELSE crew[g]
    BY <1>3 DEF Report, Serve, TypeOK
  <2> QED
    BY <2>1, <2>2 DEF Request
<1>4. ASSUME NEW h \in Handlers, NEW r, Serve(h, r), crew[h].op # "idle",
             r.op # "idle" => r.trip = crew[h].trip,
             trip' = trip, approval' = approval
      PROVE  Opened'
  <2>1. \A g \in Handlers : crew'[g] = IF g = h THEN r ELSE crew[g]
    BY <1>4 DEF Serve, TypeOK
  <2> QED
    BY <1>4, <2>1
<1>5. ASSUME NEW h \in Handlers, Load(h) PROVE Opened'
  BY <1>5, <1>4 DEF Load, Request, NoRequest
<1>6. ASSUME NEW h \in Handlers, mark_status(h) PROVE Opened'
  <2>1. crew[h] \in Requests
    BY DEF TypeOK
  <2>2. [crew[h] EXCEPT !.op = "look"].trip = crew[h].trip
    BY <2>1 DEF Requests
  <2> QED
    BY <1>6, <1>4, <2>2 DEF mark_status, NoRequest, Request
<1>7. ASSUME NEW h \in Handlers, mark_collected(h) PROVE Opened'
  BY <1>7, <1>4 DEF mark_collected, NoRequest, Request
<1>8. ASSUME NEW h \in Handlers, raise_missed_pickup_ticket(h) PROVE Opened'
  <2>1. crew[h] \in Requests
    BY DEF TypeOK
  <2>2. [crew[h] EXCEPT !.op = "file"].trip = crew[h].trip
    BY <2>1 DEF Requests
  <2> QED
    BY <1>8, <1>4, <2>2 DEF raise_missed_pickup_ticket, NoRequest, Request
<1>9. ASSUME NEW h \in Handlers, _create_ticket(h) PROVE Opened'
  BY <1>9, <1>4 DEF _create_ticket, NoRequest, Request
<1>10. ASSUME NEW h \in Handlers, CutShort(h) PROVE Opened'
  BY <1>10, <1>4 DEF CutShort, NoRequest, Request
<1>11. ASSUME UNCHANGED <<trip, crew, approval>> PROVE Opened'
  BY <1>11
<1>12. ASSUME NEW t \in Trips, mark_started(t) \/ mark_ended(t) PROVE Opened'
  <2>1. \A u \in Trips : trip'[u] = "none" <=> trip[u] = "none"
    BY <1>12 DEF mark_started, mark_ended, TypeOK
  <2>2. crew' = crew /\ approval' = approval
    BY <1>12 DEF mark_started, mark_ended
  <2> QED
    BY <1>1, <1>2, <2>1, <2>2
<1>13. ASSUME NEW t \in Trips, ApproveReads(t) PROVE Opened'
  BY <1>13 DEF ApproveReads, Approval
<1>14. ASSUME ApproveCommits PROVE Opened'
  <2> DEFINE t == approval.trip
  <2>1. \A u \in Trips : trip'[u] = "none" => trip[u] = "none"
    BY <1>14 DEF ApproveCommits, TypeOK
  <2>2. crew' = crew /\ approval'.op = "idle"
    BY <1>14 DEF ApproveCommits, NoApproval, Approval
  <2> QED
    BY <1>1, <2>1, <2>2
<1>15. ASSUME ApproveAborts PROVE Opened'
  BY <1>15 DEF ApproveAborts, NoApproval, Approval
<1> HIDE DEF Opened
<1>16. ASSUME NEW d \in Devices, NEW t \in Trips, ImHome(d, t) PROVE Opened'
  BY <1>11, <1>16 DEF ImHome
<1>17. ASSUME NEW d \in Devices, mark_customer_available(d) \/ _alert_crew(d) \/ TapLost(d)
       PROVE  Opened'
  BY <1>11, <1>17 DEF mark_customer_available, _alert_crew, TapLost
<1>18. ASSUME UNCHANGED vars PROVE Opened'
  BY <1>11, <1>18 DEF vars
<1> QED
  BY Steps, <1>3, <1>5, <1>6, <1>7, <1>8, <1>9, <1>10, <1>12, <1>13, <1>14, <1>15, <1>16, <1>17,
     <1>18

-----------------------------------------------------------------------------

\* The tap flags a stop it finds Collect Later, an approval the one it opens.
LEMMA UnopenedStep == ASSUME TypeOK, Opened, Unopened, [Next]_vars PROVE Unopened'
<1>1. ASSUME \A t \in Trips : /\ trip'[t] = "none" => trip[t] = "none"
                              /\ trip'[t] = "none" => stop'[t].flagged = stop[t].flagged
      PROVE  Unopened'
  BY <1>1 DEF Unopened
<1>2. ASSUME UNCHANGED <<trip, stop>> PROVE Unopened'
  BY <1>1, <1>2
<1>3. ASSUME NEW h \in Handlers, mark_status(h) \/ mark_collected(h) PROVE Unopened'
  <2>1. /\ crew[h].trip \in Trips /\ crew[h].mark \in Statuses /\ STATUS_COLLECTED \in Statuses
        /\ stop \in [Trips -> Stops]
    BY Records, Names DEF TypeOK
  <2>2. /\ UNCHANGED trip
        /\ \E m \in Statuses : stop' = [stop EXCEPT ![crew[h].trip].status = m]
    BY <1>3, <2>1 DEF mark_status, mark_collected
  <2>3. \A t \in Trips : stop'[t].flagged = stop[t].flagged
    BY <2>1, <2>2, StopWrites
  <2> QED
    BY <1>1, <2>2, <2>3
<1>4. ASSUME ApproveCommits PROVE Unopened'
  <2> DEFINE next == approval.trip + 1
  <2>1. next \in Trips /\ trip \in [Trips -> TripStatuses] /\ approval.trip # next
    BY <1>4, Records DEF ApproveCommits, Opened, Trips, TypeOK
  <2>2. trip'[next] = "Scheduled" /\ \A t \in Trips \ {next} : trip'[t] = "none" => trip[t] = "none"
    BY <1>4, <2>1 DEF ApproveCommits
  <2>3. \A t \in Trips \ {next} : stop'[t] = stop[t]
    BY <1>4 DEF ApproveCommits, TypeOK
  <2> HIDE DEF next
  <2> QED
    BY <2>1, <2>2, <2>3, <1>1
<1>5. ASSUME NEW d \in Devices, mark_customer_available(d) PROVE Unopened'
  <2> DEFINE t == tap[d].trip
  <2>1. UNCHANGED trip
    BY <1>5 DEF mark_customer_available
  <2>2. CASE stop[t].status = STATUS_COLLECT_LATER
    <3>1. t \in Trips /\ STATUS_COLLECT_LATER # "none" /\ stop \in [Trips -> Stops]
      BY Records, Names DEF TypeOK
    <3>2. trip[t] # "none"
      BY <2>2, <3>1 DEF TypeOK
    <3>3. \A u \in Trips \ {t} : stop'[u] = stop[u]
      BY <1>5, <3>1 DEF mark_customer_available
    <3> QED
      BY <1>1, <2>1, <3>2, <3>3
  <2>3. CASE stop[t].status # STATUS_COLLECT_LATER
    BY <1>2, <1>5, <2>1, <2>3 DEF mark_customer_available
  <2> QED
    BY <2>2, <2>3
<1>6. ASSUME NEW t \in Trips, mark_started(t) \/ mark_ended(t) PROVE Unopened'
  BY <1>1, <1>6 DEF mark_started, mark_ended, TypeOK
<1>7. ASSUME NEW h \in Handlers, NEW t \in Trips, NEW mark \in Marks, Report(h, t, mark)
      PROVE  Unopened'
  BY <1>2, <1>7 DEF Report
<1>8. ASSUME NEW h \in Handlers,
             Load(h) \/ raise_missed_pickup_ticket(h) \/ _create_ticket(h) \/ CutShort(h)
      PROVE  Unopened'
  BY <1>2, <1>8 DEF Load, raise_missed_pickup_ticket, _create_ticket, CutShort
<1>9. ASSUME NEW d \in Devices, NEW t \in Trips, ImHome(d, t) PROVE Unopened'
  BY <1>2, <1>9 DEF ImHome
<1>10. ASSUME NEW d \in Devices, _alert_crew(d) \/ TapLost(d) PROVE Unopened'
  BY <1>2, <1>10 DEF _alert_crew, TapLost
<1>11. ASSUME NEW t \in Trips, ApproveReads(t) PROVE Unopened'
  BY <1>2, <1>11 DEF ApproveReads
<1>12. ASSUME ApproveAborts PROVE Unopened'
  BY <1>2, <1>12 DEF ApproveAborts
<1>13. ASSUME UNCHANGED vars PROVE Unopened'
  BY <1>2, <1>13 DEF vars
<1> QED
  BY Steps, <1>3, <1>4, <1>5, <1>6, <1>7, <1>8, <1>9, <1>10, <1>11, <1>12, <1>13

\* A step that keeps the devices and the alerts, and lowers no flag, keeps who
\* owes an alert.
LEMMA AlertFrame ==
    ASSUME TypeOK, AlertOwed, UNCHANGED <<tap, alerts>>,
           \A t \in Trips : stop[t].flagged => stop'[t].flagged
    PROVE  AlertOwed'
<1>1. \A d \in Devices : tap[d].trip \in Trips
  BY Records DEF TypeOK
<1> QED
  BY <1>1 DEF AlertOwed

\* The lock of the tap decides who alerts: it raises a flag that was down, so no
\* one alerted the crew of the stop or is about to.
LEMMA AlertStep == ASSUME TypeOK, Opened, Unopened, AlertOwed, [Next]_vars PROVE AlertOwed'
<1>1. \A d \in Devices : tap[d].trip \in Trips
  BY Records DEF TypeOK
<1>2. ASSUME UNCHANGED <<tap, alerts, stop>> PROVE AlertOwed'
  BY <1>2, AlertFrame
<1>3. ASSUME NEW h \in Handlers, mark_status(h) \/ mark_collected(h) PROVE AlertOwed'
  <2>1. /\ crew[h].trip \in Trips /\ crew[h].mark \in Statuses /\ STATUS_COLLECTED \in Statuses
        /\ stop \in [Trips -> Stops]
    BY Records, Names DEF TypeOK
  <2>2. /\ UNCHANGED <<tap, alerts>>
        /\ \E m \in Statuses : stop' = [stop EXCEPT ![crew[h].trip].status = m]
    BY <1>3, <2>1 DEF mark_status, mark_collected
  <2>3. \A t \in Trips : stop'[t].flagged = stop[t].flagged
    BY <2>1, <2>2, StopWrites
  <2> QED
    BY <2>2, <2>3, AlertFrame
<1>4. ASSUME ApproveCommits PROVE AlertOwed'
  <2> DEFINE next == approval.trip + 1
  <2>1. next \in Trips /\ trip[next] = "none"
    BY <1>4 DEF ApproveCommits, Opened
  <2>2. UNCHANGED <<tap, alerts>> /\ \A t \in Trips \ {next} : stop'[t] = stop[t]
    BY <1>4 DEF ApproveCommits, TypeOK
  <2>3. ~stop[next].flagged
    BY <2>1 DEF Unopened
  <2> HIDE DEF next
  <2> QED
    BY <2>2, <2>3, AlertFrame
<1>5. ASSUME NEW d \in Devices, NEW t \in Trips, ImHome(d, t) PROVE AlertOwed'
  <2>1. UNCHANGED <<alerts, stop>>
    BY <1>5 DEF ImHome
  <2>2. \A e \in Devices : tap'[e].op = "alert" => tap[e].op = "alert" /\ tap'[e] = tap[e]
    BY <1>5, Zenon DEF ImHome, Tap, TypeOK
  <2> QED
    BY <1>1, <2>1, <2>2 DEF AlertOwed
<1>6. ASSUME NEW d \in Devices, mark_customer_available(d) PROVE AlertOwed'
  <2> DEFINE t == tap[d].trip
  <2>1. UNCHANGED alerts
    BY <1>6 DEF mark_customer_available
  <2>2. CASE stop[t].status = STATUS_COLLECT_LATER /\ tap[d].running /\ FirstTap(t)
    <3>1. /\ tap' = [tap EXCEPT ![d] = Tap("alert", t, TRUE)]
          /\ stop' = [stop EXCEPT ![t].flagged = TRUE]
      BY <1>6, <2>2 DEF mark_customer_available
    <3>2. /\ stop'[t].flagged = TRUE
          /\ \A u \in Trips \ {t} : stop'[u] = stop[u]
      BY <1>1, <3>1, StopWrites DEF TypeOK
    <3>3. ~stop[t].flagged
      BY <2>2 DEF FirstTap
    <3>4. /\ tap'[d].op = "alert" /\ tap'[d].trip = t
          /\ \A e \in Devices \ {d} : tap'[e] = tap[e]
      BY <3>1 DEF Tap, TypeOK
    <3>5. alerts[t] = 0 /\ \A e \in Devices : tap[e].op = "alert" => tap[e].trip # t
      BY <1>1, <3>3 DEF AlertOwed, TypeOK
    <3> QED
      BY <1>1, <2>1, <3>2, <3>4, <3>5 DEF AlertOwed
  <2>3. CASE ~(stop[t].status = STATUS_COLLECT_LATER /\ tap[d].running /\ FirstTap(t))
    <3>1. UNCHANGED stop /\ tap' = [tap EXCEPT ![d] = NoTap]
      BY <1>6, <2>3 DEF mark_customer_available
    <3>2. \A e \in Devices : tap'[e].op = "alert" => tap[e].op = "alert" /\ tap'[e] = tap[e]
      BY <3>1 DEF NoTap, Tap, TypeOK
    <3> QED
      BY <1>1, <2>1, <3>1, <3>2 DEF AlertOwed
  <2> QED
    BY <2>2, <2>3
<1>7. ASSUME NEW d \in Devices, _alert_crew(d) PROVE AlertOwed'
  <2> DEFINE t == tap[d].trip
  <2>1. /\ UNCHANGED stop
        /\ tap' = [tap EXCEPT ![d] = NoTap]
        /\ alerts' = [alerts EXCEPT ![t] = @ + 1]
        /\ tap[d].op = "alert"
    BY <1>7 DEF _alert_crew
  <2>2. stop[t].flagged /\ alerts[t] = 0 /\ t \in Trips
    BY <1>1, <2>1 DEF AlertOwed
  <2>3. \A u \in Trips : alerts'[u] = IF u = t THEN 1 ELSE alerts[u]
    BY <2>1, <2>2 DEF TypeOK
  <2>4. \A e \in Devices : tap'[e].op = "alert" => /\ tap[e].op = "alert" /\ tap'[e] = tap[e]
                                                   /\ e # d
    BY <2>1 DEF NoTap, Tap, TypeOK
  <2>5. \A e \in Devices : tap'[e].op = "alert" => tap'[e].trip # t
    BY <2>1, <2>4 DEF AlertOwed
  <2> QED
    BY <1>1, <2>1, <2>2, <2>3, <2>4, <2>5 DEF AlertOwed
<1>8. ASSUME NEW d \in Devices, TapLost(d) PROVE AlertOwed'
  <2>1. UNCHANGED <<alerts, stop>>
    BY <1>8 DEF TapLost
  <2>2. \A e \in Devices : tap'[e].op = "alert" => tap[e].op = "alert" /\ tap'[e] = tap[e]
    BY <1>8 DEF TapLost, NoTap, Tap, TypeOK
  <2> QED
    BY <1>1, <2>1, <2>2 DEF AlertOwed
<1>9. ASSUME NEW h \in Handlers, NEW t \in Trips, NEW mark \in Marks, Report(h, t, mark)
      PROVE  AlertOwed'
  BY <1>2, <1>9 DEF Report
<1>10. ASSUME NEW h \in Handlers,
              Load(h) \/ raise_missed_pickup_ticket(h) \/ _create_ticket(h) \/ CutShort(h)
       PROVE  AlertOwed'
  BY <1>2, <1>10 DEF Load, raise_missed_pickup_ticket, _create_ticket, CutShort
<1>11. ASSUME NEW t \in Trips, mark_started(t) \/ mark_ended(t) \/ ApproveReads(t) PROVE AlertOwed'
  BY <1>2, <1>11 DEF mark_started, mark_ended, ApproveReads
<1>12. ASSUME ApproveAborts PROVE AlertOwed'
  BY <1>2, <1>12 DEF ApproveAborts
<1>13. ASSUME UNCHANGED vars PROVE AlertOwed'
  BY <1>2, <1>13 DEF vars
<1> QED
  BY Steps, <1>3, <1>4, <1>5, <1>6, <1>7, <1>8, <1>9, <1>10, <1>11, <1>12, <1>13

-----------------------------------------------------------------------------

\* The flag is raised with what the customer says, and copied with it.
LEMMA FlagStep == ASSUME TypeOK, Opened, FlagTrue, [Next]_vars PROVE FlagTrue'
<1>1. \A h \in Handlers : crew[h].trip \in Trips
  BY Records DEF TypeOK
<1>2. ASSUME UNCHANGED <<said, approval>>,
             \A t \in Trips : stop'[t].flagged = stop[t].flagged,
             \A h \in Handlers : crew'[h].op = "loaded" => crew'[h] = crew[h]
      PROVE  FlagTrue'
  BY <1>2 DEF FlagTrue
<1>3. ASSUME NEW h \in Handlers, NEW r, Serve(h, r), r.op # "loaded"
      PROVE  \A g \in Handlers : crew'[g].op = "loaded" => crew'[g] = crew[g]
  BY <1>3 DEF Serve, TypeOK
<1>4. NoRequest.op # "loaded"
  BY DEF NoRequest, Request
<1>5. \A r \in Requests : [r EXCEPT !.op = "look"].op # "loaded" /\ [r EXCEPT !.op = "file"].op # "loaded"
  BY DEF Requests
<1>6. ASSUME NEW h \in Handlers, NEW t \in Trips, NEW mark \in Marks, Report(h, t, mark)
      PROVE  FlagTrue'
  <2>1. Request("gated", t, mark, FALSE, FALSE).op # "loaded"
    BY DEF Request
  <2> QED
    BY <1>2, <1>3, <1>6, <2>1 DEF Report
<1>7. ASSUME NEW h \in Handlers, Load(h) PROVE FlagTrue'
  <2> DEFINE t == crew[h].trip
             r == Request("loaded", t, crew[h].mark, stop[t].flagged, said[t])
  <2>1. UNCHANGED <<said, approval, stop>>
    BY <1>7 DEF Load
  <2>2. \A g \in Handlers : crew'[g] \in {crew[g], NoRequest, r}
    BY <1>7 DEF Load, Serve, TypeOK
  <2>3. r.said = r.flagged
    BY <1>1 DEF Request, FlagTrue
  <2> HIDE DEF r
  <2> QED
    BY <1>4, <2>1, <2>2, <2>3 DEF FlagTrue
<1>8. ASSUME NEW h \in Handlers, mark_status(h) \/ mark_collected(h) PROVE FlagTrue'
  <2>1. /\ crew[h].trip \in Trips /\ crew[h].mark \in Statuses /\ STATUS_COLLECTED \in Statuses
        /\ stop \in [Trips -> Stops] /\ crew[h] \in Requests
    BY Records, Names DEF TypeOK
  <2>2. /\ UNCHANGED <<said, approval>>
        /\ \E m \in Statuses : stop' = [stop EXCEPT ![crew[h].trip].status = m]
    BY <1>8, <2>1 DEF mark_status, mark_collected
  <2>3. \A t \in Trips : stop'[t].flagged = stop[t].flagged
    BY <2>1, <2>2, StopWrites
  <2>4. \A g \in Handlers : crew'[g].op = "loaded" => crew'[g] = crew[g]
    BY <1>3, <1>4, <1>5, <1>8, <2>1 DEF mark_status, mark_collected
  <2> QED
    BY <1>2, <2>2, <2>3, <2>4
<1>9. ASSUME NEW h \in Handlers, raise_missed_pickup_ticket(h) \/ _create_ticket(h) \/ CutShort(h)
      PROVE  FlagTrue'
  <2>1. crew[h] \in Requests
    BY DEF TypeOK
  <2>2. \A g \in Handlers : crew'[g].op = "loaded" => crew'[g] = crew[g]
    BY <1>3, <1>4, <1>5, <1>9, <2>1 DEF raise_missed_pickup_ticket, _create_ticket, CutShort
  <2>3. UNCHANGED <<said, approval, stop>>
    BY <1>9 DEF raise_missed_pickup_ticket, _create_ticket, CutShort
  <2> QED
    BY <1>2, <2>2, <2>3
<1>10. ASSUME NEW d \in Devices, mark_customer_available(d) PROVE FlagTrue'
  <2> DEFINE t == tap[d].trip
  <2>1. UNCHANGED <<crew, approval>> /\ t \in Trips
    BY <1>10, Records DEF mark_customer_available, TypeOK
  <2>2. \/ UNCHANGED <<stop, said>>
        \/ /\ stop' = [stop EXCEPT ![t].flagged = TRUE]
           /\ said' = [said EXCEPT ![t] = TRUE]
    BY <1>10 DEF mark_customer_available
  <2>3. \A u \in Trips : said'[u] = stop'[u].flagged
    <3>1. CASE UNCHANGED <<stop, said>>
      BY <3>1 DEF FlagTrue
    <3>2. CASE stop' = [stop EXCEPT ![t].flagged = TRUE] /\ said' = [said EXCEPT ![t] = TRUE]
      BY <2>1, <3>2, StopWrites DEF FlagTrue, TypeOK
    <3> QED
      BY <2>2, <3>1, <3>2
  <2> QED
    BY <2>1, <2>3 DEF FlagTrue
<1>11. ASSUME NEW t \in Trips, mark_started(t) \/ mark_ended(t) PROVE FlagTrue'
  BY <1>2, <1>11 DEF mark_started, mark_ended
<1>12. ASSUME NEW t \in Trips, ApproveReads(t) PROVE FlagTrue'
  BY <1>12 DEF ApproveReads, Approval, FlagTrue
<1>13. ASSUME ApproveCommits PROVE FlagTrue'
  <2> DEFINE next == approval.trip + 1
  <2>1. UNCHANGED crew /\ approval'.op = "idle" /\ approval.said = approval.flagged
    BY <1>13 DEF ApproveCommits, NoApproval, Approval, FlagTrue
  <2>2. \A u \in Trips : /\ stop'[u].flagged = IF u = next THEN approval.flagged ELSE stop[u].flagged
                         /\ said'[u] = IF u = next THEN approval.said ELSE said[u]
    BY <1>13 DEF ApproveCommits, Carried, Stop, TypeOK
  <2> HIDE DEF next
  <2> QED
    BY <2>1, <2>2 DEF FlagTrue
<1>14. ASSUME ApproveAborts PROVE FlagTrue'
  BY <1>14 DEF ApproveAborts, NoApproval, Approval, FlagTrue
<1>15. ASSUME NEW d \in Devices, NEW t \in Trips, ImHome(d, t) PROVE FlagTrue'
  BY <1>2, <1>15 DEF ImHome
<1>16. ASSUME NEW d \in Devices, _alert_crew(d) \/ TapLost(d) PROVE FlagTrue'
  BY <1>2, <1>16 DEF _alert_crew, TapLost
<1>17. ASSUME UNCHANGED vars PROVE FlagTrue'
  BY <1>2, <1>17 DEF vars
<1> QED
  BY Steps, <1>6, <1>7, <1>8, <1>9, <1>10, <1>11, <1>12, <1>13, <1>14, <1>15, <1>16, <1>17

\* Who looks before opening a ticket opens the first of its own.
LEMMA TicketStep == ASSUME TypeOK, TicketOwed, [Next]_vars PROVE TicketOwed'
<1>1. \A h \in Handlers : crew[h].trip \in Trips
  BY Records DEF TypeOK
<1>2. ASSUME UNCHANGED tickets,
             \A h \in Handlers : crew'[h].op = "file" => crew'[h] = crew[h]
      PROVE  TicketOwed'
  BY <1>2 DEF TicketOwed, TicketsNeedOverlap
<1>3. ASSUME NEW h \in Handlers, NEW r, Serve(h, r), r.op # "file"
      PROVE  \A g \in Handlers : crew'[g].op = "file" => crew'[g] = crew[g] /\ g # h
  BY <1>3 DEF Serve, TypeOK
<1>4. NoRequest.op # "file"
  BY DEF NoRequest, Request
<1>5. ASSUME NEW h \in Handlers, NEW t \in Trips, NEW mark \in Marks, Report(h, t, mark)
      PROVE  TicketOwed'
  <2>1. Request("gated", t, mark, FALSE, FALSE).op # "file"
    BY DEF Request
  <2> QED
    BY <1>2, <1>3, <1>5, <2>1 DEF Report
<1>6. ASSUME NEW h \in Handlers, Load(h) PROVE TicketOwed'
  <2> DEFINE r == Request("loaded", crew[h].trip, crew[h].mark, stop[crew[h].trip].flagged,
                          said[crew[h].trip])
  <2>1. r.op # "file"
    BY DEF Request
  <2>2. Serve(h, r) \/ Serve(h, NoRequest)
    BY <1>6 DEF Load
  <2> HIDE DEF r
  <2>3. UNCHANGED tickets
    BY <1>6 DEF Load
  <2> QED
    BY <1>2, <1>3, <1>4, <2>1, <2>2, <2>3
<1>7. ASSUME NEW h \in Handlers, mark_status(h) PROVE TicketOwed'
  <2>1. [crew[h] EXCEPT !.op = "look"].op # "file"
    BY DEF Requests, TypeOK
  <2> QED
    BY <1>2, <1>3, <1>4, <1>7, <2>1 DEF mark_status
<1>8. ASSUME NEW h \in Handlers, mark_collected(h) \/ CutShort(h) PROVE TicketOwed'
  BY <1>2, <1>3, <1>4, <1>8 DEF mark_collected, CutShort
<1>9. ASSUME NEW h \in Handlers, raise_missed_pickup_ticket(h) PROVE TicketOwed'
  <2>1. CASE missed_pickup_ticket(crew[h].trip)
    BY <1>2, <1>3, <1>4, <1>9, <2>1 DEF raise_missed_pickup_ticket
  <2>2. CASE ~missed_pickup_ticket(crew[h].trip)
    <3>1. \A g \in Handlers : crew'[g] = IF g = h THEN [crew[h] EXCEPT !.op = "file"] ELSE crew[g]
      BY <1>9, <2>2 DEF raise_missed_pickup_ticket, Serve, TypeOK
    <3>2. [crew[h] EXCEPT !.op = "file"].trip = crew[h].trip
      BY DEF Requests, TypeOK
    <3>3. tickets[crew[h].trip][h] = 0
      BY <1>1, <2>2 DEF missed_pickup_ticket, TypeOK
    <3>4. UNCHANGED tickets
      BY <1>9 DEF raise_missed_pickup_ticket
    <3> QED
      BY <3>1, <3>2, <3>3, <3>4 DEF TicketOwed, TicketsNeedOverlap
  <2> QED
    BY <2>1, <2>2
<1>10. ASSUME NEW h \in Handlers, _create_ticket(h) PROVE TicketOwed'
  <2> DEFINE t == crew[h].trip
  <2>1. t \in Trips /\ tickets[t][h] = 0
    BY <1>1, <1>10 DEF _create_ticket, TicketOwed
  <2>2. \A u \in Trips, g \in Handlers :
           tickets'[u][g] = IF u = t /\ g = h THEN 1 ELSE tickets[u][g]
    BY <1>10, <2>1 DEF _create_ticket, TypeOK
  <2>3. \A g \in Handlers : crew'[g].op = "file" => crew'[g] = crew[g] /\ g # h
    BY <1>3, <1>4, <1>10 DEF _create_ticket
  <2> HIDE DEF t
  <2> QED
    BY <1>1, <2>1, <2>2, <2>3 DEF TicketOwed, TicketsNeedOverlap
<1>11. ASSUME UNCHANGED <<tickets, crew>> PROVE TicketOwed'
  BY <1>2, <1>11
<1>12. ASSUME NEW t \in Trips, mark_started(t) \/ mark_ended(t) \/ ApproveReads(t) PROVE TicketOwed'
  BY <1>11, <1>12 DEF mark_started, mark_ended, ApproveReads
<1>13. ASSUME ApproveCommits \/ ApproveAborts PROVE TicketOwed'
  BY <1>11, <1>13 DEF ApproveCommits, ApproveAborts
<1>14. ASSUME NEW d \in Devices, NEW t \in Trips, ImHome(d, t) PROVE TicketOwed'
  BY <1>11, <1>14 DEF ImHome
<1>15. ASSUME NEW d \in Devices, mark_customer_available(d) \/ _alert_crew(d) \/ TapLost(d)
       PROVE  TicketOwed'
  BY <1>11, <1>15 DEF mark_customer_available, _alert_crew, TapLost
<1>16. ASSUME UNCHANGED vars PROVE TicketOwed'
  BY <1>11, <1>16 DEF vars
<1> QED
  BY Steps, <1>5, <1>6, <1>7, <1>8, <1>9, <1>10, <1>12, <1>13, <1>14, <1>15, <1>16

\* A told miss waits for the request that recorded it, and that request looks for
\* the ticket because the flag it loaded says what the customer said.
LEMMA MissStep == ASSUME TypeOK, FlagTrue, MissOnRecord, [Next]_vars PROVE MissOnRecord'
<1> DEFINE Filing(h, t) == crew[h].trip = t /\ crew[h].op \in {"look", "file"}
           OnRecord(t) == miss[t] = "told" /\ (\A h \in Handlers : ~Filing(h, t))
                          => missed_pickup_ticket(t)
<1>1. \A h \in Handlers : crew[h].trip \in Trips
  BY Records DEF TypeOK
<1>2. \A t \in Trips : OnRecord(t)
  BY DEF MissOnRecord
<1>3. (\A t \in Trips : OnRecord(t)') => MissOnRecord'
  BY DEF MissOnRecord
<1>4. ASSUME NEW t \in Trips, UNCHANGED tickets, miss'[t] = "told" => miss[t] = "told",
             \A h \in Handlers : Filing(h, t) => Filing(h, t)'
      PROVE  OnRecord(t)'
  <2>1. missed_pickup_ticket(t)' <=> missed_pickup_ticket(t)
    BY <1>4 DEF missed_pickup_ticket
  <2> QED
    BY <1>2, <1>4, <2>1
<1>5. ASSUME NEW h \in Handlers, NEW r, Serve(h, r), NEW t \in Trips,
             Filing(h, t) => r.trip = t /\ r.op \in {"look", "file"}
      PROVE  \A g \in Handlers : Filing(g, t) => Filing(g, t)'
  BY <1>5 DEF Serve, TypeOK
<1>6. ASSUME NEW h \in Handlers, NEW t \in Trips, NEW mark \in Marks, Report(h, t, mark)
      PROVE  MissOnRecord'
  <2>1. UNCHANGED <<tickets, miss>>
    BY <1>6 DEF Report
  <2>2. \A u \in Trips : ~Filing(h, u)
    BY <1>6 DEF Report
  <2>3. \E r : Serve(h, r)
    BY <1>6 DEF Report
  <2> QED
    BY <1>3, <1>4, <1>5, <2>1, <2>2, <2>3
<1>7. ASSUME NEW h \in Handlers, Load(h) PROVE MissOnRecord'
  <2>1. UNCHANGED <<tickets, miss>>
    BY <1>7 DEF Load
  <2>2. \A u \in Trips : ~Filing(h, u)
    BY <1>7 DEF Load
  <2>3. \E r : Serve(h, r)
    BY <1>7 DEF Load
  <2> QED
    BY <1>3, <1>4, <1>5, <2>1, <2>2, <2>3
<1>8. ASSUME NEW h \in Handlers, mark_status(h) PROVE MissOnRecord'
  <2>0. PICK t \in Trips : t = crew[h].trip
    BY <1>1
  <2>1. crew[h].op = "loaded" /\ UNCHANGED tickets /\ \E r : Serve(h, r)
    BY <1>8 DEF mark_status
  <2>2. \A u \in Trips : ~Filing(h, u)
    BY <2>1
  <2>3. \A u \in Trips \ {t} : miss'[u] = miss[u]
    BY <1>8, <2>0 DEF mark_status, TypeOK
  <2>4. \A u \in Trips \ {t} : OnRecord(u)'
    BY <1>4, <1>5, <2>1, <2>2, <2>3
  <2>5. ASSUME miss'[t] = "told" PROVE Filing(h, t)'
    <3>1. crew[h].mark = STATUS_MISSED /\ crew[h].said
      BY <2>0, <1>8, <2>5 DEF mark_status, TypeOK
    <3>2. crew[h].flagged
      BY <2>1, <3>1 DEF FlagTrue
    <3>3. crew'[h] = [crew[h] EXCEPT !.op = "look"]
      BY <1>8, <3>1, <3>2 DEF mark_status, Serve, TypeOK
    <3>4. crew[h] \in Requests
      BY DEF TypeOK
    <3>5. crew'[h].op = "look" /\ crew'[h].trip = t
      BY <2>0, <3>3, <3>4 DEF Requests
    <3> QED
      BY <3>5
  <2> QED
    BY <1>1, <1>3, <2>4, <2>5
<1>9. ASSUME NEW h \in Handlers, mark_collected(h) PROVE MissOnRecord'
  <2>1. crew[h].op = "gated" /\ UNCHANGED tickets /\ Serve(h, NoRequest)
    BY <1>9 DEF mark_collected
  <2>2. \A u \in Trips : ~Filing(h, u)
    BY <2>1
  <2>3. \A u \in Trips : miss'[u] = "told" => miss[u] = "told"
    BY <1>9 DEF mark_collected, TypeOK
  <2> QED
    BY <1>3, <1>4, <1>5, <2>1, <2>2, <2>3
<1>10. ASSUME NEW h \in Handlers, raise_missed_pickup_ticket(h) PROVE MissOnRecord'
  <2>0. PICK t \in Trips : t = crew[h].trip
    BY <1>1
  <2>1. UNCHANGED <<tickets, miss>>
    BY <1>10 DEF raise_missed_pickup_ticket
  <2>2. CASE missed_pickup_ticket(t)
    <3>1. Serve(h, NoRequest)
      BY <1>10, <2>0, <2>2 DEF raise_missed_pickup_ticket
    <3>2. \A u \in Trips \ {t} : OnRecord(u)'
      BY <1>4, <1>5, <2>0, <2>1, <3>1
    <3>3. missed_pickup_ticket(t)'
      BY <2>1, <2>2 DEF missed_pickup_ticket
    <3> QED
      BY <1>3, <3>2, <3>3
  <2>3. CASE ~missed_pickup_ticket(t)
    <3>1. Serve(h, [crew[h] EXCEPT !.op = "file"])
      BY <1>10, <2>0, <2>3 DEF raise_missed_pickup_ticket
    <3>2. /\ [crew[h] EXCEPT !.op = "file"].trip = t
          /\ [crew[h] EXCEPT !.op = "file"].op = "file"
      BY <2>0 DEF Requests, TypeOK
    <3>3. \A u \in Trips : \A g \in Handlers : Filing(g, u) => Filing(g, u)'
      <4>1. ASSUME NEW r, r = [crew[h] EXCEPT !.op = "file"]
            PROVE  \A u \in Trips : \A g \in Handlers : Filing(g, u) => Filing(g, u)'
        <5>1. Serve(h, r) /\ r.trip = t /\ r.op = "file"
          BY <3>1, <3>2, <4>1
        <5>2. \A u \in Trips : Filing(h, u) => r.trip = u /\ r.op \in {"look", "file"}
          BY <2>0, <5>1
        <5> QED
          BY <1>5, <5>1, <5>2
      <4> QED
        BY <4>1
    <3> QED
      BY <1>3, <1>4, <2>1, <3>3
  <2> QED
    BY <2>2, <2>3
<1>11. ASSUME NEW h \in Handlers, _create_ticket(h) PROVE MissOnRecord'
  <2>0. PICK t \in Trips : t = crew[h].trip
    BY <1>1
  <2>1. UNCHANGED miss /\ Serve(h, NoRequest)
    BY <1>11 DEF _create_ticket
  <2>2. \A u \in Trips \ {t} : tickets'[u] = tickets[u]
    BY <1>11, <2>0 DEF _create_ticket, TypeOK
  <2>3. tickets'[t][h] > 0
    BY <1>11, <2>0 DEF _create_ticket, TypeOK
  <2>4. missed_pickup_ticket(t)'
    BY <2>3 DEF missed_pickup_ticket
  <2>5. ASSUME NEW u \in Trips \ {t} PROVE OnRecord(u)'
    <3>1. \A g \in Handlers : Filing(g, u) => Filing(g, u)'
      BY <1>5, <2>0, <2>1, <2>5
    <3>2. missed_pickup_ticket(u)' <=> missed_pickup_ticket(u)
      BY <2>2, <2>5 DEF missed_pickup_ticket
    <3> QED
      BY <1>2, <2>1, <3>1, <3>2
  <2> QED
    BY <1>3, <2>4, <2>5
<1>12. ASSUME NEW h \in Handlers, CutShort(h) PROVE MissOnRecord'
  <2>0. PICK t \in Trips : t = crew[h].trip
    BY <1>1
  <2>1. UNCHANGED tickets /\ Serve(h, NoRequest)
    BY <1>12 DEF CutShort
  <2>2. \A u \in Trips \ {t} : miss'[u] = miss[u]
    BY <1>12, <2>0 DEF CutShort, TypeOK
  <2>3. \A u \in Trips \ {t} : OnRecord(u)'
    BY <1>4, <1>5, <2>0, <2>1, <2>2
  <2>4. CASE crew[h].op \in {"look", "file"}
    <3>1. miss'[t] # "told"
      BY <1>12, <2>0, <2>4 DEF CutShort, TypeOK
    <3> QED
      BY <1>3, <2>3, <3>1
  <2>5. CASE crew[h].op \notin {"look", "file"}
    <3>1. UNCHANGED miss
      BY <1>12, <2>5 DEF CutShort
    <3> QED
      BY <1>3, <1>4, <1>5, <2>1, <2>5, <3>1
  <2> QED
    BY <2>4, <2>5
<1>13. ASSUME UNCHANGED <<tickets, miss, crew>> PROVE MissOnRecord'
  BY <1>3, <1>4, <1>13
<1>14. ASSUME NEW t \in Trips, mark_started(t) \/ mark_ended(t) \/ ApproveReads(t)
       PROVE  MissOnRecord'
  BY <1>13, <1>14 DEF mark_started, mark_ended, ApproveReads
<1>15. ASSUME ApproveCommits \/ ApproveAborts PROVE MissOnRecord'
  BY <1>13, <1>15 DEF ApproveCommits, ApproveAborts
<1>16. ASSUME NEW d \in Devices, NEW t \in Trips, ImHome(d, t) PROVE MissOnRecord'
  BY <1>13, <1>16 DEF ImHome
<1>17. ASSUME NEW d \in Devices, mark_customer_available(d) \/ _alert_crew(d) \/ TapLost(d)
       PROVE  MissOnRecord'
  BY <1>13, <1>17 DEF mark_customer_available, _alert_crew, TapLost
<1>18. ASSUME UNCHANGED vars PROVE MissOnRecord'
  BY <1>13, <1>18 DEF vars
<1> QED
  BY Steps, <1>6, <1>7, <1>8, <1>9, <1>10, <1>11, <1>12, <1>14, <1>15, <1>16, <1>17, <1>18

-----------------------------------------------------------------------------

\* The day begins with one scheduled trip, an unflagged stop and no request.
LEMMA InitInv == Init => IInv
<1> SUFFICES ASSUME Init PROVE IInv
  OBVIOUS
<1>1. TypeOK
  <2>1. \A m \in Statuses, f \in BOOLEAN : Stop(m, f) \in Stops /\ Stop(m, f).status = m
    BY DEF Stop, Stops
  <2>2. NoStop \in Stops /\ NoStop.status = "none"
    BY Names, <2>1 DEF NoStop
  <2>3. /\ stop \in [Trips -> Stops] /\ trip \in [Trips -> TripStatuses]
        /\ \A t \in Trips : trip[t] = "none" <=> stop[t].status = "none"
    BY Names, <2>1, <2>2 DEF Init
  <2>4. /\ crew \in [Handlers -> Requests] /\ tap \in [Devices -> Taps] /\ approval \in Approvals
        /\ miss \in [Trips -> Misses]
    BY Names, Records DEF Init
  <2>5. /\ alerts \in [Trips -> Nat] /\ tickets \in [Trips -> [Handlers -> Nat]]
        /\ said \in [Trips -> BOOLEAN] /\ marks \in 0..MaxMarks /\ taps \in 0..MaxTaps
    BY DEF Init
  <2> QED
    BY <2>3, <2>4, <2>5 DEF TypeOK
<1>2. \A t \in Trips : ~stop[t].flagged
  BY DEF Init, Stop, NoStop
<1>3. /\ \A h \in Handlers : crew[h].op = "idle"
      /\ \A d \in Devices : tap[d].op = "idle"
      /\ approval.op = "idle"
  BY DEF Init, NoRequest, Request, NoTap, Tap, NoApproval, Approval
<1>4. Opened /\ Unopened
  BY <1>2, <1>3 DEF Opened, Unopened
<1>5. AlertOwed
  <2>1. \A t \in Trips : alerts[t] = 0
    BY DEF Init
  <2> QED
    BY <1>3, <2>1 DEF AlertOwed
<1>6. FlagTrue
  <2>1. \A t \in Trips : said[t] = FALSE /\ stop[t].flagged = FALSE
    BY DEF Init, Stop, NoStop
  <2> QED
    BY <1>3, <2>1 DEF FlagTrue
<1>7. MissOnRecord
  BY DEF MissOnRecord, Init
<1>8. TicketOwed
  BY <1>3 DEF TicketOwed, TicketsNeedOverlap, Init
<1> QED
  BY <1>1, <1>4, <1>5, <1>6, <1>7, <1>8 DEF IInv

\* Every reachable state satisfies IInv.
LEMMA Invariance == Spec => []IInv
<1>1. IInv /\ [Next]_vars => IInv'
  BY TypeStep, OpenedStep, UnopenedStep, AlertStep, FlagStep, MissStep, TicketStep DEF IInv
<1> QED
  BY InitInv, <1>1, PTL DEF Spec

\* Trips, stops, requests, taps and the approval keep their types, and every trip
\* of the day has the household's row from the moment it is opened.
THEOREM StopTypes == Spec => []TypeOK
<1>1. IInv => TypeOK
  BY DEF IInv
<1> QED
  BY Invariance, <1>1, PTL

\* The crew is told at most once per stop, for any number of devices, requests and
\* continuations (mark_customer_available: "a second tap must not spam the crew").
THEOREM AlertsOnce == Spec => []OneAlert
<1>1. IInv => OneAlert
  BY DEF IInv, AlertOwed, OneAlert
<1> QED
  BY Invariance, <1>1, PTL

\* The miss of a household that had said it was home has its ticket on record, on
\* any continuation (mark_status, approve_retrip, raise_missed_pickup_ticket).
THEOREM ToldMissFiled == Spec => []MissOnRecord
<1>1. IInv => MissOnRecord
  BY DEF IInv
<1> QED
  BY Invariance, <1>1, PTL

\* No handler opens a second ticket of a stop (raise_missed_pickup_ticket,
\* "Idempotent"): more than one takes requests that overlap.
THEOREM RepeatsFileOne == Spec => []TicketsNeedOverlap
<1>1. IInv => TicketsNeedOverlap
  BY DEF IInv, TicketOwed
<1> QED
  BY Invariance, <1>1, PTL

-----------------------------------------------------------------------------
(* What the crew is told of and blamed for is what the customer said.      *)

\* What the customer said of a stop is not taken back
FlagsStay == \A t \in Trips : stop[t].flagged => stop'[t].flagged

\* Neither an alert nor a ticket without the customer's word
WordBacked ==
    \A t \in Trips : alerts[t] > 0 \/ missed_pickup_ticket(t) => stop[t].flagged

\* Who works with the flag of a stop, or looks for its ticket, finds the flag up
CopyBacked ==
    \A h \in Handlers :
        \/ crew[h].op = "loaded" /\ crew[h].flagged
        \/ crew[h].op \in {"look", "file"}
        => stop[crew[h].trip].flagged

WordInv ==
    /\ CopyBacked
    /\ \A t \in Trips : missed_pickup_ticket(t) => stop[t].flagged

\* The crew's requests write the status alone, and a continuation's row is new.
LEMMA FlagsStep == ASSUME IInv, [Next]_vars PROVE FlagsStay
<1>1. stop \in [Trips -> Stops] /\ \A h \in Handlers : crew[h].trip \in Trips
  BY Records DEF IInv, TypeOK
<1>2. UNCHANGED stop => FlagsStay
  BY DEF FlagsStay
<1>3. ASSUME NEW h \in Handlers, mark_status(h) \/ mark_collected(h) PROVE FlagsStay
  <2>1. \E m \in Statuses : stop' = [stop EXCEPT ![crew[h].trip].status = m]
    BY <1>3, Records, Names DEF mark_status, mark_collected, IInv, TypeOK
  <2> QED
    BY <1>1, <2>1, StopWrites DEF FlagsStay
<1>4. ASSUME NEW d \in Devices, mark_customer_available(d) PROVE FlagsStay
  <2>1. tap[d].trip \in Trips
    BY Records DEF IInv, TypeOK
  <2>2. UNCHANGED stop \/ stop' = [stop EXCEPT ![tap[d].trip].flagged = TRUE]
    BY <1>4 DEF mark_customer_available
  <2> QED
    BY <1>1, <2>1, <2>2, StopWrites DEF FlagsStay
<1>5. ASSUME ApproveCommits PROVE FlagsStay
  <2>1. approval.trip + 1 \in Trips /\ ~stop[approval.trip + 1].flagged
    BY <1>5 DEF ApproveCommits, IInv, Opened, Unopened
  <2>2. \A t \in Trips : t # approval.trip + 1 => stop'[t] = stop[t]
    BY <1>1, <1>5 DEF ApproveCommits
  <2> QED
    BY <2>1, <2>2 DEF FlagsStay
<1>6. ASSUME NEW h \in Handlers,
             Load(h) \/ raise_missed_pickup_ticket(h) \/ _create_ticket(h) \/ CutShort(h)
      PROVE  FlagsStay
  BY <1>2, <1>6 DEF Load, raise_missed_pickup_ticket, _create_ticket, CutShort
<1>7. ASSUME NEW h \in Handlers, NEW t \in Trips, NEW mark \in Marks, Report(h, t, mark)
      PROVE  FlagsStay
  BY <1>2, <1>7 DEF Report
<1>8. ASSUME NEW d \in Devices, NEW t \in Trips, ImHome(d, t) PROVE FlagsStay
  BY <1>2, <1>8 DEF ImHome
<1>9. ASSUME NEW d \in Devices, _alert_crew(d) \/ TapLost(d) PROVE FlagsStay
  BY <1>2, <1>9 DEF _alert_crew, TapLost
<1>10. ASSUME NEW t \in Trips, mark_started(t) \/ mark_ended(t) \/ ApproveReads(t) PROVE FlagsStay
  BY <1>2, <1>10 DEF mark_started, mark_ended, ApproveReads
<1>11. CASE ApproveAborts \/ UNCHANGED vars
  BY <1>2, <1>11 DEF ApproveAborts, vars
<1> QED
  BY Steps, <1>3, <1>4, <1>5, <1>6, <1>7, <1>8, <1>9, <1>10, <1>11

\* A request that goes on to the ticket carries a flag it has loaded.
LEMMA WordStep == ASSUME IInv, WordInv, [Next]_vars PROVE WordInv'
<1> DEFINE Backed(r) == (r.op = "loaded" /\ r.flagged) \/ r.op \in {"look", "file"}
<1>1. FlagsStay /\ TypeOK /\ \A h \in Handlers : crew[h] \in Requests /\ crew[h].trip \in Trips
  BY FlagsStep, Records DEF IInv, TypeOK
<1>2. ASSUME \A h \in Handlers : Backed(crew'[h]) =>
               crew'[h] = crew[h] \/ (crew'[h].trip \in Trips /\ stop[crew'[h].trip].flagged),
             \A t \in Trips : missed_pickup_ticket(t)' => missed_pickup_ticket(t) \/ stop[t].flagged
      PROVE  WordInv'
  <2>1. \A h \in Handlers : Backed(crew'[h]) =>
          crew'[h].trip \in Trips /\ stop[crew'[h].trip].flagged
    BY <1>1, <1>2 DEF WordInv, CopyBacked
  <2>2. \A h \in Handlers : Backed(crew'[h]) => stop'[crew'[h].trip].flagged
    BY <1>1, <2>1 DEF FlagsStay
  <2>3. \A t \in Trips : missed_pickup_ticket(t)' => stop'[t].flagged
    BY <1>1, <1>2 DEF FlagsStay, WordInv
  <2> QED
    BY <2>2, <2>3 DEF WordInv, CopyBacked
<1>3. UNCHANGED tickets => \A t \in Trips : missed_pickup_ticket(t)' => missed_pickup_ticket(t)
  BY DEF missed_pickup_ticket
<1>4. ASSUME NEW h \in Handlers, NEW r, Serve(h, r)
      PROVE  \A g \in Handlers : crew'[g] = IF g = h THEN r ELSE crew[g]
  BY <1>1, <1>4 DEF Serve, TypeOK
<1>5. ~Backed(NoRequest)
  BY DEF NoRequest, Request
<1>6. ASSUME UNCHANGED <<tickets, crew>> PROVE WordInv'
  BY <1>2, <1>3, <1>6
<1>7. ASSUME NEW h \in Handlers, NEW t \in Trips, NEW mark \in Marks, Report(h, t, mark)
      PROVE  WordInv'
  <2> DEFINE r == Request("gated", t, mark, FALSE, FALSE)
  <2>1. ~Backed(r)
    BY DEF Request
  <2>2. Serve(h, r) /\ UNCHANGED tickets
    BY <1>7 DEF Report
  <2> HIDE DEF r
  <2> QED
    BY <1>2, <1>3, <1>4, <2>1, <2>2
<1>8. ASSUME NEW h \in Handlers, Load(h) PROVE WordInv'
  <2> DEFINE t == crew[h].trip
             r == Request("loaded", t, crew[h].mark, stop[t].flagged, said[t])
  <2>1. (Serve(h, r) \/ Serve(h, NoRequest)) /\ UNCHANGED tickets
    BY <1>8 DEF Load
  <2>2. r.trip \in Trips /\ (Backed(r) => stop[r.trip].flagged)
    BY <1>1 DEF Request
  <2> HIDE DEF r
  <2> QED
    BY <1>2, <1>3, <1>4, <1>5, <2>1, <2>2
<1>9. ASSUME NEW h \in Handlers, mark_status(h) PROVE WordInv'
  <2> DEFINE r == [crew[h] EXCEPT !.op = "look"]
  <2>1. \/ Serve(h, NoRequest)
        \/ Serve(h, r) /\ crew[h].op = "loaded" /\ crew[h].flagged
    BY <1>9 DEF mark_status
  <2>2. r.trip = crew[h].trip
    BY <1>1 DEF Requests
  <2>3. UNCHANGED tickets
    BY <1>9 DEF mark_status
  <2> HIDE DEF r
  <2>4. CASE Serve(h, NoRequest)
    BY <1>2, <1>3, <1>4, <1>5, <2>3, <2>4
  <2>5. CASE Serve(h, r) /\ crew[h].op = "loaded" /\ crew[h].flagged
    <3>1. r.trip \in Trips /\ stop[r.trip].flagged
      BY <1>1, <2>2, <2>5 DEF WordInv, CopyBacked
    <3> QED
      BY <1>2, <1>3, <1>4, <2>3, <2>5, <3>1
  <2> QED
    BY <2>1, <2>4, <2>5
<1>10. ASSUME NEW h \in Handlers, mark_collected(h) \/ CutShort(h) PROVE WordInv'
  BY <1>2, <1>3, <1>4, <1>5, <1>10 DEF mark_collected, CutShort
<1>11. ASSUME NEW h \in Handlers, raise_missed_pickup_ticket(h) PROVE WordInv'
  <2> DEFINE r == [crew[h] EXCEPT !.op = "file"]
  <2>1. (Serve(h, NoRequest) \/ Serve(h, r)) /\ crew[h].op = "look" /\ UNCHANGED tickets
    BY <1>11 DEF raise_missed_pickup_ticket
  <2>2. r.trip = crew[h].trip
    BY <1>1 DEF Requests
  <2>3. stop[crew[h].trip].flagged
    BY <2>1 DEF WordInv, CopyBacked
  <2> HIDE DEF r
  <2> QED
    BY <1>1, <1>2, <1>3, <1>4, <1>5, <2>1, <2>2, <2>3
<1>12. ASSUME NEW h \in Handlers, _create_ticket(h) PROVE WordInv'
  <2>1. /\ stop[crew[h].trip].flagged /\ Serve(h, NoRequest)
        /\ tickets' = [tickets EXCEPT ![crew[h].trip][h] = @ + 1]
    BY <1>12 DEF _create_ticket, WordInv, CopyBacked
  <2>2. \A t \in Trips : t # crew[h].trip => tickets'[t] = tickets[t]
    BY <1>1, <2>1 DEF TypeOK
  <2>3. \A t \in Trips : missed_pickup_ticket(t)' => missed_pickup_ticket(t) \/ stop[t].flagged
    BY <2>1, <2>2 DEF missed_pickup_ticket
  <2> QED
    BY <1>2, <1>4, <1>5, <2>1, <2>3
<1>13. ASSUME NEW d \in Devices, NEW t \in Trips, ImHome(d, t) PROVE WordInv'
  BY <1>6, <1>13 DEF ImHome
<1>14. ASSUME NEW d \in Devices, mark_customer_available(d) \/ _alert_crew(d) \/ TapLost(d)
       PROVE  WordInv'
  BY <1>6, <1>14 DEF mark_customer_available, _alert_crew, TapLost
<1>15. ASSUME NEW t \in Trips, mark_started(t) \/ mark_ended(t) \/ ApproveReads(t) PROVE WordInv'
  BY <1>6, <1>15 DEF mark_started, mark_ended, ApproveReads
<1>16. CASE ApproveCommits \/ ApproveAborts \/ UNCHANGED vars
  BY <1>6, <1>16 DEF ApproveCommits, ApproveAborts, vars
<1> QED
  BY Steps, <1>7, <1>8, <1>9, <1>10, <1>11, <1>12, <1>13, <1>14, <1>15, <1>16

\* No request of the crew, however old its copy, and no continuation takes back
\* what the customer said (mark_status names its columns, approve_retrip copies
\* customer_available_at).
THEOREM FlagsStand == Spec => [][FlagsStay]_vars
<1>1. IInv /\ [Next]_vars => FlagsStay
  BY FlagsStep
<1> QED
  BY Invariance, <1>1, PTL DEF Spec

\* The crew is told of a household, and a missed pickup is filed against it, only
\* on the customer's own word (mark_customer_available; raise_missed_pickup_ticket
\* returns early where the copy has no customer_available_at).
THEOREM NothingUnsaid == Spec => []WordBacked
<1>1. ASSUME Init PROVE WordInv
  <2>1. \A h \in Handlers : crew[h].op = "idle"
    BY <1>1 DEF Init, NoRequest, Request
  <2>2. \A t \in Trips : ~missed_pickup_ticket(t)
    BY <1>1 DEF Init, missed_pickup_ticket
  <2> QED
    BY <2>1, <2>2 DEF WordInv, CopyBacked
<1>2. IInv /\ WordInv /\ [Next]_vars => WordInv'
  BY WordStep
<1>3. IInv /\ WordInv => WordBacked
  BY DEF IInv, AlertOwed, WordInv, WordBacked
<1> QED
  BY Invariance, <1>1, <1>2, <1>3, PTL DEF Spec

=============================================================================
