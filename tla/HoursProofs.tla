------------------------------ MODULE HoursProofs ------------------------------
(***************************************************************************)
(* Proofs about Hours, for any number of requests, services and resources, *)
(* any forms, blocks and grid.                                             *)
(***************************************************************************)
EXTENDS Hours, FiniteSetTheorems, SequenceTheorems, WellFoundedInduction, TLAPS

-----------------------------------------------------------------------------
(* The inductive invariant.                                                *)

HSteps == {"idle", "toggle", "week", "grid", "lock", "closing", "insert", "end"}
Durations == Nat \ {0}
Appointments == [date : Day, time : Int, dur : Durations, res : Bookable]
Weeks == [Day -> Seq(Openings)]

\* What a request holds at each step.
Holds(q) ==
  /\ pc[q] = "toggle" => held[q] \in [id : Service, dur : Durations]
  /\ pc[q] = "week" => q \in Panel /\ held[q] \in Weeks
  /\ pc[q] \in {"grid", "lock", "closing", "insert"} =>
       q \in Client /\ held[q] \in [ask : Asks, dur : Durations]

\* A booking that has its lock was inside the hours if it is inside them now;
\* one about to insert was.
Fitted(c) ==
  /\ Locked(c) /\ Inside(held[c].ask, held[c].dur) => fitted[c]
  /\ pc[c] = "insert" => fitted[c]

\* The configuration, the appointments and the requests, each in its domain.
Types ==
  /\ week \in Weeks
  /\ service \in [Service -> ServiceRow]
  /\ \A s \in Service : service[s].active => service[s].dur > 0
  /\ resource \in [Resource -> {"absent", "inactive", "active"}]
  /\ grid \in [slot : Nat \ {0}, gap : Nat]
  /\ booked \subseteq Appointments
  /\ dayLock \in [Day -> Client \cup {Nothing}]
  /\ pc \in [Request -> HSteps]
  /\ DOMAIN held = Request
  /\ fitted \in [Client -> BOOLEAN]

HoursInv ==
  /\ Types
  /\ \A q \in Request : Holds(q)
  /\ \A c \in Client : Fitted(c)

-----------------------------------------------------------------------------
(* The pure functions: what is offered, what is accepted.                  *)

\* An interval that clears a row is one that create_appointment's overlap query
\* does not find.
LEMMA ClearIsNoConflict ==
  ASSUME NEW d \in Day, NEW t \in Int, NEW dur \in Nat, NEW res \in Bookable,
         NEW other \in Appointments
  PROVE  LET row == [date |-> d, time |-> t, dur |-> dur, res |-> res] IN
         R!Conflict(row, other) <=>
           /\ other.date = d /\ (res = NoResource \/ other.res \in {res, NoResource})
           /\ ~Outside(t, dur, other)
BY DEF R!Conflict, R!Overlap, R!SharesResource, R!End, Outside, Appointments, Durations

\* A start of the grid fits the block it is in, when blocks do not overlap: the
\* first block that contains it is the only one.
LEMMA SlotsFit ==
  ASSUME Types, NEW d \in Day, NEW dur \in Nat, NEW t \in R!Slots(d, dur), Disjoint(week[d])
  PROVE  t \in Int /\ R!FitsClosing(d, t, t + dur)
         /\ \E i \in DOMAIN week[d] : t \in week[d][i].open .. week[d][i].close
<1>1. week[d] \in Seq(Openings)
  BY DEF Types, Weeks
<1>2. PICK n \in Nat : DOMAIN week[d] = 1 .. n /\ \A i \in 1 .. n : week[d][i] \in Openings
  BY <1>1
<1>3. PICK i \in 1 .. n : /\ t \in week[d][i].open .. (week[d][i].close - 1)
                          /\ t + dur <= week[d][i].close
  BY <1>2 DEF R!Slots
<1>4. \A j \in 1 .. n : week[d][j].open \in Int /\ week[d][j].close \in Int
  BY <1>2 DEF Openings
<1>5. t \in Int /\ week[d][i].open <= t /\ t < week[d][i].close
  BY <1>3, <1>4
<1>6. \A j \in 1 .. n : week[d][j].open <= t /\ t < week[d][j].close => j = i
  <2> SUFFICES ASSUME NEW j \in 1 .. n, week[d][j].open <= t, t < week[d][j].close, j # i
               PROVE  FALSE
    OBVIOUS
  <2>1. \/ week[d][i].close <= week[d][j].open
        \/ week[d][j].close <= week[d][i].open
    BY <1>2 DEF Disjoint
  <2> QED
    BY <2>1, <1>4, <1>5
<1>7. R!FitsClosing(d, t, t + dur)
  BY <1>2, <1>3, <1>5, <1>6 DEF R!FitsClosing
<1> QED
  BY <1>2, <1>3, <1>4, <1>5, <1>7

\* The longest of the active services is an active service, and no other is
\* longer: the strict order of the finite sets of services has a least set among
\* those of the services longer than a given one.
LEMMA LongestIsLongest ==
  ASSUME Types, Active # {}
  PROVE  \A s \in Active : /\ Longest({service[a].dur : a \in Active}) \in Nat
                           /\ service[s].dur <= Longest({service[a].dur : a \in Active})
<1> DEFINE Above(x) == {a \in Active : service[a].dur > service[x].dur}
           T == {Above(x) : x \in Active}
           durations == {service[a].dur : a \in Active}
<1>1. Active \subseteq Service /\ \A a \in Active : service[a].dur \in Nat
  BY DEF Types, Active, ServiceRow
<1>2. T \subseteq FiniteSubsetsOf(Service) /\ T # {}
  <2>1. \A x \in Active : Above(x) \in SUBSET Service
    BY <1>1
  <2>2. \A x \in Active : IsFiniteSet(Above(x))
    BY <2>1, HoursAssumption, FS_Subset
  <2> QED
    BY <2>1, <2>2 DEF FiniteSubsetsOf
<1>3. IsWellFoundedOn(StrictSubsetOrdering(Service), FiniteSubsetsOf(Service))
  BY FS_StrictSubsetOrderingWellFounded
<1>4. \E least \in T : \A U \in T : <<U, least>> \notin StrictSubsetOrdering(Service)
  <2> HIDE DEF T
  <2> QED
    BY <1>2, <1>3, WFMin
<1>5. PICK x \in Active : \A y \in Active :
        <<Above(y), Above(x)>> \notin StrictSubsetOrdering(Service)
  BY <1>4
<1>6. ASSUME NEW y \in Active PROVE service[y].dur <= service[x].dur
  <2> SUFFICES ASSUME y \in Above(x) PROVE FALSE
    BY <1>1
  <2>1. Above(y) \subseteq Above(x) /\ y \notin Above(y)
    BY <1>1
  <2>2. Above(y) \in SUBSET Service /\ Above(x) \in SUBSET Service
    BY <1>1
  <2> HIDE DEF Above
  <2>3. <<Above(y), Above(x)>> \in StrictSubsetOrdering(Service)
    BY <2>1, <2>2 DEF StrictSubsetOrdering
  <2> QED
    BY <1>5, <2>3
<1>7. \E m \in durations : \A k \in durations : k <= m
  BY <1>6
<1>8. Longest(durations) \in durations /\ \A k \in durations : k <= Longest(durations)
  <2> HIDE DEF durations
  <2> QED
    BY <1>7 DEF Longest
<1> QED
  BY <1>1, <1>8

\* A longer service starts only where a shorter one may.
LEMMA ShorterFits ==
  ASSUME Types, NEW d \in Day, NEW short \in Nat, NEW long \in Nat, short <= long
  PROVE  R!Slots(d, long) \subseteq R!Slots(d, short)
<1>1. week[d] \in Seq(Openings)
  BY DEF Types, Weeks
<1>2. PICK n \in Nat : DOMAIN week[d] = 1 .. n /\ \A i \in 1 .. n : week[d][i] \in Openings
  BY <1>1
<1>3. ASSUME NEW t \in R!Slots(d, long) PROVE t \in R!Slots(d, short)
  <2>1. PICK i \in 1 .. n : /\ t \in week[d][i].open .. (week[d][i].close - 1)
                            /\ (t - week[d][i].open) % Step = 0
                            /\ t + long <= week[d][i].close
    BY <1>2, <1>3 DEF R!Slots
  <2>2. week[d][i].close \in Int /\ week[d][i].open \in Int
    BY <1>2 DEF Openings
  <2>3. t + short <= week[d][i].close
    BY <2>1, <2>2
  <2> QED
    BY <1>2, <2>1, <2>3 DEF R!Slots
<1> QED
  BY <1>3

-----------------------------------------------------------------------------
(* The steps of a request.                                                 *)

\* At first nobody holds anything.
LEMMA HoursInit == Init => HoursInv
<1> SUFFICES ASSUME Init PROVE HoursInv
  OBVIOUS
<1>1. Types
  BY HoursAssumption DEF Init, Types, Weeks, HSteps, Request
<1>2. \A q \in Request : Holds(q)
  BY DEF Init, Holds
<1>3. \A c \in Client : Fitted(c)
  BY DEF Init, Fitted, Locked, Request
<1> QED
  BY <1>1, <1>2, <1>3 DEF HoursInv

\* Whether an interval is inside the hours depends on the hours only.
LEMMA InsideSame ==
  ASSUME NEW c \in Client, week' = week, held'[c] = held[c]
  PROVE  Inside(held[c].ask, held[c].dur)' <=> Inside(held[c].ask, held[c].dur)
BY DEF Inside, Opens, R!FitsClosing

\* The requests that a step does not move keep what they hold, and their
\* intervals what is known of them while the hours stay.
LEMMA OthersKeep ==
  ASSUME HoursInv, NEW q \in Request, week' = week,
         \A r \in Request \ {q} : pc'[r] = pc[r] /\ held'[r] = held[r],
         \A c \in Client \ {q} : fitted'[c] = fitted[c]
  PROVE  /\ Holds(q)' => \A r \in Request : Holds(r)'
         /\ (q \in Client => Fitted(q)') => \A c \in Client : Fitted(c)'
<1>1. ASSUME NEW r \in Request, r # q PROVE Holds(r)'
  BY <1>1 DEF HoursInv, Holds
<1>2. ASSUME NEW c \in Client, c # q PROVE Fitted(c)'
  <2>1. pc'[c] = pc[c] /\ held'[c] = held[c] /\ fitted'[c] = fitted[c] /\ Fitted(c)
    BY <1>2 DEF HoursInv, Request
  <2>2. Inside(held[c].ask, held[c].dur)' <=> Inside(held[c].ask, held[c].dur)
    BY <2>1, InsideSame
  <2> QED
    BY <2>1, <2>2 DEF Fitted, Locked
<1> QED
  BY <1>1, <1>2

\* A request that goes to another step.
LEMMA GoesMoves ==
  ASSUME HoursInv, NEW q \in Request, NEW step \in HSteps, NEW data, Goes(q, step, data)
  PROVE  /\ pc' \in [Request -> HSteps] /\ DOMAIN held' = Request
         /\ pc'[q] = step /\ held'[q] = data
         /\ \A r \in Request \ {q} : pc'[r] = pc[r] /\ held'[r] = held[r]
BY DEF HoursInv, Types, Goes

\* A request that ends, or gives up, while the hours stay.
LEMMA DoneKeeps ==
  ASSUME HoursInv, NEW q \in Request, Done(q), week' = week, fitted' = fitted
  PROVE  /\ pc' \in [Request -> HSteps] /\ DOMAIN held' = Request
         /\ \A r \in Request : Holds(r)'
         /\ \A c \in Client : Fitted(c)'
<1>1. Goes(q, "end", Nothing) /\ "end" \in HSteps
  BY DEF Done, Goes, HSteps
<1>2. PICK data : data = Nothing
  OBVIOUS
<1>3. /\ pc' \in [Request -> HSteps] /\ DOMAIN held' = Request
      /\ pc'[q] = "end"
      /\ \A r \in Request \ {q} : pc'[r] = pc[r] /\ held'[r] = held[r]
  BY <1>1, <1>2, GoesMoves
<1>4. Holds(q)' /\ (q \in Client => Fitted(q)')
  BY <1>3 DEF Holds, Fitted, Locked
<1> QED
  BY <1>3, <1>4, OthersKeep

\* The panel's steps that end at once keep the types that they do not write.
LEMMA PanelEnds ==
  ASSUME HoursInv, NEW p \in Panel, Done(p), Quiet, week' = week,
         service' \in [Service -> ServiceRow],
         \A s \in Service : service'[s].active => service'[s].dur > 0,
         resource' \in [Resource -> {"absent", "inactive", "active"}],
         grid' \in [slot : Nat \ {0}, gap : Nat]
  PROVE  HoursInv'
<1>1. p \in Request
  BY DEF Request
<1>2. /\ pc' \in [Request -> HSteps] /\ DOMAIN held' = Request
      /\ \A r \in Request : Holds(r)'
      /\ \A c \in Client : Fitted(c)'
  BY <1>1, DoneKeeps DEF Quiet
<1>3. Types'
  BY <1>2 DEF HoursInv, Types, Quiet, Weeks
<1> QED
  BY <1>2, <1>3 DEF HoursInv

\* The rows that the forms leave have a duration when they are active.
LEMMA ServicesLast ==
  ASSUME HoursInv, NEW f, f.id \in Service, f.active \in BOOLEAN, f.dur \in Durations
  PROVE  /\ Added(f) \in [Service -> ServiceRow]
         /\ Updated(f) \in [Service -> ServiceRow]
         /\ \A s \in Service : Added(f)[s].active => Added(f)[s].dur > 0
         /\ \A s \in Service : Updated(f)[s].active => Updated(f)[s].dur > 0
<1>1. /\ service \in [Service -> ServiceRow]
      /\ \A s \in Service : service[s].active => service[s].dur > 0
  BY DEF HoursInv, Types
<1>2. PICK row : row = [active |-> f.active, dur |-> f.dur]
  OBVIOUS
<1>3. row \in ServiceRow /\ row.dur > 0
  BY <1>2 DEF ServiceRow, Durations
<1>4. PICK new : new = [service EXCEPT ![f.id] = row]
  OBVIOUS
<1>5. /\ new \in [Service -> ServiceRow]
      /\ \A s \in Service : new[s].active => new[s].dur > 0
  BY <1>1, <1>3, <1>4
<1>6. Added(f) \in {service, new} /\ Updated(f) \in {service, new}
  BY <1>2, <1>4 DEF Added, Updated
<1> QED
  BY <1>1, <1>5, <1>6

\* What the panel does to the configuration, except to the hours.
LEMMA PanelStep ==
  ASSUME HoursInv, NEW p \in Panel,
         \/ SaveService(p) \/ CommitToggle(p) \/ SaveSettings(p)
         \/ CreateResource(p) \/ ToggleResource(p)
  PROVE  HoursInv'
<1>0. /\ service \in [Service -> ServiceRow]
      /\ \A s \in Service : service[s].active => service[s].dur > 0
      /\ resource \in [Resource -> {"absent", "inactive", "active"}]
      /\ grid \in [slot : Nat \ {0}, gap : Nat]
  BY DEF HoursInv, Types
<1>1. ASSUME SaveService(p) PROVE HoursInv'
  <2>1. PICK f \in Forms.service :
          /\ Done(p) /\ Quiet
          /\ service' = IF ~ValidService(f) THEN service
                        ELSE IF f.new THEN Added(f) ELSE Updated(f)
          /\ UNCHANGED <<week, resource, grid>>
    BY <1>1 DEF SaveService
  <2>2. f.id \in Service /\ f.active \in BOOLEAN /\ f.dur \in Int
    BY HoursAssumption
  <2>3. CASE ~ValidService(f)
    BY <1>0, <2>1, <2>3, PanelEnds
  <2>4. CASE ValidService(f)
    <3>1. f.dur \in Durations
      BY <2>2, <2>4 DEF ValidService, Durations
    <3>2. service' \in {Added(f), Updated(f)}
      BY <2>1, <2>4
    <3>3. /\ service' \in [Service -> ServiceRow]
          /\ \A s \in Service : service'[s].active => service'[s].dur > 0
      BY <2>2, <3>1, <3>2, ServicesLast
    <3> QED
      BY <1>0, <2>1, <3>3, PanelEnds
  <2> QED
    BY <2>3, <2>4
<1>2. ASSUME CommitToggle(p) PROVE HoursInv'
  <2>1. PICK active \in BOOLEAN :
          /\ pc[p] = "toggle" /\ Done(p) /\ Quiet
          /\ service' = Updated([id |-> held[p].id, active |-> active, dur |-> held[p].dur])
          /\ UNCHANGED <<week, resource, grid>>
    BY <1>2 DEF CommitToggle
  <2>2. held[p] \in [id : Service, dur : Durations]
    BY <2>1 DEF HoursInv, Holds, Request
  <2>3. PICK f : f = [id |-> held[p].id, active |-> active, dur |-> held[p].dur]
    OBVIOUS
  <2>4. f.id \in Service /\ f.active \in BOOLEAN /\ f.dur \in Durations
    BY <2>2, <2>3
  <2>5. /\ service' \in [Service -> ServiceRow]
        /\ \A s \in Service : service'[s].active => service'[s].dur > 0
    BY <2>1, <2>3, <2>4, ServicesLast
  <2> QED
    BY <1>0, <2>1, <2>5, PanelEnds
<1>3. ASSUME SaveSettings(p) PROVE HoursInv'
  <2>1. PICK f \in Forms.settings :
          /\ Done(p) /\ Quiet
          /\ grid' = IF ValidGrid(f) /\ ValidGap(f)
                       THEN [slot |-> Given(f.slot, grid.slot), gap |-> Given(f.gap, grid.gap)]
                       ELSE grid
          /\ UNCHANGED <<week, service, resource>>
    BY <1>3 DEF SaveSettings
  <2>2. f.slot \in Int \cup {Nothing} /\ f.gap \in Int \cup {Nothing}
    BY HoursAssumption
  <2>3. grid' \in [slot : Nat \ {0}, gap : Nat]
    <3>1. CASE ValidGrid(f) /\ ValidGap(f)
      <4>1. Given(f.slot, grid.slot) \in Nat \ {0}
        BY <1>0, <2>2, <3>1 DEF ValidGrid, Given
      <4>2. Given(f.gap, grid.gap) \in Nat
        BY <1>0, <2>2, <3>1 DEF ValidGap, Given
      <4> QED
        BY <2>1, <3>1, <4>1, <4>2
    <3> QED
      BY <1>0, <2>1, <3>1
  <2> QED
    BY <1>0, <2>1, <2>3, PanelEnds
<1>4. ASSUME CreateResource(p) \/ ToggleResource(p) PROVE HoursInv'
  <2>1. PICK r \in Resource, state \in {"active", "inactive"} :
          /\ Done(p) /\ Quiet /\ resource' = WithResource(r, state)
          /\ UNCHANGED <<week, service, grid>>
    BY <1>4 DEF CreateResource, ToggleResource
  <2>2. resource' \in [Resource -> {"absent", "inactive", "active"}]
    BY <1>0, <2>1 DEF WithResource
  <2> QED
    BY <1>0, <2>1, <2>2, PanelEnds
<1> QED
  BY <1>1, <1>2, <1>3, <1>4

\* The reads of the panel: the row that a toggle will write back, and the days
\* that a form may write, which are valid blocks.
LEMMA PanelReads ==
  ASSUME HoursInv, NEW p \in Panel, BeginToggle(p) \/ SendWeek(p)
  PROVE  HoursInv'
<1>0. p \in Request /\ p \notin Client
  BY HoursAssumption DEF Request
<1>1. UNCHANGED config /\ Quiet
  BY DEF BeginToggle, SendWeek
<1>2. ASSUME NEW step \in {"toggle", "week"}, NEW data, Goes(p, step, data),
             step = "toggle" => data \in [id : Service, dur : Durations],
             step = "week" => data \in Weeks
      PROVE  HoursInv'
  <2>1. /\ pc' \in [Request -> HSteps] /\ DOMAIN held' = Request
        /\ pc'[p] = step /\ held'[p] = data
        /\ \A r \in Request \ {p} : pc'[r] = pc[r] /\ held'[r] = held[r]
    BY <1>0, <1>2, GoesMoves DEF HSteps
  <2>2. Holds(p)'
    BY <1>2, <2>1 DEF Holds
  <2>3. (\A r \in Request : Holds(r)') /\ (\A c \in Client : Fitted(c)')
    BY <1>0, <1>1, <2>1, <2>2, OthersKeep DEF config, Quiet
  <2>4. Types'
    BY <1>1, <2>1 DEF HoursInv, Types, Quiet, config, Weeks
  <2> QED
    BY <2>3, <2>4 DEF HoursInv
<1>3. ASSUME BeginToggle(p) PROVE HoursInv'
  <2>1. PICK s \in Service :
          service[s].dur > 0 /\ Goes(p, "toggle", [id |-> s, dur |-> service[s].dur])
    BY <1>3 DEF BeginToggle
  <2>2. PICK data : data = [id |-> s, dur |-> service[s].dur]
    OBVIOUS
  <2>3. data \in [id : Service, dur : Durations]
    BY <2>1, <2>2 DEF HoursInv, Types, ServiceRow, Durations
  <2> QED
    BY <1>2, <2>1, <2>2, <2>3
<1>4. ASSUME SendWeek(p) PROVE HoursInv'
  <2>1. PICK entries \in Forms.week :
          IF ValidWeek(entries) THEN Goes(p, "week", Stored(entries)) ELSE Done(p)
    BY <1>4 DEF SendWeek
  <2>2. CASE ~ValidWeek(entries)
    <3>1. Done(p)
      BY <2>1, <2>2
    <3> QED
      BY <1>1, <3>1, PanelEnds DEF HoursInv, Types, config, Quiet
  <2>3. CASE ValidWeek(entries)
    <3>1. PICK data : data = Stored(entries)
      OBVIOUS
    <3>2. ASSUME NEW d \in Day, entries[d].open PROVE entries[d].blocks \in Seq(Openings)
      <4>1. PICK blocks : blocks = entries[d].blocks
        OBVIOUS
      <4>2. blocks \in Seq([open : Int \cup {Nothing}, close : Int \cup {Nothing}])
        BY <4>1, HoursAssumption
      <4>3. PICK n \in Nat : DOMAIN blocks = 1 .. n /\ blocks = [i \in 1 .. n |-> blocks[i]]
        BY <4>2
      <4>4. ASSUME NEW i \in 1 .. n PROVE blocks[i] \in Openings
        <5>1. blocks[i] \in [open : Int \cup {Nothing}, close : Int \cup {Nothing}]
          <6> DEFINE Sent == [open : Int \cup {Nothing}, close : Int \cup {Nothing}]
          <6>1. blocks \in Seq(Sent)
            BY <4>2
          <6> HIDE DEF Sent
          <6>2. blocks[i] \in Sent
            BY <6>1, <4>3
          <6> QED
            BY <6>2 DEF Sent
        <5>2. ValidBlock(blocks[i])
          BY <2>3, <3>2, <4>1, <4>3 DEF ValidWeek, ValidEntry
        <5> QED
          BY <5>1, <5>2 DEF ValidBlock, Openings
      <4>5. blocks \in Seq(Openings)
        BY <4>3, <4>4
      <4> QED
        BY <4>1, <4>5
    <3>3. ASSUME NEW d \in Day
          PROVE  (IF entries[d].open THEN entries[d].blocks ELSE <<>>) \in Seq(Openings)
      BY <3>2
    <3>4. data \in Weeks
      BY <3>1, <3>3 DEF Stored, Weeks
    <3> QED
      BY <1>2, <2>1, <2>3, <3>1, <3>4
  <2> QED
    BY <2>2, <2>3
<1> QED
  BY <1>3, <1>4

\* Writing the hours: whoever has its lock and fits them is known to have.
LEMMA WeekStep ==
  ASSUME HoursInv, NEW p \in Panel, CommitWeek(p)
  PROVE  HoursInv'
<1>0. p \in Request /\ p \notin Client /\ Client \subseteq Request
  BY HoursAssumption DEF Request
<1>1. /\ pc' = [pc EXCEPT ![p] = "end"] /\ held' = [held EXCEPT ![p] = Nothing]
      /\ pc[p] = "week" /\ week' \in {week, held[p]}
      /\ fitted' = [c \in Client |->
           fitted[c] \/ (Locked(c) /\ Inside(held[c].ask, held[c].dur)')]
      /\ UNCHANGED <<service, resource, grid, booked, dayLock>>
  BY DEF CommitWeek, Done
<1>2. week' \in Weeks
  BY <1>0, <1>1 DEF HoursInv, Holds, Types
<1>3. /\ pc' \in [Request -> HSteps] /\ DOMAIN held' = Request
      /\ pc'[p] = "end"
      /\ \A r \in Request \ {p} : pc'[r] = pc[r] /\ held'[r] = held[r]
  BY <1>0, <1>1 DEF HoursInv, Types, HSteps
<1>4. \A r \in Request : Holds(r)'
  BY <1>3 DEF HoursInv, Holds
<1>5. ASSUME NEW c \in Client PROVE Fitted(c)' /\ fitted'[c] \in BOOLEAN
  <2>1. fitted'[c] = (fitted[c] \/ (Locked(c) /\ Inside(held[c].ask, held[c].dur)'))
    BY <1>1
  <2>2. pc'[c] = pc[c] /\ fitted[c] \in BOOLEAN /\ Fitted(c)
    BY <1>0, <1>3 DEF HoursInv, Types
  <2> QED
    BY <2>1, <2>2 DEF Fitted, Locked
<1>6. fitted' \in [Client -> BOOLEAN]
  BY <1>1, <1>5
<1>7. Types'
  BY <1>1, <1>2, <1>3, <1>6 DEF HoursInv, Types
<1> QED
  BY <1>4, <1>5, <1>7 DEF HoursInv

\* A booking that goes on with what it holds, the hours and the appointments as
\* they were.
LEMMA ClientGoes ==
  ASSUME HoursInv, NEW c \in Client, UNCHANGED <<config, booked>>,
         NEW step \in HSteps \ {"toggle", "week"}, NEW data, Goes(c, step, data),
         step # "end" => data \in [ask : Asks, dur : Durations],
         dayLock' \in [Day -> Client \cup {Nothing}],
         fitted' \in [Client -> BOOLEAN],
         \A b \in Client \ {c} : fitted'[b] = fitted[b],
         Fitted(c)'
  PROVE  HoursInv'
<1>1. c \in Request
  BY DEF Request
<1>2. /\ pc' \in [Request -> HSteps] /\ DOMAIN held' = Request
      /\ pc'[c] = step /\ held'[c] = data
      /\ \A r \in Request \ {c} : pc'[r] = pc[r] /\ held'[r] = held[r]
  BY <1>1, GoesMoves
<1>3. Holds(c)'
  BY <1>2 DEF Holds
<1>4. (\A r \in Request : Holds(r)') /\ (\A b \in Client : Fitted(b)')
  BY <1>1, <1>2, <1>3, OthersKeep DEF config
<1>5. Types'
  BY <1>2 DEF HoursInv, Types, config, Weeks
<1> QED
  BY <1>4, <1>5 DEF HoursInv

\* Releasing a request's locks leaves them in their domain.
LEMMA UnlockTyped ==
  ASSUME HoursInv, NEW q \in Request, Unlock(q)
  PROVE  dayLock' \in [Day -> Client \cup {Nothing}]
BY DEF HoursInv, Types, Unlock

\* A booking up to the closing check: it enters the part under its lock knowing
\* whether its interval is inside the hours, and it goes to insert only if so.
LEMMA BookStep ==
  ASSUME HoursInv, NEW c \in Client,
         BeginBook(c) \/ CheckGrid(c) \/ TakeDay(c) \/ CheckClosing(c)
  PROVE  HoursInv'
<1>0. /\ c \in Request /\ UNCHANGED <<config, booked>>
      /\ dayLock \in [Day -> Client \cup {Nothing}] /\ fitted \in [Client -> BOOLEAN]
  BY DEF HoursInv, Types, Request, BeginBook, CheckGrid, TakeDay, CheckClosing, Quiet
<1>1. ASSUME Done(c), fitted' = fitted, dayLock' \in [Day -> Client \cup {Nothing}]
      PROVE  HoursInv'
  <2>1. /\ pc' \in [Request -> HSteps] /\ DOMAIN held' = Request
        /\ \A r \in Request : Holds(r)'
        /\ \A b \in Client : Fitted(b)'
    BY <1>0, <1>1, DoneKeeps DEF config
  <2>2. Types'
    BY <1>0, <1>1, <2>1 DEF HoursInv, Types, config, Weeks
  <2> QED
    BY <2>1, <2>2 DEF HoursInv
<1>2. ASSUME pc[c] \in {"grid", "lock", "closing"}
      PROVE  held[c] \in [ask : Asks, dur : Durations]
  BY <1>0, <1>2 DEF HoursInv, Holds
<1>3. ASSUME NEW step \in {"grid", "lock"}, NEW data, Goes(c, step, data), Quiet,
             data \in [ask : Asks, dur : Durations]
      PROVE  HoursInv'
  <2>1. pc'[c] = step
    BY <1>0, <1>3, GoesMoves DEF HSteps
  <2>2. Fitted(c)'
    BY <2>1 DEF Fitted, Locked
  <2> QED
    BY <1>0, <1>3, <2>2, ClientGoes DEF HSteps, Quiet
<1>4. ASSUME BeginBook(c) PROVE HoursInv'
  <2>1. PICK ask \in Asks : IF ask.service \in Active /\ ValidResource(ask.res)
          THEN Goes(c, "grid", [ask |-> ask, dur |-> service[ask.service].dur]) ELSE Done(c)
    BY <1>4 DEF BeginBook
  <2>2. PICK data : data = [ask |-> ask, dur |-> service[ask.service].dur]
    OBVIOUS
  <2>3. ask.service \in Active => data \in [ask : Asks, dur : Durations]
    BY <2>2 DEF HoursInv, Types, ServiceRow, Active, Durations
  <2> QED
    BY <1>0, <1>1, <1>3, <1>4, <2>1, <2>2, <2>3 DEF BeginBook, Quiet
<1>5. ASSUME CheckGrid(c) PROVE HoursInv'
  <2>1. PICK data : data = held[c]
    OBVIOUS
  <2>2. Goes(c, "lock", data) \/ Done(c)
    BY <1>5, <2>1 DEF CheckGrid
  <2>3. data \in [ask : Asks, dur : Durations]
    BY <1>2, <1>5, <2>1 DEF CheckGrid
  <2> QED
    BY <1>0, <1>1, <1>3, <1>5, <2>2, <2>3 DEF CheckGrid, Quiet
<1>6. ASSUME TakeDay(c) PROVE HoursInv'
  <2>1. PICK data : data = held[c]
    OBVIOUS
  <2>2. /\ Goes(c, "closing", data)
        /\ dayLock' = [dayLock EXCEPT ![data.ask.date] = c]
        /\ fitted' = [fitted EXCEPT ![c] = Inside(data.ask, data.dur)]
    BY <1>6, <2>1 DEF TakeDay
  <2>3. data \in [ask : Asks, dur : Durations]
    BY <1>2, <1>6, <2>1 DEF TakeDay
  <2>4. pc'[c] = "closing" /\ held'[c] = data
    BY <1>0, <2>2, GoesMoves DEF HSteps
  <2>5. PICK inside \in BOOLEAN : inside = Inside(data.ask, data.dur)
    BY DEF Inside
  <2>6. fitted' \in [Client -> BOOLEAN] /\ fitted'[c] = Inside(data.ask, data.dur)
        /\ \A b \in Client \ {c} : fitted'[b] = fitted[b]
    BY <1>0, <2>2, <2>5
  <2>7. Inside(held[c].ask, held[c].dur)' <=> Inside(data.ask, data.dur)
    BY <1>0, <2>1, <2>4, InsideSame DEF config
  <2>8. Fitted(c)'
    BY <2>4, <2>6, <2>7 DEF Fitted
  <2>9. dayLock' \in [Day -> Client \cup {Nothing}]
    BY <1>0, <2>2
  <2> QED
    BY <1>0, <2>2, <2>3, <2>6, <2>8, <2>9, ClientGoes DEF HSteps
<1>7. ASSUME CheckClosing(c) PROVE HoursInv'
  <2>1. PICK data : data = held[c]
    OBVIOUS
  <2>2. pc[c] = "closing" /\ fitted' = fitted /\ data \in [ask : Asks, dur : Durations]
    BY <1>2, <1>7, <2>1 DEF CheckClosing
  <2>3. CASE ~Inside(held[c].ask, held[c].dur)
    <3>1. Done(c) /\ Unlock(c)
      BY <1>7, <2>3 DEF CheckClosing, ClosingHolds
    <3> QED
      BY <1>0, <1>1, <2>2, <3>1, UnlockTyped
  <2>4. CASE Inside(held[c].ask, held[c].dur)
    <3>1. Goes(c, "insert", data) /\ dayLock' = dayLock
      BY <1>7, <2>1, <2>4 DEF CheckClosing, ClosingHolds
    <3>2. fitted[c]
      BY <2>2, <2>4 DEF HoursInv, Fitted, Locked
    <3>3. Fitted(c)'
      BY <2>2, <3>2 DEF Fitted
    <3> QED
      BY <1>0, <2>2, <3>1, <3>3, ClientGoes DEF HSteps
  <2> QED
    BY <2>3, <2>4
<1> QED
  BY <1>4, <1>5, <1>6, <1>7

\* What ends a request of the agenda: the appointment it writes, or nothing.
LEMMA AgendaEnds ==
  ASSUME HoursInv, NEW q \in Request, Done(q), Unlock(q), UNCHANGED <<config, fitted>>,
         booked' \subseteq Appointments
  PROVE  HoursInv'
<1>1. /\ pc' \in [Request -> HSteps] /\ DOMAIN held' = Request
      /\ \A r \in Request : Holds(r)'
      /\ \A b \in Client : Fitted(b)'
  BY DoneKeeps DEF config
<1>2. Types'
  BY <1>1, UnlockTyped DEF HoursInv, Types, config, Weeks
<1> QED
  BY <1>1, <1>2 DEF HoursInv

\* Writing an appointment, dying and cancelling.
LEMMA AgendaStep ==
  ASSUME HoursInv,
         \/ \E c \in Client : Insert(c)
         \/ \E q \in Request : Crash(q)
         \/ \E row \in booked : CancelAppointment(row)
  PROVE  HoursInv'
<1>1. ASSUME NEW c \in Client, Insert(c) PROVE HoursInv'
  <2>1. PICK row : row = RowOf(held[c].ask, held[c].dur)
    OBVIOUS
  <2>2. Done(c) /\ Unlock(c) /\ booked' \in {booked, booked \cup {row}}
        /\ UNCHANGED <<config, fitted>> /\ pc[c] = "insert" /\ c \in Request
    BY <1>1, <2>1 DEF Insert, Request
  <2>3. held[c] \in [ask : Asks, dur : Durations]
    BY <2>2 DEF HoursInv, Holds
  <2>4. row \in Appointments
    BY <2>1, <2>3, HoursAssumption DEF RowOf, Appointments
  <2>5. booked' \subseteq Appointments
    BY <2>2, <2>4 DEF HoursInv, Types
  <2> QED
    BY <2>2, <2>5, AgendaEnds
<1>2. ASSUME NEW q \in Request, Crash(q) PROVE HoursInv'
  BY <1>2, AgendaEnds DEF Crash, HoursInv, Types
<1>3. ASSUME NEW row \in booked, CancelAppointment(row) PROVE HoursInv'
  <2>1. UNCHANGED <<config, dayLock, pc, held, fitted>> /\ booked' \subseteq booked
    BY <1>3 DEF CancelAppointment
  <2>2. Types'
    BY <2>1 DEF HoursInv, Types, config, Weeks
  <2>3. \A r \in Request : Holds(r)'
    BY <2>1 DEF HoursInv, Holds
  <2>4. ASSUME NEW c \in Client PROVE Fitted(c)'
    <3>1. Inside(held[c].ask, held[c].dur)' <=> Inside(held[c].ask, held[c].dur)
      BY <2>1, InsideSame DEF config
    <3> QED
      BY <2>1, <3>1 DEF HoursInv, Fitted, Locked
  <2> QED
    BY <2>2, <2>3, <2>4 DEF HoursInv
<1> QED
  BY <1>1, <1>2, <1>3

\* Steps that change nothing.
LEMMA HoursStutter ==
  ASSUME HoursInv, UNCHANGED vars
  PROVE  HoursInv'
<1>1. UNCHANGED <<week, service, resource, grid, booked, dayLock, pc, held, fitted>>
  BY DEF vars, config
<1>2. Types'
  BY <1>1 DEF HoursInv, Types, Weeks
<1>3. \A r \in Request : Holds(r)'
  BY <1>1 DEF HoursInv, Holds
<1>4. ASSUME NEW c \in Client PROVE Fitted(c)'
  <2>1. Inside(held[c].ask, held[c].dur)' <=> Inside(held[c].ask, held[c].dur)
    BY <1>1, InsideSame
  <2> QED
    BY <1>1, <2>1 DEF HoursInv, Fitted, Locked
<1> QED
  BY <1>2, <1>3, <1>4 DEF HoursInv

\* Whatever the panel and the clients do, in any order, the configuration and
\* the requests stay as create_appointment and get_available_times expect them.
THEOREM HoursSafe == Spec => []HoursInv
<1>1. ASSUME HoursInv, [Next]_vars PROVE HoursInv'
  <2>1. CASE UNCHANGED vars
    BY <1>1, <2>1, HoursStutter
  <2>2. ASSUME NEW p \in Panel,
               \/ SaveService(p) \/ BeginToggle(p) \/ CommitToggle(p)
               \/ SaveSettings(p) \/ SendWeek(p) \/ CommitWeek(p)
               \/ CreateResource(p) \/ ToggleResource(p)
        PROVE  HoursInv'
    BY <1>1, <2>2, PanelStep, PanelReads, WeekStep
  <2>3. ASSUME NEW c \in Client,
               BeginBook(c) \/ CheckGrid(c) \/ TakeDay(c) \/ CheckClosing(c)
        PROVE  HoursInv'
    BY <1>1, <2>3, BookStep
  <2> QED
    BY <1>1, <2>1, <2>2, <2>3, AgendaStep DEF Next
<1> QED
  BY <1>1, HoursInit, PTL DEF Spec

\* Every variable of Hours stays in its domain: blocks are not empty, an active
\* service lasts, the grid advances and an appointment has a duration.
THEOREM HoursTyped == Spec => []TypeOK
<1>1. ASSUME HoursInv PROVE TypeOK
  <2>1. ASSUME NEW d \in Day, NEW i \in DOMAIN week[d] PROVE ValidBlock(week[d][i])
    <3>1. week[d] \in Seq(Openings)
      BY <1>1 DEF HoursInv, Types, Weeks
    <3>2. week[d][i] \in Openings
      BY <3>1
    <3> QED
      BY <3>2, HoursAssumption DEF Openings, ValidBlock
  <2>2. \A s \in Service : service[s].dur \in Nat /\ (service[s].active => service[s].dur > 0)
    BY <1>1 DEF HoursInv, Types, ServiceRow
  <2>3. \A row \in booked :
          row.date \in Day /\ row.dur > 0 /\ row.res \in Resource \cup {NoResource}
    BY <1>1 DEF HoursInv, Types, Appointments, Durations, Bookable
  <2>4. grid.slot \in Nat \ {0} /\ grid.gap \in Nat
    BY <1>1 DEF HoursInv, Types
  <2> QED
    BY <1>1, <2>1, <2>2, <2>3, <2>4 DEF HoursInv, Types, TypeOK, HSteps
<1> QED
  BY <1>1, HoursSafe, PTL

-----------------------------------------------------------------------------
(* What is offered is accepted.                                            *)

\* A time that clears the intervals that occupy the grid meets no appointment.
LEMMA ClearMeetsNobody ==
  ASSUME Types, NEW d \in Day, NEW t \in Int, NEW dur \in Durations, NEW res \in Bookable
  PROVE  LET row == [date |-> d, time |-> t, dur |-> dur, res |-> res] IN
         (\A other \in booked : ~R!Conflict(row, other)) <=>
         (\A other \in Occupying(d, res) : Outside(t, dur, other))
<1>1. booked \subseteq Appointments
  BY DEF Types
<1>2. ASSUME NEW other \in booked
      PROVE  LET row == [date |-> d, time |-> t, dur |-> dur, res |-> res] IN
             R!Conflict(row, other) <=>
               /\ other.date = d /\ (res = NoResource \/ other.res \in {res, NoResource})
               /\ ~Outside(t, dur, other)
  BY <1>1, ClearIsNoConflict DEF Durations
<1> QED
  BY <1>2 DEF Occupying

\* The minutes of the blocks of a day are numbers.
LEMMA TimesAreInts ==
  ASSUME Types, NEW d \in Day,
         NEW t \in UNION {week[d][i].open .. week[d][i].close : i \in DOMAIN week[d]}
  PROVE  t \in Int
<1>1. week[d] \in Seq(Openings)
  BY DEF Types, Weeks
<1>2. PICK i \in DOMAIN week[d] : t \in week[d][i].open .. week[d][i].close
  OBVIOUS
<1>3. week[d][i] \in Openings
  BY <1>1
<1> QED
  BY <1>2, <1>3 DEF Openings

\* The times that get_available_times lists for a service, and are not past, are
\* those that create_appointment accepts on a business at rest; those it lists
\* without a service are accepted for every service.
THEOREM OfferedAccepted == Spec => []OfferedIsAccepted
<1>1. ASSUME HoursInv PROVE OfferedIsAccepted
  <2> SUFFICES ASSUME NEW d \in Day, NEW s \in Active, NEW res \in Resource \cup {NoResource},
                      Disjoint(week[d])
               PROVE
         LET Ask(t) == [service |-> s, date |-> d, time |-> t, res |-> res]
             Times  == UNION {week[d][i].open .. week[d][i].close : i \in DOMAIN week[d]}
         IN  /\ \A t \in Times : Future(Ask(t)) =>
                  (t \in Offered(d, s, res) <=> Accepted(Ask(t)))
             /\ \A t \in Offered(d, AnyService, res) : Future(Ask(t)) => Accepted(Ask(t))
    BY DEF OfferedIsAccepted
  <2> DEFINE Ask(t) == [service |-> s, date |-> d, time |-> t, res |-> res]
             Times  == UNION {week[d][i].open .. week[d][i].close : i \in DOMAIN week[d]}
             dur    == service[s].dur
  <2>0. /\ Types /\ res \in Bookable /\ s \in Service /\ s # AnyService
        /\ dur \in Durations /\ dur \in Nat /\ d \in Nat
    BY <1>1, HoursAssumption DEF HoursInv, Types, Active, ServiceRow, Durations, Bookable
  <2>1. ASSUME NEW t \in Int, Future(Ask(t)) PROVE d >= Today
    BY <2>0, <2>1, HoursAssumption DEF Future
  \* What both say of a start of the grid.
  <2>2. ASSUME NEW t \in R!Slots(d, dur)
        PROVE  t \in Int /\ Opens(d) /\ Inside(Ask(t), dur)
    <3>1. /\ t \in Int /\ R!FitsClosing(d, t, t + dur)
          /\ \E i \in DOMAIN week[d] : t \in week[d][i].open .. week[d][i].close
      BY <2>0, SlotsFit
    <3>2. Opens(d)
      BY <3>1 DEF Opens
    <3> QED
      BY <3>1, <3>2 DEF Inside
  <2>3. ASSUME NEW t \in Int, Future(Ask(t))
        PROVE  Accepted(Ask(t)) <=>
                 /\ ValidResource(res) /\ t \in R!Slots(d, dur)
                 /\ \A other \in Occupying(d, res) : Outside(t, dur, other)
    <3>1. (\A other \in booked : ~R!Conflict(RowOf(Ask(t), dur), other)) <=>
            (\A other \in Occupying(d, res) : Outside(t, dur, other))
      BY <2>0, ClearMeetsNobody DEF RowOf
    <3>2. Accepted(Ask(t)) <=>
            /\ ValidResource(res) /\ Opens(d) /\ t \in R!Slots(d, dur) /\ Inside(Ask(t), dur)
            /\ \A other \in booked : ~R!Conflict(RowOf(Ask(t), dur), other)
      BY <2>3 DEF Accepted, OnGrid, RowOf
    <3> QED
      BY <2>2, <3>1, <3>2
  <2>4. ASSUME NEW t \in Times, Future(Ask(t))
        PROVE  t \in Offered(d, s, res) <=> Accepted(Ask(t))
    <3>1. t \in Int
      BY <2>0, <2>4, TimesAreInts
    <3>2. ~(d < Today)
      BY <2>0, <2>1, <2>4, <3>1, HoursAssumption
    <3>3. t \in Offered(d, s, res) <=>
            /\ Opens(d) /\ ValidResource(res) /\ t \in R!Slots(d, dur)
            /\ \A row \in Occupying(d, res) : Outside(t, dur, row)
      BY <2>0, <3>2 DEF Offered, Needed, Clear
    <3> QED
      BY <2>2, <2>3, <2>4, <3>1, <3>3
  <2>5. ASSUME NEW t \in Offered(d, AnyService, res), Future(Ask(t)) PROVE Accepted(Ask(t))
    <3>1. /\ ValidResource(res) /\ t \in R!Slots(d, Needed(AnyService))
          /\ \A row \in Occupying(d, res) : R!End(row) <= t
      BY <2>5 DEF Offered, Clear
    <3>2. Needed(AnyService) \in Nat /\ dur <= Needed(AnyService)
      BY <2>0, LongestIsLongest DEF Needed
    <3>3. t \in R!Slots(d, dur)
      BY <2>0, <3>1, <3>2, ShorterFits
    <3>4. \A row \in Occupying(d, res) : Outside(t, dur, row)
      BY <3>1 DEF Outside
    <3> QED
      BY <2>2, <2>3, <2>5, <3>1, <3>3, <3>4
  <2> QED
    BY <2>4, <2>5
<1> QED
  BY <1>1, HoursSafe, PTL

\* No appointment is written outside the opening hours in force at some moment
\* since its request had the day lock, whatever the panel saves meanwhile.
THEOREM BookedInside == Spec => BookedInHours
<1>1. ASSUME HoursInv
      PROVE  \A c \in Client : pc[c] = "insert" /\ booked' # booked /\ pc'[c] = "end" => fitted[c]
  BY <1>1 DEF HoursInv, Fitted
<1> QED
  BY <1>1, HoursSafe, PTL DEF BookedInHours
===============================================================================
