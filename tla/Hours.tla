--------------------------------- MODULE Hours ---------------------------------
(***************************************************************************)
(* What a business offers and accepts while its panel changes it: weekly   *)
(* hours, services, resources and the grid of starts (routes/admin.py and  *)
(* the scoped functions of database/database.py), the free times that      *)
(* get_available_times lists, and the checks of create_appointment         *)
(* (services/appointments.py) against that configuration.                  *)
(*                                                                         *)
(* A booking reads the service, the resource and the grid before its locks *)
(* and the closing time after them; no lock covers the panel's writes.     *)
(* How bookings compete for the agenda is the subject of Booking.          *)
(***************************************************************************)
EXTENDS Integers, Sequences, FiniteSets

CONSTANTS
  Panel, Client,       \* requests of the panel and of clients
  Service, Resource, NoResource, AnyService, Nothing,
  Day,                 \* the days that matter, each of its own weekday
  Today, Minute,       \* the date and time of the business
  Forms,               \* what the panel may send
  Asks,                \* what clients may ask for
  Initial              \* configurations there may be at first

VARIABLES
  week,       \* the blocks of each day; none when it is closed
  service,    \* active, duration; no duration when there is no row
  resource,   \* "absent", "inactive" or "active"
  grid,       \* slot_duration, break_between_slots
  booked,     \* the confirmed appointments
  dayLock,    \* the holder of each day's advisory lock
  pc, held,   \* the step and the data of each request
  fitted      \* history: its interval was inside the hours since it had the lock

config == <<week, service, resource, grid>>
vars == <<config, booked, dayLock, pc, held, fitted>>

Request == Panel \cup Client

Openings == {block \in [open : Int, close : Int] : block.open < block.close}
ServiceRow == [active : BOOLEAN, dur : Nat]
Bookable == Resource \cup {NoResource}

\* What the forms and the clients may send, and the configurations at first: a
\* service is active only with a duration, and an open day has blocks.
ASSUME HoursAssumption ==
  /\ Panel \cap Client = {} /\ IsFiniteSet(Service)
  /\ AnyService \notin Service /\ NoResource \notin Resource
  /\ Nothing \notin Int \cup Client
  /\ Day \subseteq Nat /\ Today \in Nat /\ Minute \in Nat
  /\ Forms.service \subseteq [id : Service, new : BOOLEAN, active : BOOLEAN, dur : Int]
  /\ Forms.settings \subseteq [slot : Int \cup {Nothing}, gap : Int \cup {Nothing}]
  /\ Forms.week \subseteq
       [Day -> [open : BOOLEAN,
                blocks : Seq([open : Int \cup {Nothing}, close : Int \cup {Nothing}])]]
  /\ Asks \subseteq [service : Service, date : Day, time : Int, res : Bookable]
  /\ Initial \subseteq [week : [Day -> Seq(Openings)], service : [Service -> ServiceRow],
                       resource : [Resource -> {"absent", "inactive", "active"}],
                       grid : [slot : Nat \ {0}, gap : Nat]]
  /\ \A first \in Initial, s \in Service : first.service[s].active => first.service[s].dur > 0

\* The settings, as the grid reads them.
Step == grid.slot + grid.gap

\* The appointments and the pure functions of Booking, over this configuration.
R == INSTANCE Rows WITH
       Contact <- {}, NoContact <- Nothing, Key <- {}, NoKey <- Nothing,
       Blocks <- week, Step <- Step, MaxActive <- 1

-----------------------------------------------------------------------------
(* The configuration.                                                      *)

\* Mutants: a grid of any step, an interval compared by its start only, and a
\* booking that trusts the grid it saw before the locks.
AnyGrid(f) == TRUE
StartsOutside(time, dur, row) == time < row.time \/ R!End(row) <= time
Trusted(ask, dur) == TRUE

\* get_weekly_schedule: the day has a row and is open.
Opens(d) == week[d] # <<>>

\* The rows with active, with a positive duration.
Active == {s \in Service : service[s].active}

\* get_resource_scoped finds a row.
Known(r) == resource[r] # "absent"

\* _validate_resource: no resource, or an active one of the business.
ValidResource(res) == res = NoResource \/ resource[res] = "active"

\* A form's block is complete and not empty.
ValidBlock(block) ==
  block.open # Nothing /\ block.close # Nothing /\ block.open < block.close

\* _validate_weekly_schedule_entry: an open day has at least a block, and a
\* form that closes a day loses its times.  Blocks may overlap.
ValidEntry(entry) ==
  entry.open => entry.blocks # <<>> /\ \A i \in DOMAIN entry.blocks : ValidBlock(entry.blocks[i])

\* Any invalid day rejects the whole week.
ValidWeek(entries) == \A d \in Day : ValidEntry(entries[d])

Stored(entries) == [d \in Day |-> IF entries[d].open THEN entries[d].blocks ELSE <<>>]

\* _service_form_data
ValidService(f) == f.dur > 0

\* slot_duration and break_between_slots of the settings form.
ValidGrid(f) == f.slot # Nothing => f.slot >= 1
ValidGap(f) == f.gap # Nothing => f.gap >= 0

\* COALESCE(?, column)
Given(value, column) == IF value = Nothing THEN column ELSE value

-----------------------------------------------------------------------------
(* get_available_times                                                     *)

Longest(durations) == CHOOSE x \in durations : \A y \in durations : y <= x

\* Without a service, the longest active one, or the step when there is none.
Needed(s) ==
  IF s # AnyService THEN service[s].dur
  ELSE IF Active = {} THEN grid.slot
  ELSE Longest({service[a].dur : a \in Active})

\* The intervals that occupy the grid: with a resource, its own and the global
\* ones; without one, all.
Occupying(d, res) ==
  {row \in booked : row.date = d /\ (res = NoResource \/ row.res \in {res, NoResource})}

\* No overlap; without a service, nothing that ends later.
Outside(time, dur, row) == R!End(row) <= time \/ time + dur <= row.time
Clear(time, s, row) ==
  IF s = AnyService THEN R!End(row) <= time ELSE Outside(time, service[s].dur, row)

Offered(d, s, res) ==
  IF d < Today \/ ~Opens(d) \/ ~ValidResource(res) \/ (s # AnyService /\ s \notin Active)
    THEN {}
    ELSE {t \in R!Slots(d, Needed(s)) : \A row \in Occupying(d, res) : Clear(t, s, row)}

-----------------------------------------------------------------------------
(* The panel.  Every form asks for a membership and its token first.       *)

Done(p) == pc' = [pc EXCEPT ![p] = "end"] /\ held' = [held EXCEPT ![p] = Nothing]
Goes(p, step, data) ==
  pc' = [pc EXCEPT ![p] = step] /\ held' = [held EXCEPT ![p] = data]
Quiet == UNCHANGED <<booked, dayLock, fitted>>

\* create_service_scoped inserts a row, update_service_scoped changes one.
Added(f) == IF service[f.id].dur = 0
              THEN [service EXCEPT ![f.id] = [active |-> f.active, dur |-> f.dur]] ELSE service
Updated(f) == IF service[f.id].dur > 0
                THEN [service EXCEPT ![f.id] = [active |-> f.active, dur |-> f.dur]] ELSE service

\* admin_save_service, with an id or without one.
SaveService(p) == \E f \in Forms.service :
  /\ pc[p] = "idle" /\ Done(p) /\ Quiet
  /\ service' = IF ~ValidService(f) THEN service ELSE IF f.new THEN Added(f) ELSE Updated(f)
  /\ UNCHANGED <<week, resource, grid>>

\* admin_toggle_service reads the whole row,
BeginToggle(p) == \E s \in Service :
  /\ pc[p] = "idle" /\ service[s].dur > 0 /\ Quiet
  /\ Goes(p, "toggle", [id |-> s, dur |-> service[s].dur])
  /\ UNCHANGED config

\* and writes it back with the new state.
CommitToggle(p) == \E active \in BOOLEAN :
  /\ pc[p] = "toggle" /\ Done(p) /\ Quiet
  /\ service' = Updated([id |-> held[p].id, active |-> active, dur |-> held[p].dur])
  /\ UNCHANGED <<week, resource, grid>>

\* admin_update_business_settings: what is not given does not change.
SaveSettings(p) == \E f \in Forms.settings :
  /\ pc[p] = "idle" /\ Done(p) /\ Quiet
  /\ grid' = IF ValidGrid(f) /\ ValidGap(f)
               THEN [slot |-> Given(f.slot, grid.slot), gap |-> Given(f.gap, grid.gap)]
               ELSE grid
  /\ UNCHANGED <<week, service, resource>>

\* admin_save_weekly_schedule validates the seven days,
SendWeek(p) == \E entries \in Forms.week :
  /\ pc[p] = "idle" /\ Quiet
  /\ IF ValidWeek(entries) THEN Goes(p, "week", Stored(entries)) ELSE Done(p)
  /\ UNCHANGED config

\* _fits_closing: the interval is inside the block that contains its start.
Inside(ask, dur) == Opens(ask.date) /\ R!FitsClosing(ask.date, ask.time, ask.time + dur)

Locked(c) == pc[c] \in {"closing", "insert"}

\* and writes them in one transaction, which may fail as a whole.
CommitWeek(p) ==
  /\ pc[p] = "week" /\ Done(p)
  /\ week' \in {week, held[p]}
  /\ fitted' = [c \in Client |->
       fitted[c] \/ (Locked(c) /\ Inside(held[c].ask, held[c].dur)')]
  /\ UNCHANGED <<service, resource, grid, booked, dayLock>>

WithResource(r, state) == [resource EXCEPT ![r] = state]

\* admin_create_resource; the answer fails after the row is there.
CreateResource(p) == \E r \in Resource :
  /\ pc[p] = "idle" /\ ~Known(r) /\ Done(p) /\ Quiet
  /\ resource' = WithResource(r, "active")
  /\ UNCHANGED <<week, service, grid>>

\* admin_toggle_resource
ToggleResource(p) == \E r \in Resource, state \in {"active", "inactive"} :
  /\ pc[p] = "idle" /\ Known(r) /\ Done(p) /\ Quiet
  /\ resource' = WithResource(r, state)
  /\ UNCHANGED <<week, service, grid>>

-----------------------------------------------------------------------------
(* create_appointment                                                      *)

\* The active service's duration and the resource are read first,
BeginBook(c) == \E ask \in Asks :
  /\ pc[c] = "idle" /\ Quiet
  /\ IF ask.service \in Active /\ ValidResource(ask.res)
       THEN Goes(c, "grid", [ask |-> ask, dur |-> service[ask.service].dur])
       ELSE Done(c)
  /\ UNCHANGED config

\* The date is open and not past, the time is not past,
Future(ask) == ask.date > Today \/ (ask.date = Today /\ ask.time > Minute)

\* and it is a start of the grid, with the duration that the service has now.
OnGrid(ask) ==
  /\ Opens(ask.date) /\ ask.service \in Active
  /\ ask.time \in R!Slots(ask.date, service[ask.service].dur)

CheckGrid(c) ==
  /\ pc[c] = "grid" /\ Quiet
  /\ IF Future(held[c].ask) /\ OnGrid(held[c].ask) THEN Goes(c, "lock", held[c]) ELSE Done(c)
  /\ UNCHANGED config

\* The day lock begins the part that no other booking of the day interleaves.
TakeDay(c) ==
  LET ask == held[c].ask IN
  /\ pc[c] = "lock" /\ dayLock[ask.date] = Nothing
  /\ dayLock' = [dayLock EXCEPT ![ask.date] = c]
  /\ Goes(c, "closing", held[c])
  /\ fitted' = [fitted EXCEPT ![c] = Inside(ask, held[c].dur)]
  /\ UNCHANGED <<config, booked>>

Unlock(c) == dayLock' = [d \in Day |-> IF dayLock[d] = c THEN Nothing ELSE dayLock[d]]

ClosingHolds(ask, dur) == Inside(ask, dur)

\* The closing time is read again,
CheckClosing(c) ==
  /\ pc[c] = "closing"
  /\ IF ClosingHolds(held[c].ask, held[c].dur)
       THEN Goes(c, "insert", held[c]) /\ UNCHANGED dayLock
       ELSE Done(c) /\ Unlock(c)
  /\ UNCHANGED <<config, booked, fitted>>

RowOf(ask, dur) == [date |-> ask.date, time |-> ask.time, dur |-> dur, res |-> ask.res]

\* and the appointment is inserted unless it overlaps another.
Insert(c) ==
  LET row == RowOf(held[c].ask, held[c].dur) IN
  /\ pc[c] = "insert" /\ Done(c) /\ Unlock(c)
  /\ booked' = IF \E other \in booked : R!Conflict(row, other) THEN booked
                                                               ELSE booked \cup {row}
  /\ UNCHANGED <<config, fitted>>

\* A worker dies, or a request gives up on its lock.
Crash(q) ==
  /\ pc[q] \notin {"idle", "end"} /\ Done(q)
  /\ Unlock(q)
  /\ UNCHANGED <<config, booked, fitted>>

\* An appointment is cancelled.
CancelAppointment(row) ==
  /\ row \in booked
  /\ booked' = booked \ {row}
  /\ UNCHANGED <<config, dayLock, pc, held, fitted>>

-----------------------------------------------------------------------------

Init ==
  /\ \E first \in Initial :
       /\ week = first.week /\ service = first.service
       /\ resource = first.resource /\ grid = first.grid
  /\ booked = {}
  /\ dayLock = [d \in Day |-> Nothing]
  /\ pc = [q \in Request |-> "idle"]
  /\ held = [q \in Request |-> Nothing]
  /\ fitted = [c \in Client |-> FALSE]

Next ==
  \/ \E p \in Panel : \/ SaveService(p) \/ BeginToggle(p) \/ CommitToggle(p)
                      \/ SaveSettings(p) \/ SendWeek(p) \/ CommitWeek(p)
                      \/ CreateResource(p) \/ ToggleResource(p)
  \/ \E c \in Client : \/ BeginBook(c) \/ CheckGrid(c) \/ TakeDay(c)
                       \/ CheckClosing(c) \/ Insert(c)
  \/ \E q \in Request : Crash(q)
  \/ \E row \in booked : CancelAppointment(row)

Spec == Init /\ [][Next]_vars

-----------------------------------------------------------------------------
(* Properties.                                                             *)

\* Every variable stays in its domain: whatever the forms send, the grid
\* advances (a slot of minus the break would keep get_available_slots in its
\* loop), blocks are not empty and services last.
TypeOK ==
  /\ \A d \in Day : \A i \in DOMAIN week[d] : ValidBlock(week[d][i])
  /\ \A s \in Service : service[s].dur \in Nat /\ (service[s].active => service[s].dur > 0)
  /\ resource \in [Resource -> {"absent", "inactive", "active"}]
  /\ grid.slot \in Nat \ {0} /\ grid.gap \in Nat
  /\ \A row \in booked : row.date \in Day /\ row.dur > 0 /\ row.res \in Resource \cup {NoResource}
  /\ dayLock \in [Day -> Client \cup {Nothing}]
  /\ pc \in [Request -> {"idle", "toggle", "week", "grid", "lock", "closing", "insert", "end"}]
  /\ fitted \in [Client -> BOOLEAN]

\* create_appointment's checks of a request that meets nobody.
Accepted(ask) ==
  LET row == RowOf(ask, service[ask.service].dur) IN
  /\ ask.service \in Active /\ ValidResource(ask.res)
  /\ Future(ask) /\ OnGrid(ask) /\ Inside(ask, row.dur)
  /\ \A other \in booked : ~R!Conflict(row, other)

Disjoint(blocks) ==
  \A i, j \in DOMAIN blocks :
    i # j => blocks[i].close <= blocks[j].open \/ blocks[j].close <= blocks[i].open

\* The times that get_available_times lists are those that create_appointment
\* accepts: for a service exactly those, without one only times good for every
\* service.  The two compute them apart.  Excepted are the past times of today,
\* which are listed, and days whose blocks overlap, which the panel may save:
\* there the closing check knows only the first block.
OfferedIsAccepted ==
  \A d \in Day, s \in Active, res \in Resource \cup {NoResource} :
    Disjoint(week[d]) =>
      LET Ask(t) == [service |-> s, date |-> d, time |-> t, res |-> res]
          Times  == UNION {week[d][i].open .. week[d][i].close : i \in DOMAIN week[d]}
      IN  /\ \A t \in Times : Future(Ask(t)) =>
               (t \in Offered(d, s, res) <=> Accepted(Ask(t)))
          /\ \A t \in Offered(d, AnyService, res) : Future(Ask(t)) => Accepted(Ask(t))

\* No appointment is written outside the opening hours: its interval was inside
\* them at some moment after its request had the day lock, whatever the panel
\* saved since the request checked the grid.
BookedInHours ==
  [][\A c \in Client : pc[c] = "insert" /\ booked' # booked /\ pc'[c] = "end" => fitted[c]]_vars
================================================================================
