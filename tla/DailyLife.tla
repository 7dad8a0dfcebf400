----------------------------- MODULE DailyLife -----------------------------
(***************************************************************************)
(* domain/daily_life.py and services/world_state_service.py: the plans of  *)
(* the day, what the character says it is doing, what was observed, where  *)
(* it is, and what the prompt says of this.                                *)
(*                                                                         *)
(* Everything is rolled over lazily, by whoever looks at it, and what a    *)
(* mere look changes is not saved.  The lock of the session makes each     *)
(* operation one step, see SessionStore.  Time is discrete; an operation   *)
(* that the story register refuses changes nothing and is left out.        *)
(***************************************************************************)
EXTENDS Lists, FiniteSets

CONSTANTS
    Slots,            \* the times of a day
    TwoHours,         \* in slots
    MaxPlans,         \* _MAX_PLAN_ITEMS
    MaxObservations,  \* _MAX_OBSERVATIONS
    PlanTimes,        \* the start and end, or None, of the plans that are made
    MaxTime,          \* bound
    MaxItems          \* bound: plans, statements and observations

ASSUME DailyLifeAssumption ==
    /\ Slots \in Nat \ {0} /\ TwoHours \in 1 .. Slots - 1
    /\ PlanTimes \subseteq (-1 .. Slots - 1) \X (-1 .. Slots - 1)
    /\ {MaxPlans, MaxObservations, MaxTime, MaxItems} \subseteq Nat \ {0}

VARIABLES
    now,    \* the time since the first midnight
    made,   \* items so far; items are named by numbers
    life,   \* DailyLifeState
    disk,   \* what was saved of it
    lost    \* history: the items that were pushed out of a full list

vars == <<now, made, life, disk, lost>>

Times == 0 .. MaxTime
Clock == 0 .. Slots - 1
Ids   == 1 .. MaxItems
None  == -1

Day(t)    == t \div Slots
Minute(t) == t % Slots

Plans == [id : Ids, source : {"planned", "commit"}, start : Clock \cup {None},
          end : Clock \cup {None}, until : Nat \cup {None}, day : Nat,
          status : {"planned", "confirmed", "active", "completed", "cancelled", "expired"}]
Observations == [id : Ids, at : Nat, of : Ids \cup {None}]
Places == [source : {"persistent", "self_state", "observation"}, item : Ids \cup {None},
           until : Nat \cup {None}]
Lives == [plans : Seq(Plans), observations : Seq(Observations), place : Places,
          day : Nat \cup {None}]

TypeOK ==
    /\ now \in Times /\ made \in 0 .. MaxItems
    /\ life \in Lives /\ disk \in Lives
    /\ \A l \in {life, disk} :
         Len(l.plans) <= MaxPlans /\ Len(l.observations) <= MaxObservations
    /\ lost \subseteq Ids

Nowhere == [source |-> "persistent", item |-> None, until |-> None]

Init ==
    /\ now = 0 /\ made = 0
    /\ life = [plans |-> <<>>, observations |-> <<>>, place |-> Nowhere, day |-> None]
    /\ disk = life
    /\ lost = {}

Elements(q) == {q[i] : i \in DOMAIN q}

-----------------------------------------------------------------------------
(* AgendaItem.                                                             *)

Active(p) == p.status \in {"planned", "confirmed", "active"}

EffectiveEnd(p) ==
    IF p.start = None THEN None
    ELSE IF p.end # None THEN p.end ELSE (p.start + TwoHours) % Slots

Overnight(p) == p.start > EffectiveEnd(p) /\ EffectiveEnd(p) # None

Covers(p, minute) ==
    /\ p.start # None /\ Active(p) /\ p.start # EffectiveEnd(p)
    /\ IF Overnight(p) THEN minute >= p.start \/ minute < EffectiveEnd(p)
       ELSE p.start <= minute /\ minute < EffectiveEnd(p)

-----------------------------------------------------------------------------
(* ensure_day.                                                             *)

\* Mutant: any morning later does.
StillSomeMorning(p, t) == Overnight(p) /\ Minute(t) < EffectiveEnd(p)

\* It is the morning after the item's day, and it still goes on.
StillOvernight(p, t) ==
    Overnight(p) /\ Day(t) - p.day = 1 /\ Minute(t) < EffectiveEnd(p)

\* Mutant: the plan of last night is dropped at midnight.
RolledForgets(l, t) ==
    LET stays(p) == p.day = Day(t)
        today(o) == Day(o.at) = Day(t)
    IN  [plans        |-> Those(l.plans, stays),
         observations |-> Those(l.observations, today),
         place |-> IF \E p \in Elements(l.plans) : p.id = l.place.item /\ ~stays(p)
                   THEN Nowhere ELSE l.place,
         day |-> Day(t)]

\* Mutant: the plan of last night becomes one of today, and tonight's.
RolledRedates(l, t) ==
    LET rolled == [plans |-> Those(l.plans, LAMBDA p : p.day = Day(t) \/ StillOvernight(p, t)),
                   observations |-> Those(l.observations, LAMBDA o : Day(o.at) = Day(t)),
                   place |-> l.place,
                   day   |-> Day(t)]
    IN  [rolled EXCEPT !.plans = [i \in DOMAIN @ |-> [@[i] EXCEPT !.day = Day(t)]]]

\* Mutant: a place stays when what it came with is dropped.
RolledStays(l, t) ==
    [plans        |-> Those(l.plans, LAMBDA p : p.day = Day(t) \/ StillOvernight(p, t)),
     observations |-> Those(l.observations, LAMBDA o : Day(o.at) = Day(t)),
     place        |-> l.place,
     day          |-> Day(t)]

Stays(p, t) == p.day = Day(t) \/ (StillOvernight(p, t) /\ Covers(p, Minute(t)))

\* A new day: of the plans those of today and of last night are left, of the
\* observations those of today.
Rolled(l, t) ==
    [plans        |-> Those(l.plans, LAMBDA p : Stays(p, t)),
     observations |-> Those(l.observations, LAMBDA o : Day(o.at) = Day(t)),
     place |-> IF \E p \in Elements(l.plans) : p.id = l.place.item /\ ~Stays(p, t)
               THEN Nowhere ELSE l.place,
     day |-> Day(t)]

\* _expire_items for one item.
Over(p, t) ==
    /\ Active(p)
    /\ \/ p.day < Day(t) /\ ~StillOvernight(p, t)
       \/ p.until # None /\ t >= p.until
       \/ p.end # None /\ p.source = "commit"
          /\ IF Overnight(p) THEN Day(t) - p.day = 1 /\ Minute(t) >= p.end
             ELSE p.start < p.end /\ Minute(t) >= p.end

Expired(l, t) ==
    [l EXCEPT
       !.plans = [i \in DOMAIN @ |-> IF Over(@[i], t) THEN [@[i] EXCEPT !.status = "expired"]
                                     ELSE @[i]],
       !.place = IF \/ @.until # None /\ t >= @.until
                    \/ \E p \in Elements(l.plans) : p.id = @.item /\ Over(p, t)
                 THEN Nowhere ELSE @]

Refreshed(l, t) == Expired(IF l.day = Day(t) THEN l ELSE Rolled(l, t), t)

Today == Refreshed(life, now)

-----------------------------------------------------------------------------
(* The operations of the service, each of which saves what it leaves.      *)

Cut(q, n) == IF Len(q) > n THEN SubSeq(q, Len(q) - n + 1, Len(q)) ELSE q

Save(l) == life' = l /\ disk' = l

Pushed(q, n) == {e.id : e \in Elements(q) \ Elements(Cut(q, n))}

Make == made < MaxItems /\ made' = made + 1

\* add: a plan, which may have no times.
Add == LET today == Today IN \E times \in PlanTimes :
    LET plan  == [id |-> made + 1, source |-> "planned", start |-> times[1], end |-> times[2],
                  until |-> None, day |-> Day(now), status |-> "planned"]
        plans == Append(today.plans, plan)
    IN  /\ Make
        /\ Save([today EXCEPT !.plans = Cut(plans, MaxPlans)])
        /\ lost' = lost \cup Pushed(plans, MaxPlans)
        /\ UNCHANGED now

\* The list without what the character says it is doing.
Unstated(l) == Those(l.plans, LAMBDA p : p.source # "commit")

\* The next time the clock shows end.
EndStamp(end) ==
    Day(now) * Slots + end + (IF end > Minute(now) THEN 0 ELSE Slots)

\* update_self_state: what the character says it is doing takes the place of
\* what it said before, and so does where.
State == LET today == Today IN \E end \in Clock \cup {None}, located \in BOOLEAN :
    LET until == IF end = None THEN None ELSE EndStamp(end)
        item  == [id |-> made + 1, source |-> "commit", start |-> Minute(now), end |-> end,
                  until |-> until, day |-> Day(now), status |-> "active"]
        plans == Append(Unstated(today), item)
    IN  /\ Make
        /\ Save([today EXCEPT
              !.plans = Cut(plans, MaxPlans),
              !.place = IF located THEN [source |-> "self_state", item |-> made + 1, until |-> until]
                        ELSE IF @.source = "self_state" THEN Nowhere ELSE @])
        /\ lost' = lost \cup Pushed(plans, MaxPlans)
        /\ UNCHANGED now

\* update_self_state with an end that is no time: refused, what is there is saved
\* without being rolled over.
Refused ==
    /\ Save(life)
    /\ UNCHANGED <<now, made, lost>>

\* update_self_state with no activity.
Clear ==
    /\ Save([life EXCEPT
          !.plans = Unstated(life),
          !.place = IF Unstated(life) # life.plans /\ @.source = "self_state" THEN Nowhere ELSE @])
    /\ UNCHANGED <<now, made, lost>>

\* observe: a plan that is observed is done; the same is not observed twice.
Observe == LET today == Today IN
  \E of \in {None} \cup {e.id : e \in Elements(today.plans) \cup Elements(today.observations)},
     located \in BOOLEAN :
    LET done(p) == p.id = of /\ p.source = "planned" /\ p.status \notin {"cancelled", "expired"}
        all     == Append(today.observations, [id |-> made + 1, at |-> now, of |-> of])
    IN  /\ of # None => \A o \in Elements(today.observations) : o.of # of
        /\ Make
        /\ Save([today EXCEPT
              !.plans = [i \in DOMAIN @ |-> IF done(@[i]) THEN [@[i] EXCEPT !.status = "completed"]
                                            ELSE @[i]],
              !.observations = Cut(all, MaxObservations),
              !.place = IF located THEN [source |-> "observation", item |-> made + 1,
                                         until |-> now + TwoHours]
                        ELSE @])
        /\ lost' = lost \cup Pushed(all, MaxObservations)
        /\ UNCHANGED now

\* update_item_status.
Allowed(from) ==
    CASE from = "planned"   -> {"confirmed", "cancelled", "expired"}
      [] from = "confirmed" -> {"cancelled", "expired"}
      [] from = "active"    -> {"cancelled", "expired"}
      [] OTHER              -> {}

\* confirm, cancel, expire.
Decide == LET today == Today IN
  \E i \in DOMAIN today.plans, status \in {"confirmed", "cancelled", "expired"} :
    /\ status \in Allowed(today.plans[i].status)
    /\ Save([today EXCEPT
          !.plans[i].status = status,
          !.place = IF status # "confirmed" /\ @.item = today.plans[i].id THEN Nowhere ELSE @])
    /\ UNCHANGED <<now, made, lost>>

\* Looking at it, or a call for an item that is refused or repeated, only rolls it
\* over; some of them save.
Look ==
    /\ life' = Today
    /\ disk' \in {disk, Today}
    /\ UNCHANGED <<now, made, lost>>

\* The process is started again.
Restart ==
    /\ life' = disk
    /\ UNCHANGED <<now, made, disk, lost>>

Pass ==
    /\ now + 1 \in Times
    /\ now' = now + 1
    /\ UNCHANGED <<made, life, disk, lost>>

Next == Add \/ State \/ Refused \/ Clear \/ Observe \/ Decide \/ Look \/ Restart \/ Pass

Spec == Init /\ [][Next]_vars

-----------------------------------------------------------------------------
(* What the prompt says.                                                   *)

Nothing == [id |-> None, as |-> "inferred"]

Latest(q) == q[Len(q)].id

Says(p, t) ==
    /\ p.source = "commit" /\ p.status \notin {"cancelled", "expired"}
    /\ p.until # None => t < p.until
    /\ p.end # None =>
         /\ p.start < p.end => Minute(t) < p.end
         /\ p.start > p.end => ~(p.end <= Minute(t) /\ Minute(t) < p.start)

Recent(o, t) == t - o.at <= TwoHours
PlannedNow(p, t) == p.source = "planned" /\ Covers(p, Minute(t))

\* current_activity: what the character says it is doing, else what was observed
\* in the last two hours, else a plan, else what it does at such a time.
Activity(l, t) ==
    LET statements   == Those(l.plans, LAMBDA p : Says(p, t))
        observations == Those(l.observations, LAMBDA o : Recent(o, t))
        plans        == Those(l.plans, LAMBDA p : PlannedNow(p, t))
    IN  IF statements # <<>> THEN [id |-> Latest(statements), as |-> "fact"]
        ELSE IF observations # <<>> THEN [id |-> Latest(observations), as |-> "fact"]
        ELSE IF plans # <<>> THEN [id |-> Latest(plans), as |-> "committed"]
        ELSE Nothing

Seen(l) == [activity |-> Activity(l, now), place |-> l.place]

-----------------------------------------------------------------------------
(* What must be true of it.                                                *)

\* Looking changes nothing that is seen later, now or after a restart: what is
\* saved shows the same as what was rolled over meanwhile and never saved.
SavedIsSeen == Seen(Refreshed(disk, now)) = Seen(Today)

\* When an entry is over: its end, in days, or the end of its day.
End(p) ==
    IF \/ p.start = None \/ p.start = EffectiveEnd(p)
       \/ p.source = "commit" /\ p.end = None /\ ~Overnight(p)
    THEN (p.day + 1) * Slots
    ELSE p.day * Slots + EffectiveEnd(p) + (IF Overnight(p) THEN Slots ELSE 0)

\* The prompt never says of an entry that is over that it goes on, whatever
\* midnights lie between and whoever looked at it meanwhile.
NotOver ==
    LET today    == Today
        activity == Activity(today, now)
    IN  \A p \in Elements(today.plans) : activity.id = p.id => now < End(p)

\* Where the character is comes from what it says it is doing, and ends with
\* it, or from an observation of the last two hours.  An item that was pushed
\* out of the list takes nothing along.
PlaceBacked ==
    LET today == Today
        place == today.place
    IN  /\ place.source = "self_state" =>
             \/ \E p \in Elements(today.plans) : p.id = place.item /\ Active(p)
             \/ place.item \in lost
        /\ place.source = "observation" => now < place.until

\* The places of a statement end with it: the tests say so
\* (test_temporary_location_expires_with_owning_state), but see lost.
PlaceEnds ==
    Today.place.source = "self_state" =>
        \E p \in Elements(Today.plans) : p.id = Today.place.item /\ Active(p)

\* A plan is not said to go on before it starts.  One of tonight that ends
\* tomorrow morning is, until this morning's hour.
NotEarly ==
    \A p \in Elements(Today.plans) :
        Activity(Today, now) = [id |-> p.id, as |-> "committed"] => p.day * Slots + p.start <= now

\* The plans that are neither called off nor over, and what the diary has of one.
Going(plans, t) == {p \in Elements(plans) : Active(p) /\ t < End(p)}
Entry(p) == [id |-> p.id, kind |-> p.source, end |-> End(p)]

Open == {Entry(p) : p \in Going(Today.plans, now)}

\* The lazy bookkeeping by day and minute keeps the diary.
TheDiary == INSTANCE Diary WITH open <- Open

DiarySpec == TheDiary!Spec
=============================================================================
