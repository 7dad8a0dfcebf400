----------------------------- MODULE Proactive ------------------------------
(***************************************************************************)
(* How the bot comes to contact the user of one stream without having been *)
(* written to: the periodic check of the thinker (thinker/proactive.py),   *)
(* the book of candidates it keeps in the session, the claim of one of     *)
(* them, the handler that queues the trigger message, and the settlement.  *)
(*                                                                         *)
(* The thinker is one periodic task, so that its steps are sequential.     *)
(* A step is the code between two suspension points at which what another  *)
(* task does could matter: a whole check (what changes during its awaits   *)
(* could as well change just after it, because the claim looks again), the *)
(* claim, the handler's two validations, the start of a cold stream, the   *)
(* settlement.                                                             *)
(*                                                                         *)
(* A candidate is named by its dedupe_key.  The book keeps the last 24     *)
(* candidates; the model has fewer keys than that.                         *)
(***************************************************************************)
EXTENDS Naturals

CONSTANTS
    MaxSchedules,  \* appointments the model may make
    MaxIntents,    \* intents that may be added to the queue
    MaxItems,      \* items of the day's plan
    MaxActivity,   \* times the conversation may be active
    MaxFailures,   \* deliveries that may fail
    MaxCrashes     \* times the process may be restarted

ASSUME BoundAssumption ==
    {MaxSchedules, MaxIntents, MaxItems, MaxActivity, MaxFailures, MaxCrashes}
        \subseteq Nat

ScheduleKey(n) == <<"schedule", n>>
IntentKey(n)   == <<"intent", n>>
AgendaKey(n)   == <<"agenda", n>>
SilenceKey(n)  == <<"silence", n>>
NoKey          == <<"none", 0>>

Schedules == 1..MaxSchedules
Intents   == 1..MaxIntents
Items     == 1..MaxItems

Key == {ScheduleKey(n) : n \in Schedules} \cup {IntentKey(n) : n \in Intents}
         \cup {AgendaKey(n) : n \in Items}
         \cup {SilenceKey(n) : n \in 0..MaxActivity}

VARIABLES
    session,    \* the session in memory, see Session
    disk,       \* the session as it was last written
    cached,     \* is the session in the store's cache?
    due,        \* appointments and commitments whose time has come
    lapsed,     \* claims older than 300 seconds
    cooling,    \* is last_proactive_at less than min_interval ago?
    pc,         \* where the thinker is
    picked,     \* _selected_candidates of the stream
    intended,   \* _selected_intents of the stream, 0 if none
    claim,      \* candidate_key of the claim in flight
    failures, crashes,
    contacts,   \* history: the keys for which the user was contacted
    recent      \* history: was the user contacted within min_interval?

clockVars   == <<due, lapsed, cooling>>
thinkerVars == <<pc, picked, intended, claim>>
boundVars   == <<failures, crashes>>
historyVars == <<contacts, recent>>
vars == <<session, disk, cached, clockVars, thinkerVars, boundVars, historyVars>>

Status == {"none", "queued", "deferred", "blocked", "dispatching",
           "sent", "expired", "cancelled"}
Open     == {"queued", "deferred", "blocked"}
Terminal == {"sent", "expired", "cancelled"}
Live     == {"topic", "commitment"}

Session ==
    [schedule : {0} \cup Schedules,   \* scheduled_proactive_at, 0 if none
     enabled  : BOOLEAN,              \* proactive_enabled
     status   : [Key -> Status],      \* proactive_candidates
     firm     : SUBSET Key,           \* candidates entered for a commitment
     older    : SUBSET Key,           \* created_at < last_user_message_at
     intent   : [Intents -> Live \cup {"none", "fired", "pruned"}],
     activity : 0..MaxActivity]       \* last_activity_at

TypeOK ==
    /\ session \in Session /\ disk \in Session
    /\ cached \in BOOLEAN
    /\ due \subseteq Key /\ lapsed \subseteq Key
    /\ cooling \in BOOLEAN
    /\ pc \in {"idle", "picked", "publishing", "building", "waking",
               "delivered", "undelivered"}
    /\ picked \in Key \cup {NoKey}
    /\ intended \in {0} \cup Intents
    /\ claim \in Key \cup {NoKey}
    /\ failures \in 0..MaxFailures /\ crashes \in 0..MaxCrashes
    /\ contacts \subseteq Key
    /\ recent \in BOOLEAN

NewSession ==
    [schedule |-> 0, enabled |-> TRUE, status |-> [k \in Key |-> "none"],
     firm |-> {}, older |-> {}, intent |-> [i \in Intents |-> "none"],
     activity |-> 0]

Init ==
    /\ session = NewSession /\ disk = NewSession /\ cached = FALSE
    /\ due = {} /\ lapsed = {} /\ cooling = FALSE
    /\ pc = "idle" /\ picked = NoKey /\ intended = 0 /\ claim = NoKey
    /\ failures = 0 /\ crashes = 0
    /\ contacts = {} /\ recent = FALSE

\* The session becomes s and is written; what the disk holds is not told apart
\* any more once no crash is left.  Writes that fail are not modelled.
Saved(s) == session' = s /\ disk' = s

\* It is written at the end of the turn, or with the next change that is:
\* a crash may find the disk as it was.
Becomes(s) ==
    /\ session' = s
    /\ disk' \in IF crashes < MaxCrashes THEN {disk, s} ELSE {s}
-----------------------------------------------------------------------------
(* The candidate book.                                                     *)

\* Routes continuation and silence; an intent's route is fixed when its
\* candidate is created.
Cancellable(s) == {k \in Key : \/ k[1] = "silence"
                               \/ k[1] = "intent" /\ k \notin s.firm}

\* upsert_proactive_candidate for every key of new: a key is entered once.
Upsert(s, new) ==
    LET fresh == {k \in new : s.status[k] = "none"}
    IN  [s EXCEPT
           !.status = [k \in Key |-> IF k \in fresh THEN "queued" ELSE s.status[k]],
           !.firm = @ \cup {k \in fresh : /\ k[1] = "intent"
                                          /\ s.intent[k[2]] = "commitment"}]

\* ProactiveCandidate.mark: a terminal status is never left.
Mark(s, k, status) ==
    [s EXCEPT !.status[k] = IF @ \in Terminal THEN @ ELSE status]

\* What may have passed its expire_at when a check looks at it, for an
\* appointment long after its time; for a commitment also what prune asks of it.
Aged(s) == {k \in Key :
    /\ k[1] = "schedule" => k \in due
    /\ \/ s.status[k] \in Open
       \/ k[1] = "agenda" /\ s.status[k] = "none"
       \/ k[1] = "intent" /\ s.intent[k[2]] = "commitment" /\ k \in due}

\* Mutant: claims are never reopened.
ExpiredKeepingClaims(s, gone) ==
    [s EXCEPT !.status = [k \in Key |->
        IF s.status[k] \in Open /\ k \in gone THEN "expired" ELSE s.status[k]]]

\* expire_proactive_candidates: old claims are reopened, old candidates expire.
Expired(s, gone) ==
    [s EXCEPT !.status = [k \in Key |->
        CASE s.status[k] = "dispatching" /\ k \in lapsed -> "queued"
          [] s.status[k] \in Open /\ k \in gone -> "expired"
          [] OTHER -> s.status[k]]]

\* The user wrote after the candidate was created.
Overtaken(s, k) == k \in Cancellable(s) \cap s.older

\* Mutant: min_interval is not looked at.
GateUncooled(quiet) == IF quiet THEN "blocked" ELSE "queued"

\* The gates of everything but appointments and commitments.
Gate(quiet) == IF quiet THEN "blocked" ELSE IF cooling THEN "deferred" ELSE "queued"

\* Mutant: the appointment stays.
WithSchedule(s) == s

WithoutSchedule(s) == [s EXCEPT !.schedule = 0]
-----------------------------------------------------------------------------
(* What the conversation does to the session; none of it takes part in the *)
(* thinker's task, and only the switch takes the session's lock.           *)

Noted ==
    /\ cached' = TRUE
    /\ UNCHANGED <<lapsed, cooling, thinkerVars, boundVars, historyVars>>

\* add_user_message: candidates of continuation and silence are cancelled.
UserMessage ==
    /\ session.activity < MaxActivity
    /\ Noted /\ Becomes([session EXCEPT
         !.activity = @ + 1,
         !.older = {k \in Key : session.status[k] # "none"},
         !.status = [k \in Key |->
             IF k \in Cancellable(session) /\ session.status[k] \in Open \cup {"dispatching"}
             THEN "cancelled" ELSE session.status[k]]])
    /\ UNCHANGED due

\* add_bot_planning, clear_waiting.
BotPlans ==
    /\ session.activity < MaxActivity
    /\ Noted /\ Becomes([session EXCEPT !.activity = @ + 1])
    /\ UNCHANGED due

\* ProactiveService.apply_schedule: a new appointment replaces the old one.
Reschedule(n) ==
    /\ session.status[ScheduleKey(n)] = "none" /\ ScheduleKey(n) \notin due
    /\ n # session.schedule
    /\ Noted /\ Becomes([session EXCEPT !.schedule = n])
    /\ UNCHANGED due

CancelSchedule ==
    /\ session.schedule # 0
    /\ Noted /\ Becomes(WithoutSchedule(session))
    /\ UNCHANGED due

\* set_proactive_enabled.
SetEnabled(enabled) ==
    /\ session.enabled # enabled
    /\ Noted /\ Saved([session EXCEPT !.enabled = enabled])
    /\ UNCHANGED due

\* reset_context: what it keeps of this state are candidates and intents.
Clear ==
    /\ session.activity < MaxActivity
    /\ Noted /\ Becomes([session EXCEPT !.activity = @ + 1, !.schedule = 0, !.older = {}])
    /\ UNCHANGED due

\* IntentQueue.add of new content, by the conversation or, as a drive, by the
\* check itself; the numbers of intents follow created_at.
AddIntent(i, kind) ==
    /\ \A j \in Intents : session.intent[j] = "none" <=> j >= i
    /\ Noted /\ Becomes([session EXCEPT !.intent[i] = kind])
    /\ UNCHANGED due

\* IntentQueue.add of known content as a commitment: it becomes one, with a new
\* deadline, and keeps its id.
Promise(i) ==
    /\ session.intent[i] \in Live
    /\ Noted /\ Becomes([session EXCEPT !.intent[i] = "commitment"])
    /\ due' = due \ {IntentKey(i)}
-----------------------------------------------------------------------------
(* The clock.  What only the next check asks of it is chosen there.        *)

Ticks == UNCHANGED <<session, disk, cached, thinkerVars, boundVars, contacts>>

\* The time of the appointment or the deadline of a commitment comes.
Due(k) ==
    /\ \/ session.schedule # 0 /\ k = ScheduleKey(session.schedule)
       \/ k[1] = "intent" /\ session.intent[k[2]] = "commitment"
    /\ k \notin due
    /\ due' = due \cup {k}
    /\ UNCHANGED <<lapsed, cooling, recent>> /\ Ticks

\* 300 seconds pass over a claim that nobody is working on any more.
Lapse(k) ==
    /\ session.status[k] = "dispatching" /\ k \notin lapsed /\ claim # k
    /\ lapsed' = lapsed \cup {k}
    /\ UNCHANGED <<due, cooling, recent>> /\ Ticks

\* min_interval passes.
Cool ==
    /\ cooling \/ recent
    /\ cooling' = FALSE /\ recent' = FALSE
    /\ UNCHANGED <<due, lapsed>> /\ Ticks
-----------------------------------------------------------------------------
(* check_all_sessions.                                                     *)

Select(k, i) == pc' = "picked" /\ picked' = k /\ intended' = i /\ UNCHANGED claim

Checked == UNCHANGED <<clockVars, boundVars, historyVars>>

\* The appointment comes first; as long as there is one nothing else is
\* looked at.  A stale _selected_intents entry is left as it is.  A session
\* that is only on disk is not tidied.
CheckSchedule == \E gone \in SUBSET Aged(session) :
    /\ pc = "idle" /\ session.enabled /\ session.schedule # 0
    /\ cached \/ gone = {}
    /\ cached' = TRUE
    /\ LET k == ScheduleKey(session.schedule)
           s == Upsert(IF cached THEN Expired(session, gone) ELSE session, {k})
       IN  \/ /\ s.status[k] \in Terminal
              /\ Saved(WithoutSchedule(s))
              /\ UNCHANGED thinkerVars
           \/ /\ s.status[k] \in Open /\ k \in due
              /\ Saved(s)
              /\ Select(k, intended)
           \/ /\ s.status[k] = "dispatching" \/ (s.status[k] \in Open /\ k \notin due)
              /\ Becomes(s)
              /\ UNCHANGED thinkerVars
    /\ Checked

\* A session that is only on disk is loaded, and stays in the cache.
CheckDisk ==
    /\ pc = "idle" /\ ~cached
    /\ ~session.enabled \/ session.schedule = 0
    /\ cached' = TRUE
    /\ UNCHANGED <<session, disk, thinkerVars>>
    /\ Checked

\* Candidates expire; prune gives up commitments 48 hours past their deadline.
Tidied(gone) ==
    [Expired(session, gone) EXCEPT !.intent = [i \in Intents |->
        IF @[i] = "commitment" /\ IntentKey(i) \in due \cap gone THEN "pruned" ELSE @[i]]]

\* peek_fire: the intent of greatest urge, if that is above the threshold.
\* Any urge may have grown to any height; that of a commitment past its
\* deadline is full, and of full ones commitments go first, the newest of
\* them.  Only this head of the queue is ever looked at.
Heads(s) ==
    LET live == {i \in Intents : s.intent[i] \in Live}
        full == {i \in live : s.intent[i] = "commitment" /\ IntentKey(i) \in due}
    IN  IF full = {} THEN live \cup {0}
        ELSE {i \in live : s.intent[i] = "commitment" /\ \A j \in full : i >= j}

\* Its candidate is entered and, if it is open, gated; a commitment is not.
Considered(s, i, quiet) ==
    LET k == IntentKey(i)
        u == Upsert(s, {k})
    IN  IF i = 0 THEN s
        ELSE IF u.status[k] \notin Open THEN u
        ELSE Mark(u, k, IF u.intent[i] = "commitment" THEN "queued" ELSE Gate(quiet))

Passes(s, i) == i # 0 /\ s.status[IntentKey(i)] = "queued"

\* The stages of a check of a cached session that has no appointment.
Idle == pc = "idle" /\ cached /\ session.enabled /\ session.schedule = 0

CheckIntents == \E gone \in SUBSET Aged(session), quiet \in BOOLEAN :
    /\ Idle
    /\ \E i \in Heads(Tidied(gone)) :
         LET s == Considered(Tidied(gone), i, quiet)
         IN  Passes(s, i) /\ Saved(s) /\ Select(IntentKey(i), i)
    /\ UNCHANGED cached
    /\ Checked

\* The confirmed items of the day's plan are entered; gated ones are queued
\* again, and late ones expire.
Entered(s, items, gone) ==
    LET u == Upsert(s, items)
    IN  Expired([u EXCEPT !.status = [k \in Key |->
            IF k \in items /\ @[k] \in Open THEN "queued" ELSE @[k]]], gone)

\* One item whose time has come is gated; held back, it also ends the check,
\* because silence has the same gates.
CheckAgenda == \E gone \in SUBSET Aged(session), quiet \in BOOLEAN, agenda \in SUBSET Items :
    /\ Idle
    /\ \E i \in Heads(Tidied(gone)) :
         LET t == Considered(Tidied(gone), i, quiet)
             s == Entered(t, {AgendaKey(a) : a \in agenda}, gone)
         IN  /\ ~Passes(t, i)
             /\ \E k \in {AgendaKey(a) : a \in agenda} :
                  /\ s.status[k] = "queued"
                  /\ Saved(Mark(s, k, Gate(quiet)))
                  /\ IF Gate(quiet) = "queued" THEN Select(k, intended)
                                               ELSE UNCHANGED thinkerVars
    /\ UNCHANGED cached
    /\ Checked

\* No item's time has come.  _should_trigger: a silence that is long enough is
\* broken by chance.
CheckSilence == \E gone \in SUBSET Aged(session), quiet \in BOOLEAN, agenda \in SUBSET Items :
    /\ Idle
    /\ \E i \in Heads(Tidied(gone)) :
         LET t == Considered(Tidied(gone), i, quiet)
             s == Entered(t, {AgendaKey(a) : a \in agenda}, gone)
             k == SilenceKey(session.activity)
             u == Upsert(s, {k})
         IN  /\ ~Passes(t, i)
             /\ \/ /\ Gate(quiet) = "queued" /\ u.status[k] \in Open
                   /\ Saved(u)
                   /\ Select(k, 0)
                \/ /\ Becomes(s)
                   /\ UNCHANGED thinkerVars
    /\ UNCHANGED cached
    /\ Checked

Check == CheckSchedule \/ CheckDisk \/ CheckIntents \/ CheckAgenda \/ CheckSilence
-----------------------------------------------------------------------------
(* prepare_trigger, the handler, settle_trigger.                           *)

\* Steps that leave the clock, the cache and the histories alone.
Quietly == UNCHANGED <<cached, clockVars, boundVars, historyVars>>

Dropped == picked' = NoKey /\ intended' = 0

\* The selected candidate is looked up again and claimed.
Prepare ==
    /\ pc = "picked"
    /\ LET k == picked
       IN  \/ /\ session.enabled
              /\ ~Overtaken(session, k) /\ session.status[k] \in Open
              /\ Saved(Mark(session, k, "dispatching"))
              /\ pc' = "publishing" /\ claim' = k
              /\ lapsed' = lapsed \ {k}
              /\ UNCHANGED <<picked, intended>>
           \/ /\ session.enabled
              /\ Overtaken(session, k) \/ session.status[k] \in Terminal
              /\ Saved(IF Overtaken(session, k) THEN Mark(session, k, "cancelled")
                                                  ELSE session)
              /\ pc' = "idle" /\ Dropped
              /\ UNCHANGED <<claim, lapsed>>
           \/ /\ ~session.enabled
              /\ pc' = "idle"
              /\ UNCHANGED <<session, disk, lapsed, picked, intended, claim>>
    /\ UNCHANGED <<cached, due, cooling, boundVars, historyVars>>

\* _wake_stream validates the claim under the lock, twice.
Valid == session.status[claim] = "dispatching" /\ ~Overtaken(session, claim)

Validate ==
    /\ pc = "publishing" /\ Valid
    /\ pc' = "building"
    /\ UNCHANGED <<session, disk, picked, intended, claim>>
    /\ Quietly

Refuse ==
    /\ pc \in {"publishing", "building"} /\ ~Valid
    /\ Saved(IF Overtaken(session, claim) THEN Mark(session, claim, "cancelled")
                                            ELSE session)
    /\ pc' = "undelivered"
    /\ UNCHANGED <<picked, intended, claim>>
    /\ Quietly

\* The event is not handled, or a stream that is not loaded cannot be created.
Fail ==
    /\ pc \in {"publishing", "building"} /\ failures < MaxFailures
    /\ failures' = failures + 1
    /\ pc' = "undelivered"
    /\ UNCHANGED <<session, disk, cached, clockVars, picked, intended, claim,
                   crashes, historyVars>>

\* Mutant: the second validation is left out.
EnqueueUnchecked ==
    /\ pc = "building"
    /\ Saved(session)
    /\ pc' = "waking"
    /\ contacts' = contacts \cup {claim} /\ recent' = TRUE
    /\ UNCHANGED <<cached, clockVars, picked, intended, claim, boundVars>>

\* Context and trigger are queued in the step of the second validation.
Enqueue ==
    /\ pc = "building" /\ Valid
    /\ Saved(session)
    /\ pc' = "waking"
    /\ contacts' = contacts \cup {claim} /\ recent' = TRUE
    /\ UNCHANGED <<cached, clockVars, picked, intended, claim, boundVars>>

Wake ==
    /\ pc = "waking"
    /\ pc' = "delivered"
    /\ UNCHANGED <<session, disk, picked, intended, claim>>
    /\ Quietly

\* Mutant: the trigger stays in the queue.
RollbackForgets ==
    /\ pc = "waking" /\ failures < MaxFailures
    /\ failures' = failures + 1
    /\ Saved(session)
    /\ pc' = "undelivered"
    /\ UNCHANGED <<cached, clockVars, picked, intended, claim, crashes, historyVars>>

\* The loop of a cold stream cannot be started: the trigger is taken back.
Rollback ==
    /\ pc = "waking" /\ failures < MaxFailures
    /\ failures' = failures + 1
    /\ contacts' = contacts \ {claim} /\ recent' = cooling
    /\ Saved(session)
    /\ pc' = "undelivered"
    /\ UNCHANGED <<cached, clockVars, picked, intended, claim, crashes>>

\* A delivered claim is settled: the appointment is removed whatever the
\* candidate was, and the selected intent has fired.
SettleDelivered ==
    /\ pc = "delivered"
    /\ LET s == Mark(WithoutSchedule(session), claim, "sent")
       IN  Saved(IF intended # 0 /\ s.intent[intended] \in Live
                   THEN [s EXCEPT !.intent[intended] = "fired"] ELSE s)
    /\ cooling' = TRUE
    /\ pc' = "idle" /\ claim' = NoKey /\ Dropped
    /\ UNCHANGED <<cached, due, lapsed, boundVars, historyVars>>

\* Mutant: the claim is given back with a name that no candidate's status has,
\* and it is forgotten whatever happened to it.
GivenBackMisnamed ==
    /\ pc = "undelivered"
    /\ Saved(IF session.status[claim] = "dispatching"
               THEN Mark(session, claim, "pending") ELSE session)
    /\ pc' = "idle" /\ claim' = NoKey /\ Dropped
    /\ Quietly

\* A claim that was not delivered is given back, or dropped if it was
\* cancelled meanwhile.
SettleUndelivered ==
    /\ pc = "undelivered"
    /\ Saved(IF session.status[claim] = "dispatching"
               THEN Mark(session, claim, "queued") ELSE session)
    /\ pc' = "idle" /\ claim' = NoKey
    /\ IF session.status[claim] \in Terminal THEN Dropped
                                             ELSE UNCHANGED <<picked, intended>>
    /\ Quietly

Handle == \/ Prepare \/ Validate \/ Refuse \/ Enqueue \/ Wake
          \/ SettleDelivered \/ SettleUndelivered

\* The process is restarted: what was not written is lost, the thinker forgets.
Crash ==
    /\ crashes < MaxCrashes
    /\ crashes' = crashes + 1
    /\ session' = disk /\ cached' = FALSE
    /\ cooling' \in {cooling, FALSE}
    /\ pc' = "idle" /\ Dropped /\ claim' = NoKey
    /\ UNCHANGED <<disk, due, lapsed, failures, historyVars>>

Conversation ==
    \/ UserMessage \/ BotPlans \/ CancelSchedule \/ Clear
    \/ \E n \in Schedules : Reschedule(n)
    \/ \E enabled \in BOOLEAN : SetEnabled(enabled)
    \/ \E i \in Intents : Promise(i) \/ \E kind \in Live : AddIntent(i, kind)

Time == Cool \/ \E k \in Key : Due(k) \/ Lapse(k)

Next == Conversation \/ Time \/ Check \/ Handle \/ Fail \/ Rollback \/ Crash

Spec == Init /\ [][Next]_vars

\* The scheduler repeats the check, the task it runs goes on when it can, and
\* the clock advances.  Nothing makes the conversation go on.
Fairness == WF_vars(Check) /\ WF_vars(Handle) /\ WF_vars(Time)

FairSpec == Spec /\ Fairness
-----------------------------------------------------------------------------
(* Safety.                                                                 *)

Contacted(k) == k \in contacts' \ contacts

\* Without a crash a reason is claimed by one attempt at a time, acted upon at
\* most once, given back only if the user has not been contacted, and once
\* closed never taken up again, whatever the user, the clock and the handler
\* do between the check, the claim, the validations and the settlement.
TheOutreach == INSTANCE Outreach WITH
    Reason <- Key,
    life <- [k \in Key |->
               CASE session.status[k] = "none" -> "new"
                 [] session.status[k] \in Open -> "open"
                 [] session.status[k] = "dispatching" -> "claimed"
                 [] OTHER -> "closed"],
    made <- contacts
OutreachSpec == TheOutreach!Spec

\* The user is not contacted to continue or to break a silence for a reason
\* older than a message the session has recorded.
NoStaleContact == [][\A k \in Key :
    Contacted(k) /\ k \in Cancellable(session) => k \notin session.older]_vars

\* Contacts that are neither appointments nor commitments keep min_interval
\* to every earlier contact.
SpacedOut == [][\A k \in Key :
    Contacted(k) /\ recent =>
        \/ k[1] = "schedule"
        \/ k[1] = "intent" /\ session.intent[k[2]] = "commitment"]_vars
-----------------------------------------------------------------------------
(* Liveness, crashes and a bounded number of failed deliveries included.   *)

\* A due appointment is acted upon, replaced or removed, or the stream paused.
ScheduleServed == \A n \in Schedules :
    session.schedule = n /\ ScheduleKey(n) \in due ~>
        session.schedule # n \/ ~session.enabled

\* A claim does not stay one, also if the process that made it is gone; only
\* sessions in the cache and not paused are looked after.
ClaimResolved == \A k \in Key :
    session.status[k] = "dispatching" ~>
        session.status[k] # "dispatching" \/ ~cached \/ ~session.enabled
-----------------------------------------------------------------------------
(* What the documentation says and the code does not do.                   *)

\* schedule_proactive.py: an appointment is kept until it is replaced,
\* cancelled or acted upon.
ScheduleKept == [][\A n \in Schedules :
    session.schedule = n /\ session'.schedule = 0 =>
        \/ CancelSchedule \/ Clear
        \/ session'.status[ScheduleKey(n)] \in Terminal]_vars

\* proactive.py: the intent that has fired is the one that was selected.
FiredWasContacted == \A i \in Intents :
    session.intent[i] = "fired" => IntentKey(i) \in contacts
=============================================================================
