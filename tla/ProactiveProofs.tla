--------------------------- MODULE ProactiveProofs ---------------------------
(***************************************************************************)
(* Proofs about the bot's own contacts, for any number of appointments,    *)
(* intents, items, user messages and failures.  What a crash may break, a  *)
(* claim made once and the distance in time, is proved of runs without     *)
(* one; the types and the stale contacts need no such restriction.         *)
(***************************************************************************)
EXTENDS Proactive, TLAPS

\* How a status may move while nobody holds a claim: candidates are entered,
\* gated, expired and cancelled.
Goes(a, b) ==
    \/ a = b
    \/ a = "none" /\ b \in Open \cup Terminal
    \/ a \in Open /\ b \in Open \cup Terminal

Tidier(s, t) == \A k \in Key : Goes(s.status[k], t.status[k])

\* What min_interval is not asked of.
Exempt(s, k) ==
    \/ k[1] = "schedule"
    \/ k[1] = "intent" /\ s.intent[k[2]] = "commitment"
-----------------------------------------------------------------------------
(* Keys and sessions.                                                      *)

\* The four kinds of key.
LEMMA Keys ==
    /\ NoKey \notin Key
    /\ \A n \in Schedules : ScheduleKey(n) \in Key
    /\ \A i \in Intents : IntentKey(i) \in Key
    /\ \A a \in Items : AgendaKey(a) \in Key
    /\ \A n \in 0..MaxActivity : SilenceKey(n) \in Key
    /\ \A k \in Key : k[1] = "intent" => k[2] \in Intents /\ k = IntentKey(k[2])
    /\ 0 \notin Intents /\ 0 \notin Schedules
    /\ 0 \in 0..MaxActivity /\ 0 \in 0..MaxFailures /\ 0 \in 0..MaxCrashes
  BY BoundAssumption DEF Key, NoKey, ScheduleKey, IntentKey, AgendaKey, SilenceKey,
     Schedules, Intents, Items

\* A key names its kind, and that of an intent the intent.
LEMMA KeyKinds ==
    /\ \A n : ScheduleKey(n)[1] = "schedule"
    /\ \A i : IntentKey(i)[1] = "intent" /\ IntentKey(i)[2] = i
    /\ \A a : AgendaKey(a)[1] = "agenda"
    /\ \A n : SilenceKey(n)[1] = "silence"
  BY DEF ScheduleKey, IntentKey, AgendaKey, SilenceKey

\* The fields of a session.
LEMMA Fields ==
    ASSUME NEW s \in Session
    PROVE  /\ s.schedule \in {0} \cup Schedules /\ s.enabled \in BOOLEAN
           /\ s.status \in [Key -> Status]
           /\ s.firm \subseteq Key /\ s.older \subseteq Key
           /\ s.intent \in [Intents -> Live \cup {"none", "fired", "pruned"}]
           /\ s.activity \in 0..MaxActivity
  BY DEF Session

\* Only the statuses change.
LEMMA WithStatus ==
    ASSUME NEW s \in Session, NEW st \in [Key -> Status]
    PROVE  LET t == [s EXCEPT !.status = st]
           IN  /\ t \in Session /\ t.status = st
               /\ t.schedule = s.schedule /\ t.enabled = s.enabled /\ t.firm = s.firm
               /\ t.older = s.older /\ t.intent = s.intent /\ t.activity = s.activity
  BY DEF Session

\* Such moves compose,
LEMMA GoesOn ==
    ASSUME NEW a, NEW b, NEW c, Goes(a, b), Goes(b, c)
    PROVE  Goes(a, c)
  BY DEF Goes, Open, Terminal

\* for all candidates together too.
LEMMA TidierOn ==
    ASSUME NEW s, NEW t, NEW u, Tidier(s, t), Tidier(t, u)
    PROVE  Tidier(s, u)
  BY GoesOn DEF Tidier
-----------------------------------------------------------------------------
(* The candidate book.                                                     *)

\* New reasons become queued candidates; nothing but open ones moves besides.
LEMMA UpsertFacts ==
    ASSUME NEW s \in Session, NEW new \in SUBSET Key
    PROVE  LET t == Upsert(s, new)
           IN  /\ t \in Session /\ Tidier(s, t) /\ t.intent = s.intent
               /\ t.schedule = s.schedule
               /\ \A k \in new : t.status[k] # "none"
               /\ \A k \in Key : t.status[k] # s.status[k] => t.status[k] = "queued"
  <1> DEFINE fresh == {k \in new : s.status[k] = "none"}
             st == [k \in Key |-> IF k \in fresh THEN "queued" ELSE s.status[k]]
             fm == s.firm \cup {k \in fresh : k[1] = "intent" /\ s.intent[k[2]] = "commitment"}
             t == Upsert(s, new)
  <1>1. st \in [Key -> Status] /\ fm \in SUBSET Key
    BY Fields DEF Status
  <1>2. t = [s EXCEPT !.status = st, !.firm = fm]
    BY DEF Upsert
  <1>3. t \in Session /\ t.status = st /\ t.intent = s.intent /\ t.schedule = s.schedule
    <2> HIDE DEF st, fm, t
    <2> QED BY <1>1, <1>2 DEF Session
  <1>4. \A k \in Key : Goes(s.status[k], st[k])
    BY DEF Goes, Open
  <1> QED BY <1>3, <1>4 DEF Tidier

\* A status is set unless it is terminal, and no other one changes.
LEMMA MarkFacts ==
    ASSUME NEW s \in Session, NEW k \in Key, NEW status \in Status
    PROVE  LET t == Mark(s, k, status)
           IN  /\ t \in Session /\ t.intent = s.intent /\ t.schedule = s.schedule
               /\ t.enabled = s.enabled /\ t.firm = s.firm /\ t.older = s.older
               /\ t.activity = s.activity
               /\ t.status[k] = IF s.status[k] \in Terminal THEN s.status[k] ELSE status
               /\ \A q \in Key \ {k} : t.status[q] = s.status[q]
  <1> DEFINE st == [s.status EXCEPT ![k] = IF @ \in Terminal THEN @ ELSE status]
  <1>1. st \in [Key -> Status]
    BY Fields
  <1>2. Mark(s, k, status) = [s EXCEPT !.status = st]
    BY DEF Mark, Session
  <1>3. /\ st[k] = IF s.status[k] \in Terminal THEN s.status[k] ELSE status
        /\ \A q \in Key \ {k} : st[q] = s.status[q]
    BY Fields
  <1> HIDE DEF st
  <1> QED BY <1>1, <1>2, <1>3, WithStatus

\* Expiry keeps session and intents; if no claim has lapsed it only tidies.
LEMMA ExpiredFacts ==
    ASSUME NEW s \in Session, NEW gone
    PROVE  LET t == Expired(s, gone)
           IN  /\ t \in Session /\ t.intent = s.intent /\ t.schedule = s.schedule
               /\ lapsed = {} => Tidier(s, t)
  <1> DEFINE st == [k \in Key |->
                CASE s.status[k] = "dispatching" /\ k \in lapsed -> "queued"
                  [] s.status[k] \in Open /\ k \in gone -> "expired"
                  [] OTHER -> s.status[k]]
  <1>1. st \in [Key -> Status]
    BY Fields DEF Status
  <1>2. Expired(s, gone) = [s EXCEPT !.status = st]
    BY DEF Expired
  <1>3. lapsed = {} => \A k \in Key : Goes(s.status[k], st[k])
    BY DEF Goes, Open, Terminal
  <1> HIDE DEF st
  <1> QED BY <1>1, <1>2, <1>3, WithStatus DEF Tidier

\* So does what every check begins with,
LEMMA TidiedFacts ==
    ASSUME NEW s \in Session, s = session, NEW gone
    PROVE  LET t == Tidied(gone)
           IN  /\ t \in Session /\ t.schedule = s.schedule
               /\ lapsed = {} => Tidier(s, t)
  <1> DEFINE e == Expired(session, gone)
             it == [i \in Intents |->
                IF e.intent[i] = "commitment" /\ IntentKey(i) \in due \cap gone
                  THEN "pruned" ELSE e.intent[i]]
             t == Tidied(gone)
  <1>1. e \in Session /\ e.schedule = s.schedule /\ (lapsed = {} => Tidier(s, e))
    BY ExpiredFacts
  <1>2. t = [e EXCEPT !.intent = it]
    BY <1>1 DEF Tidied, Session
  <1>3. it \in [Intents -> Live \cup {"none", "fired", "pruned"}]
    BY <1>1, Fields
  <1> HIDE DEF e, it, t
  <1>4. t \in Session /\ t.schedule = e.schedule /\ t.status = e.status
    BY <1>1, <1>2, <1>3 DEF Session
  <1> QED BY <1>1, <1>4 DEF Tidier, t

\* A gate only moves an open candidate.
LEMMA Gated ==
    ASSUME NEW s \in Session, NEW k \in Key, s.status[k] \in Open,
           NEW status \in Open
    PROVE  LET t == Mark(s, k, status)
           IN  /\ t \in Session /\ Tidier(s, t) /\ t.status[k] = status
               /\ t.intent = s.intent /\ t.schedule = s.schedule
  <1> DEFINE t == Mark(s, k, status)
  <1>1. status \in Status /\ s.status[k] \notin Terminal
    BY DEF Open, Terminal, Status
  <1>2. /\ t \in Session /\ t.intent = s.intent /\ t.schedule = s.schedule
        /\ t.status[k] = status /\ \A q \in Key \ {k} : t.status[q] = s.status[q]
    BY <1>1, MarkFacts
  <1> HIDE DEF t
  <1>3. \A q \in Key : Goes(s.status[q], t.status[q])
    BY <1>2 DEF Goes
  <1> QED BY <1>2, <1>3 DEF Tidier, t

\* The gate queues nothing during the cooldown.
LEMMA GateFacts ==
    ASSUME NEW quiet \in BOOLEAN
    PROVE  Gate(quiet) \in Open /\ (Gate(quiet) = "queued" => ~cooling)
  BY DEF Gate, Open

\* An intent passes to be acted upon as a commitment or when all is calm.
LEMMA ConsideredFacts ==
    ASSUME NEW s \in Session, NEW i \in {0} \cup Intents, NEW quiet \in BOOLEAN
    PROVE  LET t == Considered(s, i, quiet)
           IN  /\ t \in Session /\ Tidier(s, t) /\ t.schedule = s.schedule
               /\ Passes(t, i) => i \in Intents /\ (Exempt(t, IntentKey(i)) \/ ~cooling)
  <1> DEFINE k == IntentKey(i)
             u == Upsert(s, {k})
             status == IF u.intent[i] = "commitment" THEN "queued" ELSE Gate(quiet)
             t == Considered(s, i, quiet)
  <1>1. CASE i = 0
    BY <1>1, Keys DEF Considered, Passes, Tidier, Goes
  <1>2. CASE i # 0
    <2>1. i \in Intents /\ k \in Key /\ k[1] = "intent" /\ k[2] = i
      BY <1>2, Keys, KeyKinds
    <2>2. u \in Session /\ Tidier(s, u) /\ u.intent = s.intent /\ u.schedule = s.schedule
      BY <2>1, UpsertFacts
    <2>3. status \in Open /\ (u.intent[i] # "commitment" /\ status = "queued" => ~cooling)
      BY GateFacts DEF Open
    <2>4. t = IF u.status[k] \notin Open THEN u ELSE Mark(u, k, status)
      BY <1>2 DEF Considered
    <2> HIDE DEF status, u, k, t
    <2>5. CASE u.status[k] \notin Open
      <3>1. ~Passes(t, i)
        BY <2>4, <2>5 DEF Passes, Open, k
      <3> QED BY <2>2, <2>4, <2>5, <3>1 DEF t
    <2>6. CASE u.status[k] \in Open
      <3>1. Tidier(u, t) /\ t \in Session /\ t.intent = u.intent /\ t.schedule = u.schedule
            /\ t.status[k] = status
        <4>1. t = Mark(u, k, status)
          BY <2>4, <2>6
        <4> QED BY <2>1, <2>2, <2>3, <2>6, <4>1, Gated
      <3>2. Passes(t, i) => Exempt(t, k) \/ ~cooling
        BY <2>1, <2>3, <3>1 DEF Passes, Exempt, k
      <3> QED BY <2>1, <2>2, <3>1, <3>2, TidierOn DEF t, k
    <2> QED BY <2>5, <2>6
  <1> QED BY <1>1, <1>2

\* and so does entering the reasons a check finds.
LEMMA EnteredFacts ==
    ASSUME NEW s \in Session, NEW items \in SUBSET Key, NEW gone
    PROVE  LET t == Entered(s, items, gone)
           IN  /\ t \in Session /\ t.schedule = s.schedule
               /\ lapsed = {} => Tidier(s, t)
  <1> DEFINE u == Upsert(s, items)
             st == [k \in Key |-> IF k \in items /\ u.status[k] \in Open
                                    THEN "queued" ELSE u.status[k]]
             v == [u EXCEPT !.status = st]
  <1>1. u \in Session /\ Tidier(s, u) /\ u.schedule = s.schedule
    BY UpsertFacts
  <1>2. st \in [Key -> Status]
    BY <1>1, Fields DEF Status
  <1>3. Entered(s, items, gone) = Expired(v, gone)
    BY <1>1, Fields DEF Entered
  <1>4. v \in Session /\ v.status = st /\ v.schedule = u.schedule
    BY <1>1, <1>2, WithStatus
  <1>5. Tidier(u, v)
    BY <1>4 DEF Tidier, Goes, Open
  <1> HIDE DEF u, st, v
  <1>6. Expired(v, gone) \in Session /\ Expired(v, gone).schedule = v.schedule
        /\ (lapsed = {} => Tidier(v, Expired(v, gone)))
    BY <1>4, ExpiredFacts
  <1> QED BY <1>1, <1>3, <1>4, <1>5, <1>6, TidierOn
-----------------------------------------------------------------------------
(* What a check of the thinker may do.                                     *)

\* It leaves claims alone, and selects a candidate that may be acted upon or none.
Selects ==
    /\ claim' = claim
    /\ \/ UNCHANGED <<pc, picked, intended>>
       \/ /\ pc' = "picked" /\ picked' \in Key /\ intended' \in {0} \cup Intents
          /\ Exempt(session', picked') \/ ~cooling

Tidying ==
    /\ session' \in Session /\ disk' \in {disk, session'}
    /\ cached' \in BOOLEAN
    /\ lapsed = {} => Tidier(session, session')

\* Taking the schedule away moves neither candidate nor intent.
LEMMA WithoutScheduleFacts ==
    ASSUME NEW s \in Session
    PROVE  LET t == WithoutSchedule(s)
           IN  /\ t \in Session /\ t.status = s.status /\ t.intent = s.intent
               /\ t.firm = s.firm /\ t.older = s.older
  BY DEF WithoutSchedule, Session

\* Written or not yet, the session is the new one, and the file this one or the old.
LEMMA Writing ==
    ASSUME NEW s, Saved(s) \/ Becomes(s)
    PROVE  session' = s /\ disk' \in {disk, session'}
  BY DEF Saved, Becomes

\* The check of the schedule tidies and selects.
LEMMA ScheduleChecked ==
    ASSUME TypeOK, CheckSchedule
    PROVE  Tidying /\ Selects
  <1>1. session \in Session /\ session.schedule \in Schedules
    BY Fields DEF TypeOK, CheckSchedule
  <1> DEFINE k == ScheduleKey(session.schedule)
             e(gone) == IF cached THEN Expired(session, gone) ELSE session
             s(gone) == Upsert(e(gone), {k})
  <1>2. k \in Key /\ k[1] = "schedule"
    BY <1>1, Keys, KeyKinds
  <1>3. PICK gone \in SUBSET Aged(session) :
          /\ cached' = TRUE
          /\ \/ Saved(WithoutSchedule(s(gone))) /\ UNCHANGED thinkerVars
             \/ Saved(s(gone)) /\ Select(k, intended)
             \/ Becomes(s(gone)) /\ UNCHANGED thinkerVars
    BY DEF CheckSchedule
  <1>4. e(gone) \in Session /\ (lapsed = {} => Tidier(session, e(gone)))
    BY <1>1, ExpiredFacts DEF Tidier, Goes
  <1>5. s(gone) \in Session /\ Tidier(e(gone), s(gone))
    <2> HIDE DEF e
    <2> QED BY <1>2, <1>4, UpsertFacts
  <1> HIDE DEF k, e, s
  <1>6. lapsed = {} => Tidier(session, s(gone))
    BY <1>4, <1>5, TidierOn
  <1>7. /\ WithoutSchedule(s(gone)) \in Session
        /\ lapsed = {} => Tidier(session, WithoutSchedule(s(gone)))
    BY <1>5, <1>6, WithoutScheduleFacts DEF Tidier
  <1>8. Tidying
    BY <1>3, <1>5, <1>6, <1>7, Writing DEF Tidying
  <1>9. Selects
    BY <1>2, <1>3 DEF Selects, Select, Exempt, thinkerVars, TypeOK
  <1> QED BY <1>8, <1>9

\* The head of the queue is an intent, or there is none.
LEMMA HeadsFacts ==
    ASSUME NEW s, NEW i \in Heads(s)
    PROVE  i \in {0} \cup Intents
  BY DEF Heads

\* The check of the intents tidies and selects.
LEMMA IntentsChecked ==
    ASSUME TypeOK, CheckIntents
    PROVE  Tidying /\ Selects
  <1>1. session \in Session /\ cached \in BOOLEAN
    BY DEF TypeOK
  <1> DEFINE t(gone) == Tidied(gone)
             s(gone, i, quiet) == Considered(t(gone), i, quiet)
  <1>a. PICK gone \in SUBSET Aged(session), quiet \in BOOLEAN :
          \E i \in Heads(t(gone)) :
             /\ Passes(s(gone, i, quiet), i) /\ Saved(s(gone, i, quiet))
             /\ Select(IntentKey(i), i)
             /\ UNCHANGED cached
    BY DEF CheckIntents
  <1>2. PICK i \in Heads(t(gone)) :
          /\ Passes(s(gone, i, quiet), i) /\ Saved(s(gone, i, quiet))
          /\ Select(IntentKey(i), i)
          /\ UNCHANGED cached
    BY <1>a
  <1>3. i \in {0} \cup Intents
    BY <1>2, HeadsFacts
  <1>4. t(gone) \in Session /\ (lapsed = {} => Tidier(session, t(gone)))
    BY <1>1, TidiedFacts
  <1> HIDE DEF t
  <1>5. /\ s(gone, i, quiet) \in Session /\ Tidier(t(gone), s(gone, i, quiet))
        /\ i \in Intents
        /\ Exempt(s(gone, i, quiet), IntentKey(i)) \/ ~cooling
    BY <1>2, <1>3, <1>4, ConsideredFacts
  <1> HIDE DEF s
  <1>6. session' = s(gone, i, quiet) /\ disk' \in {disk, session'}
    BY <1>2, Writing
  <1>7. Tidying
    BY <1>1, <1>2, <1>4, <1>5, <1>6, TidierOn DEF Tidying
  <1>8. Selects
    BY <1>2, <1>3, <1>5, <1>6, Keys DEF Selects, Select
  <1> QED BY <1>7, <1>8

\* What the stages of the intents and of the day's plan leave to the next.
LEMMA StagesFacts ==
    ASSUME TypeOK, NEW gone \in SUBSET Aged(session), NEW quiet \in BOOLEAN,
           NEW agenda \in SUBSET Items, NEW i \in Heads(Tidied(gone))
    PROVE  LET s == Entered(Considered(Tidied(gone), i, quiet),
                            {AgendaKey(a) : a \in agenda}, gone)
           IN  s \in Session /\ (lapsed = {} => Tidier(session, s))
  <1> DEFINE items == {AgendaKey(a) : a \in agenda}
             t == Tidied(gone)
             c == Considered(t, i, quiet)
             s == Entered(c, items, gone)
  <1>1. i \in {0} \cup Intents
    BY HeadsFacts
  <1>2. items \in SUBSET Key
    BY Keys
  <1>3. t \in Session /\ (lapsed = {} => Tidier(session, t))
    BY TidiedFacts DEF TypeOK
  <1> HIDE DEF t, items
  <1>4. c \in Session /\ Tidier(t, c)
    BY <1>1, <1>3, ConsideredFacts
  <1> HIDE DEF c
  <1>5. s \in Session /\ (lapsed = {} => Tidier(c, s))
    BY <1>2, <1>4, EnteredFacts
  <1> HIDE DEF s
  <1>6. lapsed = {} => Tidier(session, s)
    BY <1>3, <1>4, <1>5, TidierOn
  <1> QED BY <1>5, <1>6 DEF s, c, t, items

\* The check of the agenda tidies and selects.
LEMMA AgendaChecked ==
    ASSUME TypeOK, CheckAgenda
    PROVE  Tidying /\ Selects
  <1> DEFINE items(agenda) == {AgendaKey(a) : a \in agenda}
             s(gone, quiet, agenda, i) ==
                Entered(Considered(Tidied(gone), i, quiet), items(agenda), gone)
  <1>a. PICK gone \in SUBSET Aged(session), quiet \in BOOLEAN, agenda \in SUBSET Items :
          /\ \E i \in Heads(Tidied(gone)) :
                \E k \in items(agenda) :
                   /\ s(gone, quiet, agenda, i).status[k] = "queued"
                   /\ Saved(Mark(s(gone, quiet, agenda, i), k, Gate(quiet)))
                   /\ IF Gate(quiet) = "queued" THEN Select(k, intended) ELSE UNCHANGED thinkerVars
          /\ UNCHANGED cached
    <2>1. PICK gone \in SUBSET Aged(session), quiet \in BOOLEAN, agenda \in SUBSET Items :
            /\ Idle
            /\ \E i \in Heads(Tidied(gone)) :
                 LET t == Considered(Tidied(gone), i, quiet)
                     e == Entered(t, {AgendaKey(a) : a \in agenda}, gone)
                 IN  /\ ~Passes(t, i)
                     /\ \E k \in {AgendaKey(a) : a \in agenda} :
                          /\ e.status[k] = "queued"
                          /\ Saved(Mark(e, k, Gate(quiet)))
                          /\ IF Gate(quiet) = "queued" THEN Select(k, intended)
                                                       ELSE UNCHANGED thinkerVars
            /\ UNCHANGED cached
            /\ Checked
      BY DEF CheckAgenda
    <2>2. PICK i \in Heads(Tidied(gone)) :
            \E k \in items(agenda) :
               /\ s(gone, quiet, agenda, i).status[k] = "queued"
               /\ Saved(Mark(s(gone, quiet, agenda, i), k, Gate(quiet)))
               /\ IF Gate(quiet) = "queued" THEN Select(k, intended) ELSE UNCHANGED thinkerVars
      BY <2>1
    <2> HIDE DEF s, items
    <2> QED BY <2>1, <2>2
  <1>1. PICK i \in Heads(Tidied(gone)), k \in items(agenda) :
          /\ s(gone, quiet, agenda, i).status[k] = "queued"
          /\ Saved(Mark(s(gone, quiet, agenda, i), k, Gate(quiet)))
          /\ IF Gate(quiet) = "queued" THEN Select(k, intended) ELSE UNCHANGED thinkerVars
          /\ UNCHANGED cached
    BY <1>a
  <1> DEFINE u == s(gone, quiet, agenda, i)
             v == Mark(u, k, Gate(quiet))
  <1>2. u \in Session /\ (lapsed = {} => Tidier(session, u))
    BY StagesFacts
  <1>3. k \in Key /\ u.status[k] \in Open
    BY <1>1, Keys DEF Open
  <1> HIDE DEF s, u
  <1>4. v \in Session /\ Tidier(u, v)
    BY <1>2, <1>3, Gated, GateFacts
  <1>5. session' = v /\ disk' \in {disk, session'}
    BY <1>1, Writing DEF u
  <1> HIDE DEF v
  <1>6. Tidying
    BY <1>1, <1>2, <1>4, <1>5, TidierOn DEF Tidying, TypeOK
  <1>7. Selects
    BY <1>1, <1>3, GateFacts DEF Selects, Select, thinkerVars, TypeOK
  <1> QED BY <1>6, <1>7

\* The check of the silence tidies and selects.
LEMMA SilenceChecked ==
    ASSUME TypeOK, CheckSilence
    PROVE  Tidying /\ Selects
  <1> DEFINE items(agenda) == {AgendaKey(a) : a \in agenda}
             s(gone, quiet, agenda, i) ==
                Entered(Considered(Tidied(gone), i, quiet), items(agenda), gone)
             k == SilenceKey(session.activity)
  <1>a. PICK gone \in SUBSET Aged(session), quiet \in BOOLEAN, agenda \in SUBSET Items :
          \E i \in Heads(Tidied(gone)) :
             /\ \/ /\ Gate(quiet) = "queued"
                   /\ Saved(Upsert(s(gone, quiet, agenda, i), {k})) /\ Select(k, 0)
                \/ Becomes(s(gone, quiet, agenda, i)) /\ UNCHANGED thinkerVars
             /\ UNCHANGED cached
    BY DEF CheckSilence
  <1>1. PICK i \in Heads(Tidied(gone)) :
          /\ \/ /\ Gate(quiet) = "queued"
                /\ Saved(Upsert(s(gone, quiet, agenda, i), {k})) /\ Select(k, 0)
             \/ Becomes(s(gone, quiet, agenda, i)) /\ UNCHANGED thinkerVars
          /\ UNCHANGED cached
    BY <1>a
  <1> DEFINE u == s(gone, quiet, agenda, i)
             v == Upsert(u, {k})
  <1>2. u \in Session /\ (lapsed = {} => Tidier(session, u))
    BY StagesFacts
  <1>3. k \in Key
    BY Keys, Fields DEF TypeOK
  <1> HIDE DEF s, u, k
  <1>4. v \in Session /\ Tidier(u, v)
    BY <1>2, <1>3, UpsertFacts
  <1>5. session' \in {u, v} /\ disk' \in {disk, session'}
    BY <1>1, Writing DEF u
  <1> HIDE DEF v
  <1>6. Tidying
    BY <1>1, <1>2, <1>4, <1>5, TidierOn DEF Tidying, TypeOK
  <1>7. Selects
    BY <1>1, <1>3, GateFacts DEF Selects, Select, thinkerVars, TypeOK
  <1> QED BY <1>6, <1>7

\* So a check as a whole only tidies, and selects only what may be acted upon.
LEMMA CheckFacts ==
    ASSUME TypeOK, Check
    PROVE  pc = "idle" /\ Checked /\ Tidying /\ Selects
  <1>1. CASE CheckSchedule
    BY <1>1, ScheduleChecked DEF CheckSchedule
  <1>2. CASE CheckDisk
    BY <1>2 DEF CheckDisk, Checked, Tidying, Selects, thinkerVars, TypeOK, Tidier, Goes
  <1>3. CASE CheckIntents
    BY <1>3, IntentsChecked DEF CheckIntents, Idle
  <1>4. CASE CheckAgenda
    BY <1>4, AgendaChecked DEF CheckAgenda, Idle
  <1>5. CASE CheckSilence
    BY <1>5, SilenceChecked DEF CheckSilence, Idle
  <1> QED BY <1>1, <1>2, <1>3, <1>4, <1>5 DEF Check
-----------------------------------------------------------------------------
(* What the conversation may do.                                           *)

\* It cancels candidates, the claimed one included, and takes no promise back.
Talks ==
    /\ session' \in Session /\ disk' \in {disk, session'}
    /\ cached' \in BOOLEAN /\ due' \in SUBSET Key
    /\ \A k \in Key : session'.status[k] # session.status[k] =>
          session.status[k] \in Open \cup {"dispatching"} /\ session'.status[k] = "cancelled"
    /\ \A i \in Intents : session.intent[i] = "commitment" => session'.intent[i] = "commitment"
    /\ UNCHANGED <<lapsed, cooling, thinkerVars, boundVars, historyVars>>

\* A message of the user does no more than that,
LEMMA UserMessageTalks ==
    ASSUME TypeOK, UserMessage
    PROVE  Talks
  <1> DEFINE older == {k \in Key : session.status[k] # "none"}
             st == [k \in Key |->
                IF k \in Cancellable(session) /\ session.status[k] \in Open \cup {"dispatching"}
                THEN "cancelled" ELSE session.status[k]]
             s == [session EXCEPT !.activity = @ + 1, !.older = older, !.status = st]
  <1>1. session.activity + 1 \in 0..MaxActivity /\ older \in SUBSET Key
    BY Fields, BoundAssumption DEF TypeOK, UserMessage
  <1>2. st \in [Key -> Status]
    BY Fields DEF TypeOK, Status
  <1>3. Becomes(s) /\ Noted /\ UNCHANGED due
    BY DEF UserMessage
  <1>4. \A k \in Key : st[k] # session.status[k] =>
           session.status[k] \in Open \cup {"dispatching"} /\ st[k] = "cancelled"
    OBVIOUS
  <1> HIDE DEF older, st
  <1>5. s \in Session /\ s.status = st /\ s.intent = session.intent
    BY <1>1, <1>2 DEF TypeOK, Session
  <1> HIDE DEF s
  <1> QED BY <1>3, <1>4, <1>5, Writing DEF Talks, Noted, TypeOK

\* Only the intents change.
LEMMA WithIntent ==
    ASSUME NEW s \in Session, NEW i \in Intents,
           NEW kind \in Live \cup {"none", "fired", "pruned"}
    PROVE  LET t == [s EXCEPT !.intent[i] = kind]
           IN  /\ t \in Session /\ t.status = s.status /\ t.older = s.older
               /\ t.intent = [s.intent EXCEPT ![i] = kind]
  BY DEF Session

\* nor does any other step of the conversation.
LEMMA ConversationTalks ==
    ASSUME TypeOK, Conversation
    PROVE  Talks
  <1> USE DEF TypeOK
  <1>1. CASE UserMessage
    BY <1>1, UserMessageTalks
  <1>2. ASSUME NEW s \in Session, s.status = session.status, s.intent = session.intent,
               Saved(s) \/ Becomes(s), Noted, UNCHANGED due
        PROVE  Talks
    BY <1>2, Writing DEF Talks, Noted
  <1>3. CASE BotPlans
    <2>1. session.activity + 1 \in 0..MaxActivity
      BY <1>3, Fields, BoundAssumption DEF BotPlans
    <2> DEFINE s == [session EXCEPT !.activity = @ + 1]
    <2>2. s \in Session /\ s.status = session.status /\ s.intent = session.intent
      BY <2>1 DEF Session
    <2> QED BY <1>2, <1>3, <2>2 DEF BotPlans
  <1>4. ASSUME NEW n \in Schedules, Reschedule(n) PROVE Talks
    <2> DEFINE s == [session EXCEPT !.schedule = n]
    <2>1. s \in Session /\ s.status = session.status /\ s.intent = session.intent
      BY DEF Session
    <2> QED BY <1>2, <1>4, <2>1 DEF Reschedule
  <1>5. CASE CancelSchedule
    BY <1>2, <1>5, WithoutScheduleFacts DEF CancelSchedule
  <1>6. ASSUME NEW enabled \in BOOLEAN, SetEnabled(enabled) PROVE Talks
    <2> DEFINE s == [session EXCEPT !.enabled = enabled]
    <2>1. s \in Session /\ s.status = session.status /\ s.intent = session.intent
      BY DEF Session
    <2> QED BY <1>2, <1>6, <2>1 DEF SetEnabled
  <1>7. CASE Clear
    <2>1. session.activity + 1 \in 0..MaxActivity
      BY <1>7, Fields, BoundAssumption DEF Clear
    <2> DEFINE s == [session EXCEPT !.activity = @ + 1, !.schedule = 0, !.older = {}]
    <2>2. s \in Session /\ s.status = session.status /\ s.intent = session.intent
      BY <2>1 DEF Session
    <2> QED BY <1>2, <1>7, <2>2 DEF Clear
  <1>8. ASSUME NEW i \in Intents, NEW kind \in Live, AddIntent(i, kind) PROVE Talks
    <2> DEFINE s == [session EXCEPT !.intent[i] = kind]
    <2>1. s \in Session /\ s.status = session.status
          /\ s.intent = [session.intent EXCEPT ![i] = kind]
      BY WithIntent
    <2>2. session.intent[i] = "none" /\ session.intent \in [Intents -> Live \cup {"none", "fired", "pruned"}]
      BY <1>8, Fields DEF AddIntent, Intents
    <2>3. \A j \in Intents : session.intent[j] = "commitment" => s.intent[j] = "commitment"
      BY <2>1, <2>2
    <2>4. session' = s /\ disk' \in {disk, session'}
      BY <1>8, Writing DEF AddIntent
    <2> HIDE DEF s
    <2> QED BY <1>8, <2>1, <2>3, <2>4 DEF AddIntent, Talks, Noted
  <1>9. ASSUME NEW i \in Intents, Promise(i) PROVE Talks
    <2> DEFINE s == [session EXCEPT !.intent[i] = "commitment"]
    <2>1. s \in Session /\ s.status = session.status
          /\ s.intent = [session.intent EXCEPT ![i] = "commitment"]
      <3>1. "commitment" \in Live \cup {"none", "fired", "pruned"}
        BY DEF Live
      <3> QED BY <3>1, WithIntent
    <2>2. \A j \in Intents : session.intent[j] = "commitment" => s.intent[j] = "commitment"
      BY <2>1, Fields
    <2>3. session' = s /\ disk' \in {disk, session'} /\ due' \in SUBSET Key
      BY <1>9, Writing DEF Promise
    <2> HIDE DEF s
    <2> QED BY <1>9, <2>1, <2>2, <2>3 DEF Promise, Talks, Noted
  <1> QED BY <1>1, <1>3, <1>4, <1>5, <1>6, <1>7, <1>8, <1>9 DEF Conversation
-----------------------------------------------------------------------------
(* Types, and where the thinker has a candidate.                           *)

InFlight == {"publishing", "building", "waking", "delivered", "undelivered"}

Places ==
    /\ pc = "picked" => picked \in Key
    /\ IF pc \in InFlight THEN claim \in Key ELSE claim = NoKey

TypeInv == TypeOK /\ Places

\* The types hold at the start,
LEMMA InitTypes == Init => TypeInv
  <1>1. NewSession \in Session
    <2>1. [i \in Intents |-> "none"] \in [Intents -> Live \cup {"none", "fired", "pruned"}]
      OBVIOUS
    <2>2. [k \in Key |-> "none"] \in [Key -> Status]
      BY DEF Status
    <2> QED BY <2>1, <2>2, Keys DEF NewSession, Session
  <1>2. Init => Places
    BY DEF Init, Places, InFlight
  <1> QED BY <1>1, <1>2, Keys DEF Init, TypeInv, TypeOK

\* The claimed candidate is marked as sent and its intent as fired.
LEMMA SettledSession ==
    ASSUME TypeInv, SettleDelivered
    PROVE  /\ session' \in Session /\ disk' = session'
           /\ session'.status[claim] = IF session.status[claim] \in Terminal
                                         THEN session.status[claim] ELSE "sent"
           /\ \A q \in Key \ {claim} : session'.status[q] = session.status[q]
  <1> DEFINE w == WithoutSchedule(session)
             m == Mark(w, claim, "sent")
             f == [m EXCEPT !.intent[intended] = "fired"]
  <1>1. claim \in Key /\ intended \in {0} \cup Intents /\ session \in Session
    BY DEF TypeInv, TypeOK, Places, InFlight, SettleDelivered
  <1>2. w \in Session /\ w.status = session.status
    BY <1>1, WithoutScheduleFacts
  <1>3. Saved(IF intended # 0 /\ m.intent[intended] \in Live THEN f ELSE m)
    BY DEF SettleDelivered
  <1> HIDE DEF w
  <1>4. /\ m \in Session
        /\ m.status[claim] = IF w.status[claim] \in Terminal THEN w.status[claim] ELSE "sent"
        /\ \A q \in Key \ {claim} : m.status[q] = w.status[q]
    <2>1. "sent" \in Status
      BY DEF Status
    <2> QED BY <1>1, <1>2, <2>1, MarkFacts
  <1> HIDE DEF m
  <1>5. ASSUME intended # 0 PROVE f \in Session /\ f.status = m.status
    BY <1>1, <1>4, <1>5, WithIntent
  <1> HIDE DEF f
  <1> QED BY <1>2, <1>3, <1>4, <1>5 DEF Saved

\* The session written by Prepare, Refuse and SettleUndelivered.
LEMMA Marked ==
    ASSUME TypeOK, NEW k \in Key, NEW status \in Status,
           Saved(session) \/ Saved(Mark(session, k, status))
    PROVE  session' \in Session /\ disk' \in Session
  BY MarkFacts DEF Saved, TypeOK

\* the handler and what it recovers from keep them,
LEMMA HandleTypes ==
    ASSUME TypeInv, Handle \/ Fail \/ Rollback
    PROVE  TypeInv'
  <1> USE DEF TypeInv, TypeOK, Places, InFlight
  <1>0. "cancelled" \in Status /\ "dispatching" \in Status /\ "queued" \in Status
    BY DEF Status
  <1>1. CASE Prepare
    <2>1. session' \in Session /\ disk' \in Session
      BY <1>0, <1>1, Marked DEF Prepare
    <2>2. Places'
      BY <1>1 DEF Prepare, Dropped
    <2>3. lapsed' \subseteq Key /\ picked' \in Key \cup {NoKey}
          /\ intended' \in {0} \cup Intents /\ claim' \in Key \cup {NoKey}
      BY <1>1 DEF Prepare, Dropped
    <2> QED BY <1>1, <2>1, <2>2, <2>3 DEF Prepare, boundVars, historyVars
  <1>2. CASE Validate \/ Wake
    BY <1>2 DEF Validate, Wake, Quietly, clockVars, boundVars, historyVars
  <1>3. CASE Refuse
    <2>1. session' \in Session /\ disk' \in Session
      BY <1>0, <1>3, Marked DEF Refuse
    <2> QED BY <1>3, <2>1 DEF Refuse, Quietly, clockVars, boundVars, historyVars
  <1>4. CASE Enqueue
    BY <1>4 DEF Enqueue, Saved, clockVars, boundVars
  <1>5. CASE Fail \/ Rollback
    <2>1. failures' \in 0..MaxFailures
      BY <1>5, BoundAssumption DEF Fail, Rollback
    <2> QED BY <1>5, <2>1 DEF Fail, Rollback, Saved, clockVars, historyVars
  <1>6. CASE SettleDelivered
    <2>1. session' \in Session /\ disk' \in Session
      BY <1>6, SettledSession
    <2> QED BY <1>6, <2>1 DEF SettleDelivered, Dropped, boundVars, historyVars
  <1>7. CASE SettleUndelivered
    <2>1. session' \in Session /\ disk' \in Session
      BY <1>0, <1>7, Marked DEF SettleUndelivered
    <2> QED BY <1>7, <2>1 DEF SettleUndelivered, Dropped, Quietly, clockVars, boundVars, historyVars
  <1> QED BY <1>1, <1>2, <1>3, <1>4, <1>5, <1>6, <1>7 DEF Handle

\* and so does each step.
LEMMA StepTypes ==
    ASSUME TypeInv, [Next]_vars
    PROVE  TypeInv'
  <1> USE DEF TypeInv
  <1>1. CASE Conversation
    BY <1>1, ConversationTalks DEF Talks, TypeOK, Places, thinkerVars, boundVars, historyVars
  <1>2. CASE Time
    BY <1>2 DEF Time, Cool, Due, Lapse, Ticks, TypeOK, Places, thinkerVars, boundVars
  <1>3. CASE Check
    <2>1. pc = "idle" /\ Checked /\ Tidying /\ Selects
      BY <1>3, CheckFacts
    <2> QED BY <2>1 DEF Checked, Tidying, Selects, TypeOK, Places, InFlight,
               clockVars, boundVars, historyVars
  <1>4. CASE Handle \/ Fail \/ Rollback
    BY <1>4, HandleTypes
  <1>5. CASE Crash
    <2>1. crashes' \in 0..MaxCrashes
      BY <1>5, BoundAssumption DEF Crash, TypeOK
    <2> QED BY <1>5, <2>1 DEF Crash, Dropped, TypeOK, Places, InFlight, historyVars
  <1>6. CASE UNCHANGED vars
    BY <1>6 DEF vars, clockVars, thinkerVars, boundVars, historyVars, TypeOK, Places
  <1> QED BY <1>1, <1>2, <1>3, <1>4, <1>5, <1>6 DEF Next

\* Whatever the user, the clock, the handler and crashes do, the session in
\* memory and on disk, the claim and the clock's notes are what the code takes
\* them for.
THEOREM TypeCorrect == Spec => []TypeOK
  <1>1. TypeInv /\ [Next]_vars => TypeInv'
    BY StepTypes
  <1>2. TypeInv => TypeOK
    BY DEF TypeInv
  <1> QED BY InitTypes, <1>1, <1>2, PTL DEF Spec
-----------------------------------------------------------------------------
(* Without a crash a reason for contact is claimed by one attempt.         *)

\* No claim is left alone: the only one is that of the attempt in flight, and
\* a candidate is not open while its claim is in flight.
OneClaim ==
    /\ lapsed = {}
    /\ \A k \in Key : session.status[k] = "dispatching" => k = claim
    /\ pc \in InFlight => session.status[claim] \in {"dispatching"} \cup Terminal

\* Who has been contacted will not be contacted again for the same reason.
MadeOnce == \A k \in contacts :
    \/ session.status[k] \in Terminal
    \/ k = claim /\ pc \in {"waking", "delivered"}

\* What is about to be sent was let through when nothing had been sent lately,
\* or min_interval is not asked of it.
Calm ==
    /\ recent => cooling \/ pc \in {"waking", "delivered"}
    /\ pc = "picked" => Exempt(session, picked) \/ ~cooling
    /\ pc \in {"publishing", "building"} => Exempt(session, claim) \/ ~cooling

IInv == TypeInv /\ OneClaim /\ MadeOnce /\ Calm

\* The invariant holds at the start.
LEMMA InitInv == Init => IInv
  <1>1. Init => OneClaim
    BY DEF Init, OneClaim, NewSession, InFlight
  <1>2. Init => MadeOnce /\ Calm
    BY DEF Init, MadeOnce, Calm
  <1> QED BY InitTypes, <1>1, <1>2 DEF IInv

\* What was exempt when it was selected still is when it is sent.
LEMMA StaysExempt ==
    ASSUME NEW s \in Session, NEW t \in Session, NEW k \in Key,
           \A i \in Intents : s.intent[i] = "commitment" => t.intent[i] = "commitment",
           Exempt(s, k)
    PROVE  Exempt(t, k)
  BY Keys DEF Exempt

\* The conversation keeps it.
LEMMA ConversationInv ==
    ASSUME IInv, Conversation
    PROVE  OneClaim' /\ MadeOnce' /\ Calm'
  <1>1. Talks
    BY ConversationTalks DEF IInv, TypeInv
  <1>2. \A k \in Key : session'.status[k] # session.status[k] =>
           session.status[k] \in Open \cup {"dispatching"} /\ session'.status[k] = "cancelled"
    BY <1>1 DEF Talks
  <1>3. UNCHANGED <<lapsed, cooling, pc, picked, claim, contacts, recent>>
    BY <1>1 DEF Talks, thinkerVars, historyVars
  <1>4. claim \in Key \/ pc \notin InFlight
    BY DEF IInv, TypeInv, Places
  <1>5. OneClaim'
    BY <1>2, <1>3, <1>4 DEF IInv, OneClaim, Terminal
  <1>6. MadeOnce'
    BY <1>2, <1>3 DEF IInv, MadeOnce, TypeInv, TypeOK, Terminal, Open
  <1>7. ASSUME NEW k \in Key, Exempt(session, k) PROVE Exempt(session', k)
    BY <1>1, <1>7, StaysExempt DEF Talks, IInv, TypeInv, TypeOK
  <1>8. Calm'
    BY <1>3, <1>7 DEF IInv, TypeInv, Places, InFlight, Calm
  <1> QED BY <1>5, <1>6, <1>8

\* Time keeps it.
LEMMA TimeInv ==
    ASSUME IInv, Time
    PROVE  OneClaim' /\ MadeOnce' /\ Calm'
  <1>1. UNCHANGED <<session, pc, picked, claim, contacts>>
    BY DEF Time, Cool, Due, Lapse, Ticks, thinkerVars
  <1>2. lapsed' = {}
    BY DEF Time, Cool, Due, Lapse, IInv, OneClaim
  <1>3. \/ UNCHANGED <<cooling, recent>>
        \/ cooling' = FALSE /\ recent' = FALSE
    BY DEF Time, Cool, Due, Lapse
  <1> QED BY <1>1, <1>2, <1>3 DEF IInv, OneClaim, MadeOnce, Calm, Exempt

\* The checks of the thinker keep it.
LEMMA CheckInv ==
    ASSUME IInv, Check
    PROVE  OneClaim' /\ MadeOnce' /\ Calm'
  <1>1. pc = "idle" /\ Checked /\ Tidying /\ Selects
    BY CheckFacts DEF IInv, TypeInv
  <1>2. \A k \in Key : Goes(session.status[k], session'.status[k])
    BY <1>1 DEF Tidying, Tidier, IInv, OneClaim
  <1>3. UNCHANGED <<lapsed, cooling, claim, contacts, recent>>
    BY <1>1 DEF Checked, Selects, clockVars, historyVars
  <1>4. pc' \in {"idle", "picked"}
        /\ (pc' = "picked" => picked' \in Key /\ (Exempt(session', picked') \/ ~cooling))
    BY <1>1 DEF Selects
  <1>5. OneClaim'
    BY <1>2, <1>3, <1>4 DEF IInv, OneClaim, InFlight, Goes, Open, Terminal
  <1>6. MadeOnce'
    BY <1>1, <1>2, <1>3 DEF IInv, MadeOnce, TypeInv, TypeOK, Goes, Open, Terminal
  <1>7. Calm'
    BY <1>1, <1>3, <1>4 DEF IInv, Calm
  <1> QED BY <1>5, <1>6, <1>7

\* What a step of the handler does to the book: it moves the candidate in hand.
LEMMA MovesOne ==
    ASSUME TypeOK, NEW k \in Key, NEW status \in {"dispatching", "cancelled", "queued"},
           Saved(Mark(session, k, status))
    PROVE  /\ session' \in Session /\ session'.intent = session.intent
           /\ session'.status[k] = IF session.status[k] \in Terminal
                                     THEN session.status[k] ELSE status
           /\ \A q \in Key \ {k} : session'.status[q] = session.status[q]
  <1>1. status \in Status
    BY DEF Status
  <1> QED BY <1>1, MarkFacts DEF Saved, TypeOK

\* Preparing a contact keeps it.
LEMMA PrepareInv ==
    ASSUME IInv, Prepare
    PROVE  OneClaim' /\ MadeOnce' /\ Calm'
  <1>1. /\ TypeOK /\ pc = "picked" /\ picked \in Key /\ claim = NoKey /\ lapsed = {}
        /\ claim \notin Key
    BY Keys DEF Prepare, IInv, TypeInv, Places, OneClaim, InFlight
  <1>2. /\ \A k \in Key : session.status[k] # "dispatching"
        /\ \A k \in contacts : session.status[k] \in Terminal
        /\ recent => cooling
        /\ Exempt(session, picked) \/ ~cooling
        /\ contacts \subseteq Key
    BY <1>1 DEF IInv, OneClaim, MadeOnce, Calm, TypeOK
  <1>3. UNCHANGED <<cooling, contacts, recent>> /\ lapsed' = {}
    BY <1>1 DEF Prepare, historyVars
  <1>4. CASE /\ session.status[picked] \in Open
             /\ Saved(Mark(session, picked, "dispatching"))
             /\ pc' = "publishing" /\ claim' = picked
    <2>1. /\ session'.intent = session.intent
          /\ session'.status[picked] = "dispatching"
          /\ \A q \in Key \ {picked} : session'.status[q] = session.status[q]
      BY <1>1, <1>4, MovesOne DEF Open, Terminal
    <2>2. OneClaim'
      BY <1>1, <1>2, <1>3, <1>4, <2>1 DEF OneClaim
    <2>3. MadeOnce'
      <3>1. \A k \in contacts : k # picked
        BY <1>2, <1>4 DEF Open, Terminal
      <3> QED BY <1>2, <1>3, <2>1, <3>1 DEF MadeOnce
    <2>4. Calm'
      BY <1>2, <1>3, <1>4, <2>1 DEF Calm, Exempt
    <2> QED BY <2>2, <2>3, <2>4
  <1>5. CASE /\ Saved(session) \/ Saved(Mark(session, picked, "cancelled"))
             /\ pc' = "idle" /\ claim' = claim
    <2>1. \A q \in Key : session'.status[q] \in {session.status[q], "cancelled"}
          /\ (session.status[q] \in Terminal => session'.status[q] = session.status[q])
      <3>1. CASE Saved(session)
        BY <3>1 DEF Saved
      <3>2. CASE Saved(Mark(session, picked, "cancelled"))
        BY <1>1, <3>2, MovesOne
      <3> QED BY <1>5, <3>1, <3>2
    <2>2. OneClaim' /\ MadeOnce'
      BY <1>2, <1>3, <1>5, <2>1 DEF OneClaim, MadeOnce, InFlight
    <2>3. Calm'
      BY <1>2, <1>3, <1>5 DEF Calm
    <2> QED BY <2>2, <2>3
  <1>6. CASE pc' = "idle" /\ UNCHANGED <<session, claim>>
    BY <1>2, <1>3, <1>6 DEF OneClaim, MadeOnce, Calm, InFlight
  <1> QED BY <1>4, <1>5, <1>6 DEF Prepare

\* Delivering and settling it keeps it.
LEMMA HandleInv ==
    ASSUME IInv, Handle \/ Fail \/ Rollback
    PROVE  OneClaim' /\ MadeOnce' /\ Calm'
  <1>1. CASE Prepare
    BY <1>1, PrepareInv
  <1>2. CASE Validate \/ Fail
    <2>1. /\ UNCHANGED <<session, lapsed, cooling, claim, contacts, recent>>
          /\ pc \in {"publishing", "building"} /\ pc' \in {"building", "undelivered"}
      BY <1>2 DEF Validate, Fail, Quietly, clockVars, historyVars
    <2> QED BY <2>1 DEF IInv, OneClaim, MadeOnce, Calm, Exempt, InFlight
  <1>3. CASE Refuse
    <2>1. /\ TypeOK /\ claim \in Key
          /\ UNCHANGED <<lapsed, cooling, claim, contacts, recent>>
          /\ pc \in {"publishing", "building"} /\ pc' = "undelivered"
      BY <1>3 DEF IInv, TypeInv, Places, InFlight, Refuse, Quietly, clockVars, historyVars
    <2>2. \A q \in Key : session'.status[q] \in {session.status[q], "cancelled"}
          /\ (session.status[q] \in Terminal => session'.status[q] = session.status[q])
      <3>1. CASE Saved(session)
        BY <3>1 DEF Saved
      <3>2. CASE Saved(Mark(session, claim, "cancelled"))
        BY <2>1, <3>2, MovesOne
      <3> QED BY <1>3, <3>1, <3>2 DEF Refuse
    <2>3. OneClaim'
      BY <2>1, <2>2 DEF IInv, OneClaim, InFlight, Terminal
    <2>4. MadeOnce'
      BY <2>1, <2>2 DEF IInv, MadeOnce, TypeOK
    <2>5. Calm'
      BY <2>1 DEF IInv, Calm
    <2> QED BY <2>3, <2>4, <2>5
  <1>4. CASE Enqueue
    <2>1. /\ UNCHANGED <<session, lapsed, claim>> /\ contacts' = contacts \cup {claim}
          /\ pc = "building" /\ pc' = "waking"
      BY <1>4 DEF Enqueue, Saved, clockVars
    <2> QED BY <2>1 DEF IInv, OneClaim, MadeOnce, Calm, InFlight
  <1>5. CASE Wake
    <2>1. /\ UNCHANGED <<session, lapsed, cooling, claim, contacts, recent>>
          /\ pc = "waking" /\ pc' = "delivered"
      BY <1>5 DEF Wake, Quietly, clockVars, historyVars
    <2> QED BY <2>1 DEF IInv, OneClaim, MadeOnce, Calm, InFlight
  <1>6. CASE Rollback
    <2>1. /\ UNCHANGED <<session, lapsed, cooling, claim>>
          /\ contacts' = contacts \ {claim} /\ recent' = cooling
          /\ pc = "waking" /\ pc' = "undelivered"
      BY <1>6 DEF Rollback, Saved, clockVars
    <2> QED BY <2>1 DEF IInv, OneClaim, MadeOnce, Calm, InFlight
  <1>7. CASE SettleDelivered
    <2>1. /\ session'.status[claim] \in Terminal
          /\ \A q \in Key \ {claim} : session'.status[q] = session.status[q]
      BY <1>7, SettledSession DEF IInv, Terminal
    <2>2. /\ claim \in Key /\ claim' = NoKey /\ UNCHANGED <<lapsed, contacts>>
          /\ cooling' = TRUE /\ pc = "delivered" /\ pc' = "idle"
      BY <1>7 DEF IInv, TypeInv, Places, InFlight, SettleDelivered, historyVars
    <2>3. OneClaim'
      BY <2>1, <2>2 DEF IInv, OneClaim, InFlight, Terminal
    <2>4. MadeOnce'
      BY <2>1, <2>2 DEF IInv, MadeOnce, TypeInv, TypeOK
    <2>5. Calm'
      BY <2>2 DEF Calm
    <2> QED BY <2>3, <2>4, <2>5
  <1>8. CASE SettleUndelivered
    <2>1. /\ TypeOK /\ claim \in Key /\ claim' = NoKey
          /\ UNCHANGED <<lapsed, cooling, contacts, recent>>
          /\ pc = "undelivered" /\ pc' = "idle"
      BY <1>8 DEF IInv, TypeInv, Places, InFlight, SettleUndelivered, Quietly,
           clockVars, historyVars
    <2>2. /\ session'.status[claim] = IF session.status[claim] = "dispatching"
                                        THEN "queued" ELSE session.status[claim]
          /\ \A q \in Key \ {claim} : session'.status[q] = session.status[q]
      <3>1. CASE session.status[claim] = "dispatching"
        BY <1>8, <2>1, <3>1, MovesOne DEF SettleUndelivered, Terminal
      <3>2. CASE session.status[claim] # "dispatching"
        BY <1>8, <3>2 DEF SettleUndelivered, Saved
      <3> QED BY <3>1, <3>2
    <2>3. OneClaim'
      BY <2>1, <2>2 DEF IInv, OneClaim, InFlight
    <2>4. MadeOnce'
      BY <2>1, <2>2 DEF IInv, MadeOnce, TypeOK, Terminal
    <2>5. Calm'
      BY <2>1 DEF IInv, Calm
    <2> QED BY <2>3, <2>4, <2>5
  <1> QED BY <1>1, <1>2, <1>3, <1>4, <1>5, <1>6, <1>7, <1>8 DEF Handle

\* So does every step, unless a crash comes between,
LEMMA StepInv ==
    ASSUME MaxCrashes = 0, IInv, [Next]_vars
    PROVE  IInv'
  <1>1. TypeInv'
    BY StepTypes DEF IInv
  <1>2. ~Crash
    BY DEF Crash, IInv, TypeInv, TypeOK
  <1>3. CASE UNCHANGED vars
    BY <1>3 DEF vars, clockVars, thinkerVars, boundVars, historyVars, IInv, TypeInv,
         TypeOK, Places, OneClaim, MadeOnce, Calm, Exempt
  <1> QED BY <1>1, <1>2, <1>3, ConversationInv, TimeInv, CheckInv, HandleInv DEF IInv, Next

\* and it holds throughout.
LEMMA Invariance == MaxCrashes = 0 => (Spec => []IInv)
  <1> SUFFICES ASSUME MaxCrashes = 0 PROVE Spec => []IInv
    OBVIOUS
  <1>1. IInv /\ [Next]_vars => IInv'
    BY StepInv
  <1> QED BY InitInv, <1>1, PTL DEF Spec
-----------------------------------------------------------------------------
(* What a contact comes from.                                              *)

\* Only a claim that has been validated twice makes the bot write.
LEMMA ContactIsEnqueue ==
    ASSUME TypeInv, [Next]_vars, NEW k \in Key, Contacted(k)
    PROVE  Enqueue /\ k = claim
  <1>1. contacts' # contacts
    BY DEF Contacted
  <1>2. ~Conversation
    BY <1>1, ConversationTalks DEF TypeInv, Talks, historyVars
  <1>3. ~Time
    BY <1>1 DEF Time, Cool, Due, Lapse, Ticks
  <1>4. ~Check
    BY <1>1, CheckFacts DEF TypeInv, Checked, historyVars
  <1>5. ~Rollback
    BY DEF Rollback, Contacted
  <1>6. Handle => Enqueue
    BY <1>1 DEF Handle, Prepare, Validate, Refuse, Wake, SettleDelivered, SettleUndelivered,
         Quietly, historyVars
  <1>7. ~Fail /\ ~Crash /\ ~UNCHANGED vars
    BY <1>1 DEF Fail, Crash, vars, historyVars
  <1>8. Enqueue
    BY <1>2, <1>3, <1>4, <1>5, <1>6, <1>7 DEF Next
  <1> QED BY <1>8 DEF Enqueue, Contacted

\* A message of the user's that is in the session when the trigger is queued
\* stops a contact that was to continue or break a silence, whenever it came:
\* between the check, the claim and the two validations, crashes included.
THEOREM NeverStale == Spec => NoStaleContact
  <1>1. TypeInv /\ [Next]_vars =>
          [\A k \in Key : Contacted(k) /\ k \in Cancellable(session) => k \notin session.older]_vars
    <2> SUFFICES ASSUME TypeInv, [Next]_vars, NEW k \in Key, Contacted(k),
                        k \in Cancellable(session)
                 PROVE  k \notin session.older
      OBVIOUS
    <2> QED BY ContactIsEnqueue DEF Enqueue, Valid, Overtaken
  <1>2. TypeInv /\ [Next]_vars => TypeInv'
    BY StepTypes
  <1> QED BY InitTypes, <1>1, <1>2, PTL DEF Spec, NoStaleContact

\* The gate is looked at when the candidate is selected, the message goes out
\* several steps later: nothing that happens in between brings two contacts
\* closer than min_interval, deliveries that fail or are taken back included.
THEOREM KeepsDistance == MaxCrashes = 0 => (Spec => SpacedOut)
  <1> SUFFICES ASSUME MaxCrashes = 0 PROVE Spec => SpacedOut
    OBVIOUS
  <1>1. IInv /\ [Next]_vars =>
          [\A k \in Key : Contacted(k) /\ recent =>
              \/ k[1] = "schedule"
              \/ k[1] = "intent" /\ session.intent[k[2]] = "commitment"]_vars
    <2> SUFFICES ASSUME IInv, [Next]_vars, NEW k \in Key, Contacted(k), recent
                 PROVE  Exempt(session, k)
      BY DEF Exempt
    <2>1. Enqueue /\ k = claim
      BY ContactIsEnqueue DEF IInv
    <2> QED BY <2>1 DEF Enqueue, IInv, Calm
  <1> QED BY Invariance, <1>1, PTL DEF Spec, SpacedOut
-----------------------------------------------------------------------------
(* The thinker keeps what Outreach promises.                               *)

Stage(status) ==
    CASE status = "none" -> "new"
      [] status \in Open -> "open"
      [] status = "dispatching" -> "claimed"
      [] OTHER -> "closed"

\* The stage of every reason.
Stages == [k \in Key |-> Stage(session.status[k])]

\* The stage that a status is.
LEMMA Stagewise ==
    ASSUME NEW status \in Status
    PROVE  /\ Stage(status) \in {"new", "open", "claimed", "closed"}
           /\ Stage(status) = "new" <=> status = "none"
           /\ Stage(status) = "open" <=> status \in Open
           /\ Stage(status) = "claimed" <=> status = "dispatching"
           /\ Stage(status) = "closed" <=> status \in Terminal
  BY DEF Stage, Status, Open, Terminal

\* The variables of the abstract life.
LEMMA Life == TheOutreach!outreachVars = <<Stages, contacts>>
  BY DEF TheOutreach!outreachVars, Stages, Stage

\* At the start every reason is new and none was acted upon.
LEMMA InitRefines == Init => TheOutreach!Init
  <1> SUFFICES ASSUME Init PROVE TheOutreach!Init
    OBVIOUS
  <1>1. \A k \in Key : Stage(session.status[k]) = "new"
    <2>1. \A k \in Key : session.status[k] = "none"
      BY DEF Init, NewSession
    <2>2. "none" \in Status
      BY DEF Status
    <2> QED BY <2>1, <2>2, Stagewise
  <1>2. Stages = [k \in Key |-> "new"] /\ contacts = {}
    BY <1>1 DEF Stages, Init
  <1> QED BY <1>2 DEF TheOutreach!Init, Stages, Stage

\* How the steps of Outreach read for the stages.
LEMMA ATidy ==
    ASSUME TypeOK, TypeOK', contacts' = contacts,
           \A k \in Key : session'.status[k] # session.status[k] =>
              \/ Stages[k] = "new" /\ Stages'[k] \in {"open", "closed"}
              \/ Stages[k] \in {"open", "claimed"} /\ Stages'[k] = "closed"
              \/ Stages[k] = Stages'[k]
    PROVE  TheOutreach!Next
  <1>1. \A k \in Key : session.status[k] \in Status /\ session'.status[k] \in Status
    BY Fields DEF TypeOK
  <1>2. Stages' \in [Key -> {"new", "open", "claimed", "closed"}]
    BY <1>1, Stagewise DEF Stages
  <1>3. \A k \in Key : Stages'[k] # Stages[k] =>
           \/ Stages[k] = "new" /\ Stages'[k] \in {"open", "closed"}
           \/ Stages[k] \in {"open", "claimed"} /\ Stages'[k] = "closed"
    <2> SUFFICES ASSUME NEW k \in Key, Stages'[k] # Stages[k]
                 PROVE  \/ Stages[k] = "new" /\ Stages'[k] \in {"open", "closed"}
                        \/ Stages[k] \in {"open", "claimed"} /\ Stages'[k] = "closed"
      OBVIOUS
    <2>1. session'.status[k] # session.status[k]
      BY DEF Stages
    <2> QED BY <2>1
  <1>4. TheOutreach!Tidy
    BY <1>2, <1>3 DEF TheOutreach!Tidy, Stages, Stage
  <1> QED BY <1>4 DEF TheOutreach!Next

\* What one reason may do is a step of the abstract life.
LEMMA AMoves ==
    ASSUME NEW r \in Key
    PROVE  /\ /\ Stages[r] = "open" /\ \A q \in Key : Stages[q] # "claimed"
              /\ Stages' = [Stages EXCEPT ![r] = "claimed"] /\ contacts' = contacts
              => TheOutreach!Next
           /\ /\ Stages[r] = "claimed" /\ r \notin contacts
              /\ Stages' = Stages /\ contacts' = contacts \cup {r}
              => TheOutreach!Next
           /\ /\ Stages[r] \in {"claimed", "closed"}
              /\ Stages' = Stages /\ contacts' = contacts \ {r}
              => TheOutreach!Next
           /\ /\ Stages[r] = "claimed" /\ r \notin contacts
              /\ Stages' = [Stages EXCEPT ![r] = "open"] /\ contacts' = contacts
              => TheOutreach!Next
  <1> USE DEF TheOutreach!Next, TheOutreach!Move, Stages, Stage
  <1>1. /\ Stages[r] = "open" /\ \A q \in Key : Stages[q] # "claimed"
        /\ Stages' = [Stages EXCEPT ![r] = "claimed"] /\ contacts' = contacts
        => TheOutreach!Claim(r)
    BY DEF TheOutreach!Claim
  <1>2. /\ Stages[r] = "claimed" /\ r \notin contacts
        /\ Stages' = Stages /\ contacts' = contacts \cup {r}
        => TheOutreach!Contact(r)
    BY DEF TheOutreach!Contact
  <1>3. /\ Stages[r] \in {"claimed", "closed"}
        /\ Stages' = Stages /\ contacts' = contacts \ {r}
        => TheOutreach!Withdraw(r)
    BY DEF TheOutreach!Withdraw
  <1>4. /\ Stages[r] = "claimed" /\ r \notin contacts
        /\ Stages' = [Stages EXCEPT ![r] = "open"] /\ contacts' = contacts
        => TheOutreach!Release(r)
    BY DEF TheOutreach!Release
  <1> QED BY <1>1, <1>2, <1>3, <1>4

\* The stage of one reason changes with its status alone.
LEMMA OneStage ==
    ASSUME TypeOK, TypeOK', NEW r \in Key,
           \A q \in Key \ {r} : session'.status[q] = session.status[q]
    PROVE  Stages' = [Stages EXCEPT ![r] = Stage(session'.status[r])]
  BY DEF Stages

\* A step that leaves the session alone leaves the stages.
LEMMA SameStages ==
    ASSUME session' = session
    PROVE  Stages' = Stages
  BY DEF Stages

\* The steps that only tidy, seen through the statuses.
LEMMA TidyRefines ==
    ASSUME TypeOK, TypeOK', contacts' = contacts,
           \A k \in Key :
              \/ Goes(session.status[k], session'.status[k])
              \/ session.status[k] = "dispatching" /\ session'.status[k] \in Terminal
    PROVE  TheOutreach!Next
  <1>1. \A k \in Key : session.status[k] \in Status /\ session'.status[k] \in Status
    BY Fields DEF TypeOK
  <1>2. ASSUME NEW k \in Key, session'.status[k] # session.status[k]
        PROVE  \/ Stages[k] = "new" /\ Stages'[k] \in {"open", "closed"}
               \/ Stages[k] \in {"open", "claimed"} /\ Stages'[k] = "closed"
               \/ Stages[k] = Stages'[k]
    <2>1. Stages[k] = Stage(session.status[k]) /\ Stages'[k] = Stage(session'.status[k])
      BY DEF Stages
    <2>2. CASE Goes(session.status[k], session'.status[k])
      BY <1>1, <1>2, <2>1, <2>2, Stagewise DEF Goes
    <2>3. CASE session.status[k] = "dispatching" /\ session'.status[k] \in Terminal
      BY <1>1, <2>1, <2>3, Stagewise
    <2> QED BY <1>2, <2>2, <2>3
  <1> QED BY <1>2, ATidy

\* Every step maps to one of it or to a stutter.
LEMMA StepRefines ==
    ASSUME MaxCrashes = 0, IInv, [Next]_vars
    PROVE  [TheOutreach!Next]_TheOutreach!outreachVars
  <1>0. TypeOK /\ IInv' /\ TypeOK'
    BY StepInv DEF IInv, TypeInv
  <1>s. ASSUME session' = session, contacts' = contacts
        PROVE  UNCHANGED TheOutreach!outreachVars
    BY <1>s DEF TheOutreach!outreachVars
  <1>k. \A k \in Key : session.status[k] \in Status /\ session'.status[k] \in Status
    BY <1>0, Fields DEF TypeOK
  <1>1. CASE Conversation
    <2>1. contacts' = contacts /\ \A k \in Key : session'.status[k] # session.status[k] =>
             session.status[k] \in Open \cup {"dispatching"} /\ session'.status[k] = "cancelled"
      BY <1>0, <1>1, ConversationTalks DEF Talks, historyVars
    <2> QED BY <1>0, <2>1, TidyRefines DEF Goes, Terminal
  <1>2. CASE Time
    BY <1>2, <1>s DEF Time, Cool, Due, Lapse, Ticks
  <1>3. CASE Check
    <2>1. contacts' = contacts /\ \A k \in Key : Goes(session.status[k], session'.status[k])
      BY <1>0, <1>3, CheckFacts DEF Checked, historyVars, Tidying, Tidier, IInv, OneClaim
    <2> QED BY <1>0, <2>1, TidyRefines
  <1>4. CASE Prepare
    <2>1. /\ picked \in Key /\ \A k \in Key : session.status[k] # "dispatching"
          /\ contacts' = contacts
      BY <1>4, Keys DEF Prepare, IInv, TypeInv, Places, OneClaim, InFlight, historyVars
    <2>2. CASE session.status[picked] \in Open /\ Saved(Mark(session, picked, "dispatching"))
      <3>1. /\ session'.status[picked] = "dispatching"
            /\ \A q \in Key \ {picked} : session'.status[q] = session.status[q]
        BY <1>0, <2>1, <2>2, MovesOne DEF Open, Terminal
      <3>2. Stages' = [Stages EXCEPT ![picked] = "claimed"]
        BY <1>0, <1>k, <2>1, <3>1, OneStage, Stagewise
      <3>3. Stages[picked] = "open" /\ \A q \in Key : Stages[q] # "claimed"
        BY <1>k, <2>1, <2>2, Stagewise DEF Stages
      <3> QED BY <2>1, <3>2, <3>3, AMoves
    <2>3. CASE Saved(Mark(session, picked, "cancelled")) /\ Overtaken(session, picked)
      <3>1. \A q \in Key : session'.status[q] # session.status[q] =>
              q = picked /\ session'.status[q] = "cancelled" /\ session.status[q] \notin Terminal
        BY <1>0, <2>1, <2>3, MovesOne
      <3>2. ASSUME NEW q \in Key PROVE Goes(session.status[q], session'.status[q])
        BY <1>k, <2>1, <3>1 DEF Goes, Status, Open, Terminal
      <3> QED BY <1>0, <2>1, <3>2, TidyRefines
    <2>4. CASE session' = session
      BY <1>s, <2>1, <2>4
    <2> QED BY <1>4, <2>2, <2>3, <2>4 DEF Prepare, Saved
  <1>5. CASE Validate \/ Wake \/ Fail
    BY <1>5, <1>s DEF Validate, Wake, Fail, Quietly, historyVars
  <1>6. CASE Refuse
    <2>1. claim \in Key /\ contacts' = contacts
          /\ session.status[claim] \in {"dispatching"} \cup Terminal
      BY <1>6 DEF Refuse, IInv, TypeInv, Places, OneClaim, InFlight, Quietly, historyVars
    <2>2. CASE Saved(session)
      BY <1>s, <2>1, <2>2 DEF Saved
    <2>3. CASE Saved(Mark(session, claim, "cancelled"))
      <3>1. \A q \in Key : session'.status[q] # session.status[q] =>
              q = claim /\ session'.status[q] = "cancelled" /\ session.status[q] \notin Terminal
        BY <1>0, <2>1, <2>3, MovesOne
      <3> QED BY <1>0, <2>1, <3>1, TidyRefines DEF Goes, Terminal
    <2> QED BY <1>6, <2>2, <2>3 DEF Refuse
  <1>7. CASE Enqueue
    <2>1. /\ claim \in Key /\ session.status[claim] = "dispatching" /\ session' = session
          /\ contacts' = contacts \cup {claim} /\ pc = "building"
      BY <1>7 DEF Enqueue, Valid, Saved, IInv, TypeInv, Places, InFlight
    <2>2. claim \notin contacts
      BY <2>1 DEF IInv, MadeOnce, Terminal
    <2>3. Stages[claim] = "claimed" /\ Stages' = Stages
      BY <1>k, <2>1, Stagewise, SameStages DEF Stages
    <2> QED BY <2>1, <2>2, <2>3, AMoves
  <1>8. CASE Rollback
    <2>1. /\ claim \in Key /\ session.status[claim] \in {"dispatching"} \cup Terminal
          /\ session' = session /\ contacts' = contacts \ {claim}
      BY <1>8 DEF Rollback, Saved, IInv, TypeInv, Places, OneClaim, InFlight
    <2>2. Stages[claim] \in {"claimed", "closed"} /\ Stages' = Stages
      BY <1>k, <2>1, Stagewise, SameStages DEF Stages
    <2> QED BY <2>1, <2>2, AMoves
  <1>9. CASE SettleDelivered
    <2>1. /\ claim \in Key /\ contacts' = contacts
          /\ session.status[claim] \in {"dispatching"} \cup Terminal
      BY <1>9 DEF SettleDelivered, IInv, TypeInv, Places, OneClaim, InFlight, historyVars
    <2>2. /\ session'.status[claim] = IF session.status[claim] \in Terminal
                                        THEN session.status[claim] ELSE "sent"
          /\ \A q \in Key \ {claim} : session'.status[q] = session.status[q]
      BY <1>9, SettledSession DEF IInv
    <2> QED BY <1>0, <2>1, <2>2, TidyRefines DEF Goes, Terminal
  <1>10. CASE SettleUndelivered
    <2>1. claim \in Key /\ contacts' = contacts /\ pc = "undelivered"
      BY <1>10 DEF SettleUndelivered, IInv, TypeInv, Places, InFlight, Quietly, historyVars
    <2>2. CASE session.status[claim] = "dispatching"
      <3>1. /\ session'.status[claim] = "queued"
            /\ \A q \in Key \ {claim} : session'.status[q] = session.status[q]
        BY <1>0, <1>10, <2>1, <2>2, MovesOne DEF SettleUndelivered, Terminal
      <3>2. Stages[claim] = "claimed" /\ claim \notin contacts
        BY <1>k, <2>1, <2>2, Stagewise DEF Stages, IInv, MadeOnce, Terminal
      <3>3. Stages' = [Stages EXCEPT ![claim] = "open"]
        BY <1>0, <1>k, <2>1, <3>1, OneStage, Stagewise DEF Open
      <3> QED BY <2>1, <3>2, <3>3, AMoves
    <2>3. CASE session.status[claim] # "dispatching"
      BY <1>s, <1>10, <2>1, <2>3 DEF SettleUndelivered, Saved
    <2> QED BY <2>2, <2>3
  <1>11. ~Crash
    BY <1>0 DEF Crash, TypeOK
  <1>12. CASE UNCHANGED vars
    BY <1>12, <1>s DEF vars, historyVars
  <1> QED BY <1>1, <1>2, <1>3, <1>4, <1>5, <1>6, <1>7, <1>8, <1>9, <1>10, <1>11, <1>12
          DEF Next, Handle

\* A reason is claimed by one attempt at a time, acted upon at most once, given
\* back only if the user has not been contacted, and once closed never taken up
\* again, in any order of the user's messages, the clock, the check, the claim,
\* the handler's validations and failures, and the settlement.
THEOREM ImplementsOutreach == MaxCrashes = 0 => (Spec => OutreachSpec)
  <1> SUFFICES ASSUME MaxCrashes = 0 PROVE Spec => OutreachSpec
    OBVIOUS
  <1>1. Spec => []IInv
    BY Invariance
  <1>2. Init => TheOutreach!Init
    BY InitRefines
  <1>3. IInv /\ [Next]_vars => [TheOutreach!Next]_TheOutreach!outreachVars
    BY StepRefines
  <1> QED BY <1>1, <1>2, <1>3, PTL DEF Spec, OutreachSpec, TheOutreach!Spec
=============================================================================
