---------------------------- MODULE MemoryProofs ----------------------------
(***************************************************************************)
(* Proofs about what is remembered, for any number of messages, clears and *)
(* compressions, however they interleave and whatever the clear handler    *)
(* could not stop.                                                         *)
(***************************************************************************)
EXTENDS Memory, TLAPS

\* The times of messages.
Stamps == Nat \ {0}

Sessions ==
    [cleared : Nat, context : SUBSET Nat, summary : SUBSET Nat, rounds : Nat,
     marked : BOOLEAN, scene : SUBSET Nat, story : (SUBSET Stamps) \cup {NoStory},
     register : {"reality", "story"}, hold : BOOLEAN]

JobStates == {"idle", "made", "marked", "asked", "distil"}

Typed ==
    /\ clock \in Nat
    /\ messages \subseteq Nat /\ unread \subseteq Stamps
    /\ session \in Sessions
    /\ slot \in [state : {"empty", "running", "done"}, of : SUBSET Stamps]
    /\ jobs \in [Jobs -> [state : JobStates, since : Nat, covers : SUBSET Nat]]
    /\ clear \in [state : {"no", "stopped", "reset"}, at : Nat]

\* A clear has a time of its own: no message is of that time.
Tick(c) == c <= clock /\ c \notin messages

Ticks ==
    /\ \A m \in messages : 1 <= m /\ m <= clock
    /\ Tick(session.cleared) /\ Tick(clear.at)
    /\ \A j \in Jobs : Tick(jobs[j].since)

\* What a job is asked to summarise came after the clear it knows of.
Asked ==
    \A j \in Jobs : jobs[j].state = "asked" =>
        \A m \in jobs[j].covers : m > jobs[j].since

IInv == Typed /\ Ticks /\ Asked /\ NoOldSummary /\ StoryThere

-----------------------------------------------------------------------------
\* The invariant holds at the start.
LEMMA InitInv == Init => IInv
  <1> SUFFICES ASSUME Init PROVE IInv
    OBVIOUS
  <1>1. session = Forgotten(0)
    BY DEF Init
  <1>2. Typed
    BY <1>1 DEF Init, Typed, Forgotten, Sessions, Stamps, NoSlot, NoJob, JobStates
  <1>3. Ticks /\ Asked /\ NoOldSummary /\ StoryThere
    BY <1>1 DEF Init, Ticks, Tick, Asked, NoOldSummary, StoryThere, Forgotten, NoJob
  <1> QED BY <1>2, <1>3 DEF IInv

\* What an appraisal must leave as it is, or true.
Fine(s) ==
    /\ s \in Sessions
    /\ s.cleared = session.cleared /\ s.summary = session.summary
    /\ s.context = session.context
    /\ s.register = "story" => s.story # NoStory

\* A shift of the register leaves the rest alone, and a story is told in a story.
LEMMA FramedFine ==
    ASSUME IInv, NEW e
    PROVE  Fine(Framed(e))
  <1> USE DEF IInv, Typed, Sessions, Fine, NoStory, Stamps
  <1>1. Fine(Enter)
    BY DEF Enter
  <1>2. Fine(Resume)
    BY DEF Resume, StoryThere
  <1>3. Fine(Pause)
    BY DEF Pause
  <1>4. Fine(Exit)
    BY DEF Exit
  <1>5. Fine(session)
    BY DEF StoryThere
  <1> HIDE DEF Fine
  <1> QED BY <1>1, <1>2, <1>3, <1>4, <1>5 DEF Framed

\* Facts that are recorded, and a pause that is put off, leave it so.
LEMMA RecordedFine ==
    ASSUME NEW s, Fine(s), NEW facts \in SUBSET Stamps, NEW defer \in BOOLEAN
    PROVE  Fine([Recorded(s, facts) EXCEPT !.hold = defer])
  <1> USE DEF Fine, Sessions, NoStory, Stamps
  <1>1. CASE s.register = "story"
    <2>1. s.story \cup facts \in SUBSET Stamps
      BY <1>1
    <2>2. Recorded(s, facts) = [s EXCEPT !.story = s.story \cup facts]
      BY <1>1 DEF Recorded
    <2> QED BY <1>1, <2>1, <2>2
  <1>2. CASE s.register # "story"
    <2>1. Recorded(s, facts) = [s EXCEPT !.scene = s.scene \cup facts]
      BY <1>2 DEF Recorded
    <2> QED BY <1>2, <2>1
  <1> QED BY <1>1, <1>2

\* An appraisal changes the worlds and nothing of what clearing is about, and
\* leaves the story register with a story.
LEMMA HarvestFine ==
    ASSUME IInv, NEW h \in Harvests
    PROVE  Fine(h.s)
  <1>1. CASE slot.state # "done"
    BY <1>1 DEF Harvests, Fine, IInv, Typed, StoryThere
  <1>2. CASE slot.state = "done"
    <2>1. PICK e \in Events, r \in Registers, facts \in {{}, slot.of}, defer \in BOOLEAN :
            h.s = [Recorded(Framed(Shift(e, r)), facts) EXCEPT !.hold = defer]
      BY <1>2 DEF Harvests
    <2>2. facts \in SUBSET Stamps
      BY DEF IInv, Typed
    <2> QED BY <2>1, <2>2, FramedFine, RecordedFine
  <1> QED BY <1>1, <1>2

\* Steps that change the session as an appraisal does keep the invariant, when
\* the context only gains messages.
LEMMA TurnInv ==
    ASSUME IInv, NEW s, Fine(s), NEW more \in SUBSET Nat,
           session' = [s EXCEPT !.hold = FALSE, !.context = s.context \cup more] \/ session' = s,
           UNCHANGED <<clock, messages, jobs, clear>>,
           unread' \in SUBSET Stamps,
           slot' \in [state : {"empty", "running", "done"}, of : SUBSET Stamps]
    PROVE  IInv'
  <1> USE DEF IInv
  <1>1. /\ session' \in Sessions
        /\ session'.cleared = session.cleared /\ session'.summary = session.summary
        /\ session'.register = "story" => session'.story # NoStory
    BY DEF Fine, Sessions
  <1>2. Typed'
    BY <1>1 DEF Typed
  <1>3. Ticks' /\ Asked' /\ NoOldSummary' /\ StoryThere'
    BY <1>1 DEF Ticks, Tick, Asked, NoOldSummary, New, StoryThere
  <1> QED BY <1>2, <1>3

\* Steps that leave the worlds alone.
LEMMA CountInv ==
    ASSUME IInv, session' \in Sessions,
           session'.cleared = session.cleared, session'.summary = session.summary,
           session'.register = session.register, session'.story = session.story,
           UNCHANGED <<clock, messages, slot>>,
           unread' \in SUBSET Stamps,
           clear' \in [state : {"no", "stopped", "reset"}, at : {clear.at}],
           jobs' \in [Jobs -> [state : JobStates, since : Nat, covers : SUBSET Nat]],
           \A j \in Jobs : /\ jobs'[j].since \in {0, session.cleared, jobs[j].since}
                           /\ jobs'[j].state = "asked" =>
                                \A m \in jobs'[j].covers : m > jobs'[j].since
    PROVE  IInv'
  <1> USE DEF IInv
  <1>1. Typed'
    BY DEF Typed
  <1>2. Ticks'
    BY DEF Ticks, Tick, Typed
  <1>3. Asked' /\ NoOldSummary' /\ StoryThere'
    BY DEF Asked, NoOldSummary, New, StoryThere
  <1> QED BY <1>1, <1>2, <1>3

\* Each step keeps the invariant,
LEMMA StepInv == IInv /\ [Next]_vars => IInv'
  <1> SUFFICES ASSUME IInv, [Next]_vars PROVE IInv'
    OBVIOUS
  <1>s. session \in Sessions /\ Fine(session)
    BY DEF IInv, Typed, Fine, StoryThere
  <1>e. NoSlot \in [state : {"empty", "running", "done"}, of : SUBSET Stamps]
    BY DEF NoSlot
  <1>n. NoJob \in [state : JobStates, since : Nat, covers : SUBSET Nat]
    BY DEF NoJob, JobStates
  <1>0. CASE UNCHANGED vars
    BY <1>0 DEF vars, IInv, Typed, Ticks, Tick, Asked, NoOldSummary, New, StoryThere
  <1>1. CASE Arrive
    <2>1. Typed'
      BY <1>1 DEF Arrive, IInv, Typed, Stamps
    <2>2. Ticks'
      BY <1>1 DEF Arrive, IInv, Typed, Sessions, Ticks, Tick
    <2>3. Asked' /\ NoOldSummary' /\ StoryThere'
      BY <1>1 DEF Arrive, IInv, Asked, NoOldSummary, New, StoryThere
    <2> QED BY <2>1, <2>2, <2>3 DEF IInv
  <1>2. CASE Defer
    <2>1. PICK h \in Harvests : session' = h.s
      BY <1>2 DEF Defer
    <2>2. Fine(h.s)
      BY HarvestFine
    <2> QED BY <1>2, <1>e, <2>1, <2>2, TurnInv DEF Defer, IInv, Typed
  <1>3. CASE Prepare
    <2>1. PICK h \in Harvests :
            session' = [h.s EXCEPT !.hold = FALSE, !.context = h.s.context \cup unread]
      BY <1>3 DEF Prepare
    <2>2. Fine(h.s)
      BY HarvestFine
    <2>3. slot' \in [state : {"empty", "running", "done"}, of : SUBSET Stamps] /\ unread \in SUBSET Nat
      BY <1>3, <1>e DEF Prepare, IInv, Typed, Stamps
    <2> QED BY <1>3, <2>1, <2>2, <2>3, TurnInv DEF Prepare
  <1>4. CASE Appraised
    <2>1. slot' \in [state : {"empty", "running", "done"}, of : SUBSET Stamps]
      BY <1>4, <1>e DEF Appraised, IInv, Typed
    <2> QED BY <1>4, <1>s, <2>1, TurnInv DEF Appraised, IInv, Typed
  <1>5. CASE Answered
    <2>1. PICK h \in Harvests : session' = h.s
      BY <1>5 DEF Answered
    <2>2. Fine(h.s)
      BY HarvestFine
    <2> QED BY <1>5, <1>e, <2>1, <2>2, TurnInv DEF Answered, IInv, Typed
  <1>6. CASE Commit
    <2>1. /\ session' \in Sessions
          /\ session'.cleared = session.cleared /\ session'.summary = session.summary
          /\ session'.register = session.register /\ session'.story = session.story
      BY <1>6, <1>s, MemoryAssumption DEF Commit, Sessions
    <2>2. jobs' = jobs \/ \E j \in Jobs : jobs' = [jobs EXCEPT ![j].state = "made"]
      BY <1>6 DEF Commit, Scheduled, Idle
    <2>3. /\ jobs' \in [Jobs -> [state : JobStates, since : Nat, covers : SUBSET Nat]]
          /\ \A j \in Jobs : jobs'[j].since = jobs[j].since /\ jobs'[j].covers = jobs[j].covers
                             /\ (jobs'[j].state = "asked" => jobs[j].state = "asked")
      BY <2>2 DEF IInv, Typed, JobStates
    <2> QED BY <1>6, <2>1, <2>3, CountInv DEF Commit, IInv, Typed, Asked
  <1>7. ASSUME NEW j \in Jobs, Job(j) PROVE IInv'
    <2>a. /\ jobs[j] \in [state : JobStates, since : Nat, covers : SUBSET Nat]
          /\ \A k \in Jobs : jobs[k].state = "asked" => \A m \in jobs[k].covers : m > jobs[k].since
      BY DEF IInv, Typed, Asked
    <2>1. CASE JobStarts(j)
      <3>1. /\ session' \in Sessions
            /\ session'.cleared = session.cleared /\ session'.summary = session.summary
            /\ session'.register = session.register /\ session'.story = session.story
        BY <2>1, <1>s DEF JobStarts, Sessions
      <3> DEFINE new == [jobs[j] EXCEPT !.state = "marked", !.since = session.cleared]
      <3>a. new \in [state : JobStates, since : Nat, covers : SUBSET Nat]
        BY <2>a, <1>s DEF JobStates, Sessions
      <3>b. jobs' = [jobs EXCEPT ![j] = new]
        BY <2>1 DEF JobStarts, IInv, Typed
      <3>2. jobs' \in [Jobs -> [state : JobStates, since : Nat, covers : SUBSET Nat]]
        <4> HIDE DEF new
        <4> QED BY <3>a, <3>b DEF IInv, Typed
      <3>3. \A k \in Jobs : /\ jobs'[k].since \in {0, session.cleared, jobs[k].since}
                            /\ jobs'[k].state = "asked" => jobs'[k] = jobs[k]
        BY <2>1 DEF JobStarts, IInv, Typed
      <3> QED BY <2>1, <2>a, <3>1, <3>2, <3>3, CountInv DEF JobStarts, IInv, Typed
    <2>2. CASE JobReads(j)
      <3> DEFINE covers == {m \in messages : m >= jobs[j].since}
      <3>1. \A m \in covers : m > jobs[j].since
        BY <2>a DEF IInv, Ticks, Tick, Typed
      <3>2. covers \in SUBSET Nat
        BY DEF IInv, Typed
      <3>3. jobs' = [jobs EXCEPT ![j] = NoJob]
            \/ jobs' = [jobs EXCEPT ![j] = [jobs[j] EXCEPT !.state = "asked", !.covers = covers]]
        BY <2>2 DEF JobReads
      <3> HIDE DEF covers
      <3> DEFINE new == [jobs[j] EXCEPT !.state = "asked", !.covers = covers]
      <3>5. /\ new \in [state : JobStates, since : Nat, covers : SUBSET Nat]
            /\ new.since = jobs[j].since /\ new.covers = covers
        BY <3>2, <2>a DEF JobStates
      <3> HIDE DEF new
      <3>6. jobs' = [jobs EXCEPT ![j] = NoJob] \/ jobs' = [jobs EXCEPT ![j] = new]
        BY <3>3 DEF new
      <3>4. /\ jobs' \in [Jobs -> [state : JobStates, since : Nat, covers : SUBSET Nat]]
            /\ \A k \in Jobs : k # j => jobs'[k] = jobs[k]
            /\ jobs'[j] = NoJob \/ (jobs'[j].since = jobs[j].since /\ jobs'[j].covers = covers)
        BY <3>5, <3>6, <1>n DEF IInv, Typed
      <3> QED BY <2>2, <2>a, <1>s, <3>1, <3>4, CountInv DEF JobReads, IInv, Typed, NoJob
    <2>3. CASE JobEnds(j)
      <3>1. /\ jobs' \in [Jobs -> [state : JobStates, since : Nat, covers : SUBSET Nat]]
            /\ \A k \in Jobs : jobs'[k] \in {NoJob, jobs[k]}
        BY <2>3, <1>n DEF JobEnds, IInv, Typed
      <3> QED BY <2>3, <2>a, <1>s, <3>1, CountInv DEF JobEnds, IInv, Typed, NoJob
    <2>4. CASE JobWrites(j)
      <3>1. CASE session.cleared > jobs[j].since
        <4>1. /\ jobs' \in [Jobs -> [state : JobStates, since : Nat, covers : SUBSET Nat]]
              /\ \A k \in Jobs : jobs'[k] \in {NoJob, jobs[k]}
          BY <2>4, <3>1, <1>n DEF JobWrites, IInv, Typed
        <4> QED BY <2>4, <2>a, <3>1, <1>s, <4>1, CountInv DEF JobWrites, IInv, Typed, NoJob
      <3>2. CASE ~(session.cleared > jobs[j].since)
        <4>1. /\ session' = [session EXCEPT !.summary = jobs[j].covers, !.rounds = 0, !.marked = TRUE]
              /\ jobs' = [jobs EXCEPT ![j].state = "distil"]
              /\ UNCHANGED <<clock, messages, unread, slot, clear>>
          BY <2>4, <3>2 DEF JobWrites
        <4>2. \A m \in jobs[j].covers : m > session.cleared
          BY <2>4, <3>2, <2>a, <1>s DEF JobWrites, Sessions
        <4>3. Typed' /\ session'.summary = jobs[j].covers /\ session'.cleared = session.cleared
              /\ session'.register = session.register /\ session'.story = session.story
          BY <4>1, <1>s, <2>a DEF IInv, Typed, Sessions, JobStates
        <4>4. /\ \A k \in Jobs : /\ jobs'[k].since = jobs[k].since /\ jobs'[k].covers = jobs[k].covers
                                 /\ jobs'[k].state = "asked" => jobs[k].state = "asked"
          BY <4>1 DEF IInv, Typed
        <4>5. Ticks' /\ Asked'
          BY <4>1, <4>3, <4>4 DEF IInv, Ticks, Tick, Asked
        <4>6. NoOldSummary' /\ StoryThere'
          BY <4>2, <4>3 DEF IInv, NoOldSummary, New, StoryThere
        <4> QED BY <4>3, <4>5, <4>6 DEF IInv
      <3> QED BY <3>1, <3>2
    <2> QED BY <1>7, <2>1, <2>2, <2>3, <2>4 DEF Job
  <1>8. CASE Elapse
    <2>1. /\ session' \in Sessions
          /\ session'.cleared = session.cleared /\ session'.summary = session.summary
          /\ session'.register = session.register /\ session'.story = session.story
      BY <1>8, <1>s DEF Elapse, Sessions
    <2> QED BY <1>8, <2>1, CountInv DEF Elapse, IInv, Typed, Asked
  <1>9. CASE Quiesce
    <2>1. /\ jobs' \in [Jobs -> [state : JobStates, since : Nat, covers : SUBSET Nat]]
          /\ \A k \in Jobs : jobs'[k] \in {NoJob, jobs[k]}
      BY <1>9, <1>n DEF Quiesce, IInv, Typed
    <2>2. clear' \in [state : {"no", "stopped", "reset"}, at : {clear.at}]
      BY <1>9 DEF Quiesce, IInv, Typed
    <2> QED BY <1>9, <1>s, <2>1, <2>2, CountInv DEF Quiesce, IInv, Typed, Asked, NoJob
  <1>10. CASE Boundary
    <2>1. /\ clock' = clock + 1 /\ clear' = [state |-> "reset", at |-> clock + 1]
          /\ unread' \in SUBSET Stamps /\ UNCHANGED <<messages, session, slot, jobs>>
      BY <1>10 DEF Boundary, IInv, Typed
    <2>2. Typed'
      BY <2>1 DEF IInv, Typed
    <2>3. Ticks'
      BY <2>1, <1>s DEF IInv, Typed, Ticks, Tick, Sessions
    <2>4. Asked' /\ NoOldSummary' /\ StoryThere'
      BY <2>1 DEF IInv, Asked, NoOldSummary, New, StoryThere
    <2> QED BY <2>2, <2>3, <2>4 DEF IInv
  <1>11. CASE Reset
    <2>1. /\ session' = Forgotten(clear.at) /\ clear' = [clear EXCEPT !.state = "no"]
          /\ UNCHANGED <<clock, messages, unread, slot, jobs>>
      BY <1>11 DEF Reset
    <2>2. Typed'
      BY <2>1 DEF IInv, Typed, Sessions, Forgotten
    <2>3. Ticks'
      BY <2>1 DEF IInv, Typed, Ticks, Tick, Forgotten
    <2>4. Asked' /\ NoOldSummary' /\ StoryThere'
      BY <2>1 DEF IInv, Asked, NoOldSummary, New, StoryThere, Forgotten
    <2> QED BY <2>2, <2>3, <2>4 DEF IInv
  <1> QED BY <1>0, <1>1, <1>2, <1>3, <1>4, <1>5, <1>6, <1>7, <1>8, <1>9, <1>10, <1>11 DEF Next

\* so that it holds throughout.
LEMMA Invariance == Spec => []IInv
  BY InitInv, StepInv, PTL DEF Spec

-----------------------------------------------------------------------------
\* A compression that began before a clear never brings what was cleared back
\* into the summary, whether or not the clear handler could cancel it.
THEOREM SummaryForgets == Spec => []NoOldSummary
  <1>1. IInv => NoOldSummary
    BY DEF IInv
  <1> QED BY <1>1, Invariance, PTL

\* Through events, votes and clears the story register has a story.
THEOREM RegisterHasStory == Spec => []StoryThere
  <1>1. IInv => StoryThere
    BY DEF IInv
  <1> QED BY <1>1, Invariance, PTL

-----------------------------------------------------------------------------
(* What is cleared is gone from the records and the requests.              *)

\* No loop that saw cleared messages goes on, and none starts before the reset.
Clean ==
    /\ run \in [on : BOOLEAN, turn : BOOLEAN, view : SUBSET Nat] /\ stale \in BOOLEAN
    /\ run.turn => run.on
    /\ ~run.on => run.view = {}
    /\ ~stale =>
         /\ clear.state = "no" =>
              \A m \in unread \cup session.context \cup run.view : m > session.cleared
         /\ clear.state # "no" => ~run.on
         /\ clear.state = "reset" => \A m \in unread : m > clear.at

\* At the start nothing was cleared,
LEMMA InitClean == Init => Clean
  <1> SUFFICES ASSUME Init PROVE Clean
    OBVIOUS
  <1>1. /\ run = [on |-> FALSE, turn |-> FALSE, view |-> {}] /\ stale = FALSE
        /\ unread = {} /\ session.context = {} /\ clear.state = "no"
    BY DEF Init, NoRun, Forgotten
  <1> QED BY <1>1 DEF Clean

\* and no step brings back what was.
LEMMA StepClean ==
    ASSUME IInv, Clean, [Next]_vars
    PROVE  Clean'
  <1>s. session \in Sessions /\ clock \in Nat /\ clear \in [state : {"no", "stopped", "reset"}, at : Nat]
        /\ unread \in SUBSET Stamps
    BY DEF IInv, Typed
  <1>r. run \in [on : BOOLEAN, turn : BOOLEAN, view : SUBSET Nat] /\ stale \in BOOLEAN
    BY DEF Clean
  <1>0. CASE UNCHANGED vars
    BY <1>0 DEF vars, Clean
  <1>1. CASE Arrive
    <2>1. clock + 1 > session.cleared /\ clock + 1 > clear.at
      BY <1>s DEF IInv, Ticks, Tick, Sessions
    <2> QED BY <1>1, <2>1 DEF Arrive, Clean
  <1>2. CASE Defer \/ Prepare
    <2>1. PICK h \in Harvests :
            /\ session'.context = h.s.context \/ session'.context = h.s.context \cup unread
            /\ session'.cleared = h.s.cleared
      <3>1. \A h \in Harvests : h.s \in Sessions
        BY HarvestFine DEF Fine
      <3> QED BY <1>2, <3>1 DEF Defer, Prepare, Sessions
    <2>2. /\ session'.context \subseteq session.context \cup unread
          /\ session'.cleared = session.cleared
      BY <2>1, HarvestFine DEF Fine
    <2>3. PICK view \in SUBSET Nat, turn \in BOOLEAN :
            /\ view \subseteq View \cup unread \cup session.summary
            /\ Loop(TRUE, turn, view)
      <3>1. View \in SUBSET Nat
        BY <1>s, <1>r DEF View, Sessions
      <3> QED BY <1>2, <1>s, <3>1 DEF Defer, Prepare, Sessions, Stamps
    <2>4. ~stale /\ clear.state = "no" =>
            \A m \in View \cup unread \cup session.summary \cup session.context : m > session.cleared
      BY DEF Clean, View, IInv, NoOldSummary, New
    <2>5. unread' \subseteq unread /\ clear' = clear
      BY <1>2 DEF Defer, Prepare
    <2>6. /\ run' = [on |-> TRUE, turn |-> turn, view |-> view]
          /\ stale' = (stale \/ (~run.on /\ clear.state # "no"))
      BY <2>3 DEF Loop
    <2>7. ~stale' => ~stale /\ clear.state = "no"
      BY <2>6 DEF Clean
    <2> QED BY <1>r, <2>2, <2>3, <2>4, <2>5, <2>6, <2>7 DEF Clean
  <1>3. CASE Answered
    <2>1. session'.context = session.context /\ session'.cleared = session.cleared
      BY <1>3, HarvestFine DEF Answered, Fine
    <2> QED BY <1>3, <2>1 DEF Answered, Clean
  <1>4. CASE Commit
    <2>1. session'.context = session.context /\ session'.cleared = session.cleared
      BY <1>4, <1>s DEF Commit, Sessions
    <2>2. run.turn /\ run.on
      BY <1>4 DEF Commit, Clean
    <2>3. \/ run' = [on |-> TRUE, turn |-> FALSE, view |-> run.view]
          \/ run' = [on |-> FALSE, turn |-> FALSE, view |-> {}]
      BY <1>4 DEF Commit, Loop
    <2>4. stale' = stale /\ UNCHANGED <<unread, clear>>
      BY <1>4, <1>r, <2>2 DEF Commit, Loop
    <2>5. /\ run'.turn => run'.on
          /\ ~run'.on => run'.view = {}
          /\ run'.view \subseteq run.view
          /\ run' \in [on : BOOLEAN, turn : BOOLEAN, view : SUBSET Nat]
      <3>1. run.view \in SUBSET Nat
        BY <1>r
      <3>2. CASE run' = [on |-> TRUE, turn |-> FALSE, view |-> run.view]
        BY <3>1, <3>2
      <3>3. CASE run' = [on |-> FALSE, turn |-> FALSE, view |-> {}]
        BY <3>3
      <3> QED BY <2>3, <3>2, <3>3
    <2> QED BY <1>r, <2>1, <2>2, <2>4, <2>5 DEF Clean
  <1>5. CASE Appraised
    BY <1>5 DEF Appraised, Clean
  <1>6. CASE Elapse \/ \E j \in Jobs : Job(j)
    <2>1. session'.context = session.context /\ session'.cleared = session.cleared
      BY <1>6, <1>s DEF Elapse, Job, JobStarts, JobReads, JobWrites, JobEnds, Sessions
    <2>2. UNCHANGED <<unread, run, clear, stale>>
      BY <1>6 DEF Elapse, Job, JobStarts, JobReads, JobWrites, JobEnds
    <2> QED BY <2>1, <2>2 DEF Clean
  <1>7. CASE Quiesce
    <2>1. /\ UNCHANGED <<unread, session>> /\ clear' = [clear EXCEPT !.state = "stopped"]
          /\ \/ run' = NoRun /\ stale' = FALSE
             \/ run' = run /\ stale' = run.on
      BY <1>7 DEF Quiesce
    <2>2. clear'.state = "stopped"
      BY <1>s, <2>1
    <2>3. CASE run' = NoRun /\ stale' = FALSE
      <3>1. /\ run' \in [on : BOOLEAN, turn : BOOLEAN, view : SUBSET Nat]
            /\ ~run'.on /\ ~run'.turn /\ run'.view = {}
        BY <2>3 DEF NoRun
      <3> QED BY <2>2, <2>3, <3>1 DEF Clean
    <2>4. CASE run' = run /\ stale' = run.on
      <3>1. stale' \in BOOLEAN
        BY <1>r, <2>4
      <3> QED BY <2>2, <2>4, <3>1 DEF Clean
    <2> QED BY <2>1, <2>3, <2>4
  <1>8. CASE Boundary
    <2>1. /\ UNCHANGED <<run, session>> /\ clear'.state = "reset" /\ clear.state = "stopped"
          /\ \/ unread' = {} /\ stale' = stale
             \/ unread' = unread /\ stale' = TRUE
      BY <1>8 DEF Boundary
    <2> QED BY <1>r, <2>1 DEF Clean
  <1>9. CASE Reset
    <2>1. UNCHANGED <<unread, run, stale>> /\ clear'.state = "no" /\ clear.state = "reset"
          /\ session'.context = {} /\ session'.cleared = clear.at
      BY <1>9, <1>s DEF Reset, Forgotten
    <2> QED BY <1>r, <2>1 DEF Clean
  <1> QED BY <1>0, <1>1, <1>2, <1>3, <1>4, <1>5, <1>6, <1>7, <1>8, <1>9 DEF Next

\* When the clear handler could stop the loop and none began again before the
\* reset, no record and no request shows a message from before the clear,
\* however often messages, turns, jobs and clears come.
THEOREM ClearedIsGone == Spec => []CleanAfterClear
  <1>1. Clean /\ IInv /\ [Next]_vars => Clean'
    BY StepClean
  <1>2. Clean => CleanAfterClear
    BY DEF Clean, CleanAfterClear, New
  <1> QED BY InitClean, <1>1, <1>2, Invariance, PTL DEF Spec

-----------------------------------------------------------------------------
(* What a batch tells is recorded once.                                    *)

Tale(s) == IF s.story = NoStory THEN {} ELSE s.story

\* Nothing tells of message m, in a session and the stories that ended.
Untold(s, old, m) ==
    /\ m \notin s.scene /\ m \notin Tale(s)
    /\ \A i \in DOMAIN old : m \notin old[i]

\* The real world and the stories have no message in common.
Distinct(s, old) ==
    /\ old \in Seq(SUBSET Stamps)
    /\ s.scene \cap Tale(s) = {}
    /\ \A i \in DOMAIN old : \A m \in old[i] : m \notin s.scene /\ m \notin Tale(s)
    /\ \A i, k \in DOMAIN old : k # i => old[i] \cap old[k] = {}

\* What is to be recorded has not been, and neither has what is to come.
Apart ==
    /\ Distinct(session, archive)
    /\ \A m \in unread : Untold(session, archive, m) /\ m \notin slot.of
    /\ \A m \in slot.of : Untold(session, archive, m)
    /\ \A m \in Nat : m > clock =>
          Untold(session, archive, m) /\ m \notin unread /\ m \notin slot.of

\* A shift of register makes up nothing, and ends a story only in an exit.
LEMMA FramedTells ==
    ASSUME IInv, NEW v
    PROVE  /\ Framed(v).scene = session.scene
           /\ Tale(Framed(v)) \subseteq Tale(session)
           /\ v = "exit" => Tale(Framed(v)) = {}
  <1> USE DEF IInv, Typed, Sessions, Tale
  <1>1. Enter.scene = session.scene /\ Tale(Enter) \subseteq Tale(session)
    BY DEF Enter
  <1>2. Resume.scene = session.scene /\ Tale(Resume) \subseteq Tale(session)
    BY DEF Resume
  <1>3. Pause.scene = session.scene /\ Tale(Pause) \subseteq Tale(session)
    BY DEF Pause
  <1>4. Exit.scene = session.scene /\ Tale(Exit) = {}
    BY DEF Exit
  <1> HIDE DEF IInv, Typed, Sessions, Tale
  <1> QED BY <1>1, <1>2, <1>3, <1>4 DEF Framed

\* A story that ends is kept beside the others, as it was.
LEMMA KeptApart ==
    ASSUME NEW s, NEW t, NEW old, Distinct(s, old), s.story \in (SUBSET Stamps) \cup {NoStory},
           t.scene = s.scene, Tale(t) = {}
    PROVE  /\ Distinct(t, Kept(old, s.story))
           /\ \A m : Untold(s, old, m) => Untold(t, Kept(old, s.story), m)
  <1>1. CASE s.story \in {NoStory, {}}
    BY <1>1 DEF Kept, Distinct, Untold
  <1>2. CASE s.story \notin {NoStory, {}}
    <2> DEFINE all == Append(old, s.story)
    <2>1. /\ s.story \in SUBSET Stamps /\ Tale(s) = s.story
          /\ old \in Seq(SUBSET Stamps) /\ Len(old) \in Nat
          /\ DOMAIN old = 1 .. Len(old)
      BY <1>2 DEF Tale, Distinct
    <2>2. /\ all \in Seq(SUBSET Stamps) /\ Len(all) = Len(old) + 1
          /\ \A i \in 1 .. Len(old) : all[i] = old[i]
          /\ all[Len(old) + 1] = s.story
          /\ DOMAIN all = 1 .. Len(old) + 1
      BY <2>1
    <2> HIDE DEF all
    <2>3. Distinct(t, all)
      <3>1. ASSUME NEW i \in DOMAIN all, NEW m \in all[i]
            PROVE  m \notin t.scene /\ m \notin Tale(t)
        BY <2>1, <2>2 DEF Distinct
      <3>2. ASSUME NEW i \in DOMAIN all, NEW k \in DOMAIN all, k # i
            PROVE  all[i] \cap all[k] = {}
        BY <2>1, <2>2, <3>2 DEF Distinct
      <3> QED BY <2>2, <3>1, <3>2 DEF Distinct
    <2>4. \A m : Untold(s, old, m) => Untold(t, all, m)
      BY <2>1, <2>2 DEF Untold
    <2>5. /\ Tail(all) \in Seq(SUBSET Stamps)
          /\ DOMAIN Tail(all) = 1 .. Len(old)
          /\ \A i \in 1 .. Len(old) : Tail(all)[i] = all[i + 1] /\ i + 1 \in DOMAIN all
      BY <2>1, <2>2
    <2>6. Distinct(t, Tail(all))
      <3>1. ASSUME NEW i \in DOMAIN Tail(all), NEW m \in Tail(all)[i]
            PROVE  m \notin t.scene /\ m \notin Tale(t)
        BY <2>3, <2>5 DEF Distinct
      <3>2. ASSUME NEW i \in DOMAIN Tail(all), NEW k \in DOMAIN Tail(all), k # i
            PROVE  Tail(all)[i] \cap Tail(all)[k] = {}
        <4>1. /\ i + 1 \in DOMAIN all /\ k + 1 \in DOMAIN all /\ k + 1 # i + 1
              /\ Tail(all)[i] = all[i + 1] /\ Tail(all)[k] = all[k + 1]
          BY <2>1, <2>5, <3>2
        <4>2. \A p, q \in DOMAIN all : q # p => all[p] \cap all[q] = {}
          BY <2>3 DEF Distinct
        <4>3. all[i + 1] \cap all[k + 1] = {}
          BY <4>1, <4>2
        <4> QED BY <4>1, <4>3
      <3> QED BY <2>3, <2>5, <3>1, <3>2 DEF Distinct
    <2>7. \A m : Untold(t, all, m) => Untold(t, Tail(all), m)
      BY <2>5 DEF Untold
    <2>8. Kept(old, s.story) \in {all, Tail(all)}
      BY <1>2 DEF Kept, all
    <2> QED BY <2>3, <2>4, <2>6, <2>7, <2>8
  <1> QED BY <1>1, <1>2

\* The batch's facts are added to the world that is active.
LEMMA RecordedApart ==
    ASSUME NEW s, NEW old, Fine(s), Distinct(s, old), NEW facts \in SUBSET Stamps,
           NEW defer \in BOOLEAN, \A m \in facts : Untold(s, old, m)
    PROVE  LET t == [Recorded(s, facts) EXCEPT !.hold = defer]
           IN  /\ Distinct(t, old)
               /\ \A m : Untold(s, old, m) /\ m \notin facts => Untold(t, old, m)
  <1> DEFINE t == [Recorded(s, facts) EXCEPT !.hold = defer]
  <1>a. s \in Sessions /\ s.story \in (SUBSET Stamps) \cup {NoStory}
    BY DEF Fine, Sessions
  <1>1. CASE s.register = "story"
    <2>1. s.story \in SUBSET Stamps /\ s.story # NoStory
      BY <1>1, <1>a DEF Fine
    <2>2. t.scene = s.scene /\ t.story = s.story \cup facts
      BY <1>1, <1>a, <2>1 DEF Recorded, Sessions
    <2>3. t.story # NoStory
      BY <2>1, <2>2 DEF NoStory, Stamps
    <2>4. Tale(t) = Tale(s) \cup facts
      BY <2>1, <2>2, <2>3 DEF Tale
    <2> HIDE DEF t
    <2>5. /\ Distinct(t, old)
          /\ \A m : Untold(s, old, m) /\ m \notin facts => Untold(t, old, m)
      BY <2>2, <2>4 DEF Distinct, Untold
    <2> QED BY <2>5 DEF t
  <1>2. CASE s.register # "story"
    <2>1. t.scene = s.scene \cup facts /\ t.story = s.story
      BY <1>2, <1>a DEF Recorded, Sessions
    <2>2. Tale(t) = Tale(s)
      BY <2>1 DEF Tale
    <2> HIDE DEF t
    <2>5. /\ Distinct(t, old)
          /\ \A m : Untold(s, old, m) /\ m \notin facts => Untold(t, old, m)
      BY <2>1, <2>2 DEF Distinct, Untold
    <2> QED BY <2>5 DEF t
  <1> QED BY <1>1, <1>2

\* What an appraisal leaves: worlds apart, told of what they told and of its batch.
LEMMA HarvestApart ==
    ASSUME IInv, Apart, NEW h \in Harvests
    PROVE  /\ Distinct(h.s, h.old)
           /\ \A m : Untold(session, archive, m) /\ m \notin slot.of => Untold(h.s, h.old, m)
  <1>1. CASE slot.state # "done"
    BY <1>1 DEF Harvests, Apart
  <1>2. CASE slot.state = "done"
    <2>1. PICK e \in Events, r \in Registers, facts \in {{}, slot.of}, defer \in BOOLEAN :
            /\ h.s = [Recorded(Framed(Shift(e, r)), facts) EXCEPT !.hold = defer]
            /\ h.old = IF e = "exit" THEN Kept(archive, session.story) ELSE archive
      BY <1>2 DEF Harvests
    <2> DEFINE s == Framed(Shift(e, r))
    <2>2. Fine(s) /\ s.scene = session.scene /\ Tale(s) \subseteq Tale(session)
          /\ (e = "exit" => Tale(s) = {})
      BY FramedFine, FramedTells DEF Shift
    <2> HIDE DEF s
    <2>3. /\ Distinct(s, h.old)
          /\ \A m : Untold(session, archive, m) => Untold(s, h.old, m)
      <3>1. CASE e = "exit"
        <4>1. session.story \in (SUBSET Stamps) \cup {NoStory}
          BY DEF IInv, Typed, Sessions
        <4> QED BY <2>1, <2>2, <3>1, <4>1, KeptApart DEF Apart
      <3>2. CASE e # "exit"
        BY <2>1, <2>2, <3>2 DEF Apart, Distinct, Untold
      <3> QED BY <3>1, <3>2
    <2>4. facts \in SUBSET Stamps /\ \A m \in facts : Untold(s, h.old, m)
      BY <2>3 DEF IInv, Typed, Apart
    <2>5. /\ Distinct(h.s, h.old)
          /\ \A m : Untold(s, h.old, m) /\ m \notin facts => Untold(h.s, h.old, m)
      BY <2>1, <2>2, <2>3, <2>4, RecordedApart DEF s
    <2>6. facts \subseteq slot.of
      OBVIOUS
    <2> QED BY <2>3, <2>5, <2>6
  <1> QED BY <1>1, <1>2

\* At the start there is no fact,
LEMMA InitApart == Init => Apart
  <1> SUFFICES ASSUME Init PROVE Apart
    OBVIOUS
  <1>1. /\ session.scene = {} /\ Tale(session) = {} /\ archive = <<>>
        /\ slot.of = {} /\ unread = {}
    BY DEF Init, Forgotten, NoSlot, Tale
  <1>2. Distinct(session, archive)
    BY <1>1 DEF Distinct
  <1>3. \A m : Untold(session, archive, m)
    BY <1>1 DEF Untold
  <1> QED BY <1>1, <1>2, <1>3 DEF Apart

\* A harvest followed by what the loop does with the batches.
LEMMA TurnApart ==
    ASSUME IInv, Apart, NEW h \in Harvests,
           session'.scene = h.s.scene, session'.story = h.s.story, archive' = h.old,
           clock' = clock,
           \/ unread' = unread /\ slot'.of = {}
           \/ unread' = {} /\ slot'.of \subseteq unread
    PROVE  Apart'
  <1>1. /\ Distinct(h.s, h.old)
        /\ \A m : Untold(session, archive, m) /\ m \notin slot.of => Untold(h.s, h.old, m)
    BY HarvestApart
  <1>2. Distinct(session', archive') /\ \A m : Untold(h.s, h.old, m) => Untold(session', archive', m)
    BY <1>1 DEF Distinct, Untold, Tale
  <1>3. \A m : Untold(session', archive', m) <=> Untold(session, archive, m)'
    BY DEF Untold, Tale
  <1>4. Distinct(session, archive)'
    BY <1>2 DEF Distinct, Tale
  <1> QED BY <1>1, <1>2, <1>3, <1>4 DEF Apart

\* Steps that record nothing.
LEMMA StillApart ==
    ASSUME Apart, session'.scene = session.scene, session'.story = session.story,
           UNCHANGED archive, clock' \in {clock, clock + 1}, clock \in Nat,
           \A m \in unread' : m \in unread \/ (m = clock' /\ clock' = clock + 1),
           slot'.of \subseteq slot.of
    PROVE  Apart'
  <1>1. \A m : Untold(session, archive, m)' <=> Untold(session, archive, m)
    BY DEF Untold, Tale
  <1>2. Distinct(session, archive)'
    BY DEF Apart, Distinct, Tale
  <1>3. \A m \in Nat : m > clock => Untold(session, archive, m) /\ m \notin unread /\ m \notin slot.of
    BY DEF Apart
  <1>4. ASSUME NEW m \in unread' PROVE Untold(session, archive, m) /\ m \notin slot'.of
    BY <1>3 DEF Apart
  <1>5. ASSUME NEW m \in Nat, m > clock'
        PROVE  Untold(session, archive, m) /\ m \notin unread' /\ m \notin slot'.of
    <2>1. m > clock /\ m # clock'
      BY <1>5
    <2> QED BY <1>3, <2>1
  <1>6. \A m \in slot'.of : Untold(session, archive, m)
    BY DEF Apart
  <1> QED BY <1>1, <1>2, <1>4, <1>5, <1>6 DEF Apart

\* and no step records one twice.
LEMMA StepApart ==
    ASSUME IInv, Apart, [Next]_vars
    PROVE  Apart'
  <1>s. session \in Sessions /\ clock \in Nat
        /\ slot \in [state : {"empty", "running", "done"}, of : SUBSET Stamps]
    BY DEF IInv, Typed
  <1>h. \A h \in Harvests : h.s \in Sessions
    BY HarvestFine DEF Fine
  <1>0. CASE UNCHANGED vars
    BY <1>0, <1>s, StillApart DEF vars
  <1>1. CASE Arrive
    BY <1>1, <1>s, StillApart DEF Arrive
  <1>2. CASE Defer \/ Answered
    <2>1. PICK h \in Harvests : session' = h.s /\ archive' = h.old
      BY <1>2 DEF Defer, Answered
    <2>2. clock' = clock /\ unread' = unread /\ slot'.of = {}
      <3>1. clock' = clock /\ unread' = unread /\ slot' = NoSlot
        BY <1>2 DEF Defer, Answered
      <3>2. NoSlot.of = {}
        BY DEF NoSlot
      <3> QED BY <3>1, <3>2
    <2> QED BY <2>1, <2>2, TurnApart
  <1>3. CASE Prepare
    <2>1. PICK h \in Harvests :
            /\ session' = [h.s EXCEPT !.hold = FALSE, !.context = h.s.context \cup unread]
            /\ archive' = h.old
      BY <1>3 DEF Prepare
    <2>2. session'.scene = h.s.scene /\ session'.story = h.s.story
      BY <1>h, <2>1 DEF Sessions
    <2>3. clock' = clock /\ unread' = {} /\ slot'.of \subseteq unread
      BY <1>3 DEF Prepare, NoSlot
    <2> QED BY <2>1, <2>2, <2>3, TurnApart
  <1>4. CASE Appraised
    <2>1. slot'.of \subseteq slot.of
      BY <1>4, <1>s DEF Appraised, NoSlot
    <2> QED BY <1>4, <1>s, <2>1, StillApart DEF Appraised
  <1>5. CASE Commit \/ Elapse \/ \E j \in Jobs : Job(j)
    <2>1. session'.scene = session.scene /\ session'.story = session.story
      BY <1>5, <1>s DEF Commit, Elapse, Job, JobStarts, JobReads, JobWrites, JobEnds, Sessions
    <2>2. UNCHANGED <<archive, clock, unread, slot>>
      BY <1>5 DEF Commit, Elapse, Job, JobStarts, JobReads, JobWrites, JobEnds
    <2> QED BY <1>s, <2>1, <2>2, StillApart
  <1>6. CASE Quiesce
    BY <1>6, <1>s, StillApart DEF Quiesce
  <1>7. CASE Boundary
    <2>1. /\ clock' = clock + 1 /\ UNCHANGED <<session, archive, slot>>
          /\ unread' \subseteq unread
      BY <1>7 DEF Boundary
    <2> QED BY <1>s, <2>1, StillApart
  <1>8. CASE Reset
    <2>1. /\ session'.scene = {} /\ Tale(session') = {}
          /\ UNCHANGED <<archive, clock, unread, slot>>
      BY <1>8 DEF Reset, Forgotten, Tale
    <2>2. Distinct(session', archive')
      BY <2>1 DEF Apart, Distinct
    <2>3. \A m : Untold(session, archive, m) => Untold(session', archive', m)
      BY <2>1 DEF Untold
    <2>4. Distinct(session, archive)' /\ \A m : Untold(session', archive', m) <=> Untold(session, archive, m)'
      BY <2>2 DEF Distinct, Untold, Tale
    <2> QED BY <2>1, <2>3, <2>4 DEF Apart
  <1> QED BY <1>0, <1>1, <1>2, <1>3, <1>4, <1>5, <1>6, <1>7, <1>8 DEF Next

\* Whatever the appraisals say, in any order with the turns and clears, what a
\* batch tells is recorded in the real world or in one story, and stays in that
\* one when the story is paused, resumed or put away.
THEOREM RecordedOnce == Spec => []FactsApart
  <1>1. Apart /\ IInv /\ [Next]_vars => Apart'
    BY StepApart
  <1>2. Apart => FactsApart
    <2> SUFFICES ASSUME Apart PROVE FactsApart
      OBVIOUS
    <2>1. Tale(session) = Story
      BY DEF Tale, Story
    <2> QED BY <2>1 DEF Apart, Distinct, FactsApart
  <1> QED BY InitApart, <1>1, <1>2, Invariance, PTL DEF Spec
=============================================================================
