------------------------------- MODULE Memory -------------------------------
(***************************************************************************)
(* What one stream remembers beside its turns, and how it forgets:         *)
(* services/summary_service.py and compressor.py (the summary, written by  *)
(* background jobs), services/appraisal.py and domain/world.py (what a     *)
(* second model read out of a batch, for the real or the story's world),   *)
(* and handlers/context_clear_handler.py with NFCSession.reset_context     *)
(* (the clear command).                                                    *)
(*                                                                         *)
(* What is remembered is the times of the messages it tells of.  A store   *)
(* operation is one step, see SessionStore; a crash is left to TurnLoop.   *)
(***************************************************************************)
EXTENDS Integers, FiniteSets, Sequences

CONSTANTS
    Jobs,         \* bound: the compressions under way at once
    EveryRounds,  \* compress_every_n_rounds
    KeptStories,  \* _MAX_STORY_ARCHIVE
    MaxClock      \* bound: messages and clears

ASSUME MemoryAssumption ==
    /\ EveryRounds \in Nat \ {0} /\ KeptStories \in Nat \ {0} /\ MaxClock \in Nat

VARIABLES
    clock,     \* the time, which messages and clears move
    messages,  \* the times of the messages in the database
    unread,    \* the messages no turn has taken yet
    run,       \* the loop: on, in a turn or not, and what its requests show
    session,   \* the fields of the session, see Forgotten
    archive,   \* story_archive: the stories that ended
    votes,     \* _register_mismatch_count
    slot,      \* _s1_task: the batch being appraised
    jobs,      \* the compressions
    clear,     \* how far the clear handler is
    stale      \* history: a loop that saw cleared messages was not stopped

vars == <<clock, messages, unread, run, session, archive, votes, slot, jobs, clear, stale>>

Times == 1 .. MaxClock

\* There is no story: no message is of time 0.
NoStory == {0}

NoRun  == [on |-> FALSE, turn |-> FALSE, view |-> {}]
NoSlot == [state |-> "empty", of |-> {}]
NoJob  == [state |-> "idle", since |-> 0, covers |-> {}]

\* What reset_context leaves.
Forgotten(cleared) == [
    cleared  |-> cleared,    \* context_cleared_at
    context  |-> {},         \* mental_log and chain_payloads
    summary  |-> {},         \* history_summary
    rounds   |-> 0,          \* compress_round_count
    marked   |-> FALSE,      \* last_compress_at is recent
    scene    |-> {},         \* scene_state
    story    |-> NoStory,    \* story_world
    register |-> "reality",  \* active_register
    hold     |-> FALSE]      \* respond_not_before

TypeOK ==
    /\ clock \in 0 .. MaxClock
    /\ messages \subseteq Times /\ unread \subseteq Times
    /\ run \in [on : BOOLEAN, turn : BOOLEAN, view : SUBSET Times]
    /\ session \in [cleared : 0 .. MaxClock, context : SUBSET Times, summary : SUBSET Times,
                    rounds : 0 .. EveryRounds, marked : BOOLEAN, scene : SUBSET Times,
                    story : (SUBSET Times) \cup {NoStory}, register : {"reality", "story"},
                    hold : BOOLEAN]
    /\ archive \in Seq(SUBSET Times) /\ Len(archive) <= KeptStories
    /\ votes \in {0, 1}
    /\ slot \in [state : {"empty", "running", "done"}, of : SUBSET Times]
    /\ jobs \in [Jobs -> [state : {"idle", "made", "marked", "asked", "distil"},
                          since : 0 .. MaxClock, covers : SUBSET Times]]
    /\ clear \in [state : {"no", "stopped", "reset"}, at : 0 .. MaxClock]
    /\ stale \in BOOLEAN

Init ==
    /\ clock = 0 /\ messages = {} /\ unread = {}
    /\ run = NoRun
    /\ session = Forgotten(0)
    /\ archive = <<>> /\ votes = 0 /\ slot = NoSlot
    /\ jobs = [j \in Jobs |-> NoJob]
    /\ clear = [state |-> "no", at |-> 0]
    /\ stale = FALSE

-----------------------------------------------------------------------------
(* The registers: what an appraisal does to the two worlds.                *)

\* WorldTracker.apply_frame_event: the session after an event.
Enter  == [session EXCEPT !.register = "story", !.story = IF @ = NoStory THEN {} ELSE @]
Resume == IF session.story = NoStory THEN session ELSE [session EXCEPT !.register = "story"]
Pause  == [session EXCEPT !.register = "reality"]
Exit   == [session EXCEPT !.register = "reality", !.story = NoStory]

Framed(event) ==
    CASE event = "enter"  -> Enter
      [] event = "resume" -> Resume
      [] event = "pause"  -> Pause
      [] event = "exit"   -> Exit
      [] OTHER            -> session

\* The stories that are kept: an empty one is not worth it.
Kept(old, story) ==
    IF story \in {NoStory, {}} THEN old
    ELSE LET all == Append(old, story)
         IN  IF Len(all) > KeptStories THEN Tail(all) ELSE all

\* An appraisal names an event, or the register it thinks the batch is in: the
\* register changes when two in a row think so.
Shift(event, register) ==
    IF event # "none" THEN event
    ELSE IF register \notin {"unsaid", session.register} /\ votes = 1
         THEN IF register = "story" THEN "enter" ELSE "pause"
         ELSE "none"

Votes(event, register) ==
    IF event = "none" /\ register \notin {"unsaid", session.register} /\ votes = 0 THEN 1 ELSE 0

\* What the batch tells goes to the world that is active after the shift.
Recorded(s, facts) ==
    IF s.register = "story" THEN [s EXCEPT !.story = @ \cup facts]
    ELSE [s EXCEPT !.scene = @ \cup facts]

Events    == {"none", "enter", "pause", "resume", "exit"}
Registers == {"unsaid", "reality", "story"}

\* harvest_pending_appraisal: what may have come of the appraisal.
Harvests ==
    IF slot.state # "done" THEN {[s |-> session, old |-> archive, votes |-> votes]}
    ELSE {[s     |-> [Recorded(Framed(Shift(e, r)), facts) EXCEPT !.hold = defer],
           old   |-> IF e = "exit" THEN Kept(archive, session.story) ELSE archive,
           votes |-> Votes(e, r)] :
              e \in Events, r \in Registers, facts \in {{}, slot.of}, defer \in BOOLEAN}

-----------------------------------------------------------------------------
(* The loop's turns.                                                       *)

\* A message comes: the main program stores it.
Arrive ==
    /\ clock < MaxClock
    /\ clock' = clock + 1
    /\ messages' = messages \cup {clock'} /\ unread' = unread \cup {clock'}
    /\ UNCHANGED <<run, session, archive, votes, slot, jobs, clear, stale>>

\* What the loop's requests show: its chain, or what a new loop builds it from.
View == IF run.on THEN run.view ELSE session.context \cup session.summary

Loop(on, turn, view) ==
    /\ run' = [on |-> on, turn |-> turn, view |-> view]
    /\ stale' = (stale \/ (on /\ ~run.on /\ clear.state # "no"))

\* prepare_turn_input: the last batch's appraisal is used or thrown away.  If it
\* says so the batch is left for later.
Defer ==
    /\ ~run.turn /\ unread # {} /\ slot.state = "done"
    /\ \E h \in Harvests :
         /\ h.s.hold
         /\ session' = h.s /\ archive' = h.old /\ votes' = h.votes
    /\ slot' = NoSlot
    /\ Loop(TRUE, FALSE, View)
    /\ UNCHANGED <<clock, messages, unread, jobs, clear>>

\* Else, or when the time is over, the batch is taken and appraised meanwhile,
\* unless it is too short.
Prepare ==
    /\ ~run.turn /\ unread # {}
    /\ \E h \in Harvests :
         /\ h.s.hold => slot.state # "done"
         /\ session' = [h.s EXCEPT !.hold = FALSE, !.context = @ \cup unread]
         /\ archive' = h.old /\ votes' = h.votes
    /\ slot' \in {NoSlot, [state |-> "running", of |-> unread]}
    /\ unread' = {}
    /\ Loop(TRUE, TRUE, View \cup unread \cup session.summary)
    /\ UNCHANGED <<clock, messages, jobs, clear>>

Appraised ==
    /\ slot.state = "running"
    /\ slot' \in {NoSlot, [slot EXCEPT !.state = "done"]}
    /\ UNCHANGED <<clock, messages, unread, run, session, archive, votes, jobs, clear, stale>>

\* Mutant: the slot is not emptied.
AnsweredKeeps ==
    /\ run.turn /\ slot.state = "done"
    /\ \E h \in Harvests : session' = h.s /\ archive' = h.old /\ votes' = h.votes
    /\ UNCHANGED <<clock, messages, unread, run, slot, jobs, clear, stale>>

\* The turn's answer is there, and the appraisal of its batch too.
Answered ==
    /\ run.turn /\ slot.state = "done"
    /\ \E h \in Harvests : session' = h.s /\ archive' = h.old /\ votes' = h.votes
    /\ slot' = NoSlot
    /\ UNCHANGED <<clock, messages, unread, run, jobs, clear, stale>>

-----------------------------------------------------------------------------
(* The summary.                                                            *)

\* maybe_schedule_compression.
Due(s) == s.summary = {} \/ (s.rounds >= EveryRounds /\ ~s.marked)

\* The bound: when all of Jobs are under way no other is started.
Idle == {j \in Jobs : jobs[j].state = "idle"}

Scheduled(s) ==
    \/ Due(s) /\ \E j \in Idle : jobs' = [jobs EXCEPT ![j].state = "made"]
    \/ (~Due(s) \/ Idle = {}) /\ UNCHANGED jobs

\* commit_turn_decision: a turn that replied counts as a round.  The loop goes
\* on or ends.
Commit ==
    /\ run.turn
    /\ \/ UNCHANGED <<session, jobs>>
       \/ /\ session' = [session EXCEPT !.rounds = IF @ < EveryRounds THEN @ + 1 ELSE @]
          /\ Scheduled(session')
    /\ \/ Loop(TRUE, FALSE, run.view)
       \/ Loop(FALSE, FALSE, {})
    /\ UNCHANGED <<clock, messages, unread, archive, votes, slot, clear>>

\* compress_history: the job notes when the context was last cleared and marks
\* the session.
JobStarts(j) ==
    /\ jobs[j].state = "made"
    /\ jobs' = [jobs EXCEPT ![j].state = "marked", ![j].since = session.cleared]
    /\ session' = [session EXCEPT !.marked = TRUE]
    /\ UNCHANGED <<clock, messages, unread, run, archive, votes, slot, clear, stale>>

\* It reads the messages since then, if there are any.
JobReads(j) ==
    /\ jobs[j].state = "marked"
    /\ LET covers == {m \in messages : m >= jobs[j].since}
       IN  jobs' = [jobs EXCEPT ![j] = IF covers = {} THEN NoJob
                                       ELSE [@ EXCEPT !.state = "asked", !.covers = covers]]
    /\ UNCHANGED <<clock, messages, unread, run, session, archive, votes, slot, clear, stale>>

\* Mutant: only whoever schedules a job looks at the clear.
JobWritesAlways(j) ==
    /\ jobs[j].state = "asked"
    /\ session' = [session EXCEPT !.summary = jobs[j].covers, !.rounds = 0, !.marked = TRUE]
    /\ jobs' = [jobs EXCEPT ![j].state = "distil"]
    /\ UNCHANGED <<clock, messages, unread, run, archive, votes, slot, clear, stale>>

\* The model has written the summary, which takes the place of the old one if
\* the context was not cleared meanwhile.
JobWrites(j) ==
    /\ jobs[j].state = "asked"
    /\ IF session.cleared > jobs[j].since
       THEN jobs' = [jobs EXCEPT ![j] = NoJob] /\ UNCHANGED session
       ELSE /\ session' = [session EXCEPT !.summary = jobs[j].covers, !.rounds = 0, !.marked = TRUE]
            /\ jobs' = [jobs EXCEPT ![j].state = "distil"]
    /\ UNCHANGED <<clock, messages, unread, run, archive, votes, slot, clear, stale>>

\* A read or a request fails, or the beliefs are distilled, well or badly.
JobEnds(j) ==
    /\ jobs[j].state \in {"marked", "asked", "distil"}
    /\ jobs' = [jobs EXCEPT ![j] = NoJob]
    /\ UNCHANGED <<clock, messages, unread, run, session, archive, votes, slot, clear, stale>>

\* min_compress_interval_minutes go by.
Elapse ==
    /\ session.marked
    /\ session' = [session EXCEPT !.marked = FALSE]
    /\ UNCHANGED <<clock, messages, unread, run, archive, votes, slot, jobs, clear, stale>>

-----------------------------------------------------------------------------
(* The clear command.                                                      *)

\* Mutant: the loop is stopped and its generator kept.
QuiesceKeeps ==
    /\ clear.state = "no"
    /\ clear' = [clear EXCEPT !.state = "stopped"]
    /\ run' = [run EXCEPT !.turn = FALSE] /\ jobs' = [j \in Jobs |-> NoJob] /\ stale' = FALSE
    /\ UNCHANGED <<clock, messages, unread, session, archive, votes, slot>>

\* _quiesce_nfc_runtime: the loop is stopped and the jobs are cancelled.  An
\* error on the way leaves the rest as it is.
Quiesce ==
    /\ clear.state = "no"
    /\ clear' = [clear EXCEPT !.state = "stopped"]
    /\ \/ run' = NoRun /\ jobs' = [j \in Jobs |-> NoJob] /\ stale' = FALSE
       \/ run' = NoRun /\ UNCHANGED jobs /\ stale' = FALSE
       \/ UNCHANGED <<run, jobs>> /\ stale' = run.on
    /\ UNCHANGED <<clock, messages, unread, session, archive, votes, slot>>

\* _refresh_core_clear_boundary: the main program forgets its messages, or not.
Boundary ==
    /\ clear.state = "stopped" /\ clock < MaxClock
    /\ clock' = clock + 1
    /\ clear' = [state |-> "reset", at |-> clock']
    /\ \/ unread' = {} /\ UNCHANGED stale
       \/ unread # {} /\ UNCHANGED unread /\ stale' = TRUE
    /\ UNCHANGED <<messages, run, session, archive, votes, slot, jobs>>

\* Mutant: the active register is kept like the archive.
ResetKeeps ==
    /\ clear.state = "reset"
    /\ clear' = [clear EXCEPT !.state = "no"]
    /\ session' = [Forgotten(clear.at) EXCEPT !.register = session.register]
    /\ UNCHANGED <<clock, messages, unread, run, archive, votes, slot, jobs, stale>>

\* _reset_session.
Reset ==
    /\ clear.state = "reset"
    /\ clear' = [clear EXCEPT !.state = "no"]
    /\ session' = Forgotten(clear.at)
    /\ UNCHANGED <<clock, messages, unread, run, archive, votes, slot, jobs, stale>>

Job(j) == JobStarts(j) \/ JobReads(j) \/ JobWrites(j) \/ JobEnds(j)

Next ==
    \/ Arrive \/ Defer \/ Prepare \/ Appraised \/ Answered \/ Commit
    \/ \E j \in Jobs : Job(j)
    \/ Elapse \/ Quiesce \/ Boundary \/ Reset

Spec == Init /\ [][Next]_vars

-----------------------------------------------------------------------------
(* What clearing must mean, and what the two worlds must be.               *)

New(m) == m > session.cleared

\* However the jobs, the turns and the clear handler interleave, also when the
\* handler could not stop anything, the summary tells of no cleared message.
NoOldSummary == \A m \in session.summary : New(m)

\* When the old loop was stopped and no new one started before the reset, neither
\* the session's records nor a request shows a cleared message.
CleanAfterClear ==
    clear.state = "no" /\ ~stale => \A m \in session.context \cup run.view : New(m)

\* The story register is never active without a story.
StoryThere == session.register = "story" => session.story # NoStory

\* What a batch tells is recorded in one world, once: not in the real one and a
\* story, nor in two stories.
Story == IF session.story = NoStory THEN {} ELSE session.story

FactsApart ==
    /\ session.scene \cap Story = {}
    /\ \A i \in DOMAIN archive :
         /\ archive[i] \cap (session.scene \cup Story) = {}
         /\ \A k \in DOMAIN archive : k # i => archive[i] \cap archive[k] = {}

\* What reset_context is for: what comes back to the model is cleared.  The
\* appraisal of a batch from before it is not.
NoOldFacts == clear.state = "no" /\ ~stale => \A m \in session.scene \cup Story : New(m)

\* Marking the session is to keep a second compression from starting.
OneCompression == Cardinality(Jobs \ Idle) <= 1
=============================================================================
