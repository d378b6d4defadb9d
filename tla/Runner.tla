------------------------------- MODULE Runner -------------------------------
(***************************************************************************)
(* src/process.rs: one run of a command.  The command leads a process      *)
(* group of its own; what it starts may stay in the group or leave it, and *)
(* any of them may hold the two pipes.  A reader thread for each pipe      *)
(* sends what it reads to the main thread through a short queue, until the *)
(* pipe ends or nobody listens any more.  The main thread keeps output up  *)
(* to a limit and ends the group when the output and the leader have       *)
(* ended, at the limit, or at the deadline.                                *)
(*                                                                         *)
(* Output is counted in units.  Which program runs, and with what          *)
(* environment, is left out, and so is the text of the notices: only that  *)
(* of a read error is appended here, the others to what a run returned.    *)
(***************************************************************************)
EXTENDS Integers, Sequences, FiniteSets

CONSTANTS
  Member, Escaped,  \* processes that may be started, in the group and out
  Limit,            \* how many units of a stream are kept
  Chunk,            \* how many a reader takes at once
  Room,             \* how many a pipe holds
  Depth             \* how many events the queue holds

ASSUME SizeAssumption ==
  /\ Limit \in Nat \ {0} /\ Chunk \in Nat \ {0}
  /\ Room \in Nat \ {0} /\ Depth \in Nat \ {0}

Leader == "leader"

Group == {Leader} \cup Member

Task == Group \cup Escaped

ASSUME TaskAssumption == Leader \notin Member \cup Escaped /\ Member \cap Escaped = {}

Stream == {"stdout", "stderr"}

VARIABLES
  life,       \* of each process: none, runs, doomed (killed, not dead yet), dead
  holds,      \* who can still write to the pipes
  pipe,       \* what is in each pipe
  written,    \* what was written to each, up to Limit + 1 (observed only)
  reader,     \* what each reader has in hand, or where it stands
  queue,      \* from the readers to the main thread
  pc,         \* of the main thread
  kept,       \* of each stream
  isOpen,     \* what the main thread thinks of each pipe
  limited, timedOut,
  broken      \* the pipe on which a read failed, at most one (observed only)

tasks == <<life, holds>>
channels == <<pipe, reader, queue>>
outcome == <<kept, isOpen, limited, timedOut>>
vars == <<tasks, channels, written, pc, outcome, broken>>

Data(s, n) == [kind |-> "data", stream |-> s, size |-> n]
Eof(s) == [kind |-> "eof", stream |-> s, size |-> 0]
Error(s) == [kind |-> "error", stream |-> s, size |-> 0]

Event == [kind : {"data", "eof", "error"}, stream : Stream, size : 0 .. Chunk]

Nothing == [kind |-> "none", stream |-> "none", size |-> 0]

Over == [kind |-> "over", stream |-> "none", size |-> 0]

Upto(n) == IF n > Limit THEN Limit + 1 ELSE n

Init ==
  /\ life = [t \in Task |-> IF t = Leader THEN "runs" ELSE "none"]
  /\ holds = {Leader}
  /\ pipe = [s \in Stream |-> 0]
  /\ written = [s \in Stream |-> 0]
  /\ reader = [s \in Stream |-> Nothing]
  /\ queue = <<>>
  /\ pc = "loop"
  /\ kept = [s \in Stream |-> 0]
  /\ isOpen = [s \in Stream |-> TRUE]
  /\ limited = FALSE /\ timedOut = FALSE
  /\ broken = {}

-----------------------------------------------------------------------------
(* The command and what it starts                                          *)

Ended == pc \in {"done", "failed", "lost"}

Listening == ~Ended

Start(t, u) ==
  /\ life[t] = "runs" /\ life[u] = "none"
  /\ u \in Group => t \in Group
  /\ life' = [life EXCEPT ![u] = "runs"]
  /\ holds' = IF t \in holds THEN holds \cup {u} ELSE holds
  /\ UNCHANGED <<channels, written, pc, outcome, broken>>

Write(s) ==
  /\ \E t \in holds : life[t] = "runs"
  /\ reader[s] # Over /\ pipe[s] < Room
  /\ pipe' = [pipe EXCEPT ![s] = @ + 1]
  /\ written' = IF Listening THEN [written EXCEPT ![s] = Upto(@ + 1)] ELSE written
  /\ UNCHANGED <<tasks, reader, queue, pc, outcome, broken>>

Close(t) ==
  /\ life[t] = "runs" /\ t \in holds
  /\ holds' = holds \ {t}
  /\ UNCHANGED <<life, channels, written, pc, outcome, broken>>

End(gone) ==
  /\ life' = [t \in Task |-> IF t \in gone THEN "dead" ELSE life[t]]
  /\ holds' = holds \ gone

\* Of its own accord, on a SIGTERM it has a handler for, or on a SIGPIPE.
Exit(t) ==
  /\ life[t] = "runs"
  /\ End({t})
  /\ UNCHANGED <<channels, written, pc, outcome, broken>>

\* A process that was killed dies once it can.
Die(t) ==
  /\ life[t] = "doomed"
  /\ End({t})
  /\ UNCHANGED <<channels, written, pc, outcome, broken>>

-----------------------------------------------------------------------------
(* spawn_pipe_reader                                                       *)

Take(s, event) == reader' = [reader EXCEPT ![s] = event]

Read(s, n) ==
  /\ reader[s] = Nothing
  /\ n \in 1 .. Chunk /\ n <= pipe[s]
  /\ pipe' = [pipe EXCEPT ![s] = @ - n]
  /\ Take(s, Data(s, n))
  /\ UNCHANGED <<tasks, queue, written, pc, outcome, broken>>

ReadEnd(s) ==
  /\ reader[s] = Nothing
  /\ pipe[s] = 0 /\ holds = {}
  /\ Take(s, Eof(s))
  /\ UNCHANGED <<tasks, pipe, queue, written, pc, outcome, broken>>

ReadFails(s) ==
  /\ reader[s] = Nothing /\ broken = {} /\ Listening
  /\ Take(s, Error(s))
  /\ broken' = broken \cup {s}
  /\ UNCHANGED <<tasks, pipe, queue, written, pc, outcome>>

Send(s) ==
  /\ reader[s] \in Event /\ Listening
  /\ Len(queue) < Depth
  /\ queue' = Append(queue, reader[s])
  /\ Take(s, IF reader[s].kind = "data" THEN Nothing ELSE Over)
  /\ UNCHANGED <<tasks, pipe, written, pc, outcome, broken>>

\* Seeded fault: a send to a receiver that is gone waits for ever.
GiveUpNever(s) == FALSE /\ UNCHANGED vars

\* A send to a receiver that is gone fails.
GiveUp(s) ==
  /\ reader[s] \in Event /\ ~Listening
  /\ Take(s, Over)
  /\ UNCHANGED <<tasks, pipe, queue, written, pc, outcome, broken>>

-----------------------------------------------------------------------------
(* run_command: the loop                                                   *)

\* Seeded fault: the stream is cut at the limit, and the run goes on.
KeepQuietly(event) ==
  /\ kept' = [kept EXCEPT ![event.stream] =
                IF @ + event.size > Limit THEN Limit ELSE @ + event.size]
  /\ limited' = limited

\* Seeded fault: a chunk is kept whole.
KeepAll(event) ==
  /\ kept' = [kept EXCEPT ![event.stream] = @ + event.size]
  /\ limited' = (limited \/ kept[event.stream] + event.size > Limit)

\* What exceeds the limit is dropped.
Keep(event) ==
  /\ kept' = [kept EXCEPT ![event.stream] =
                IF @ + event.size > Limit THEN Limit ELSE @ + event.size]
  /\ limited' = (limited \/ kept[event.stream] + event.size > Limit)

\* Seeded fault: the deadline is for the leader only.
RoundWaiting(late) ==
  IF life[Leader] = "dead"
  THEN /\ pc' = IF \A s \in Stream : ~isOpen'[s] THEN "term" ELSE "loop"
       /\ UNCHANGED timedOut
  ELSE pc' = (IF late THEN "term" ELSE "loop") /\ timedOut' = late

\* append_notice_bytes: a notice takes of the room that is left, but the line
\* break before it may go past the limit.
Note(s) ==
  \E n \in kept[s] .. Limit + 1 :
    /\ n > Limit => kept[s] = Limit
    /\ kept' = [kept EXCEPT ![s] = n]

\* The end of a round: all done, or too late, or another round.
Round(late) ==
  IF life[Leader] = "dead" /\ \A s \in Stream : ~isOpen'[s]
  THEN pc' = "term" /\ UNCHANGED timedOut
  ELSE pc' = (IF late THEN "term" ELSE "loop") /\ timedOut' = late

Receive(late) ==
  LET event == Head(queue) IN
    /\ pc = "loop" /\ queue # <<>>
    /\ queue' = Tail(queue)
    /\ IF event.kind = "data"
       THEN /\ Keep(event)
            /\ UNCHANGED isOpen
            /\ IF limited' THEN pc' = "term" /\ UNCHANGED timedOut ELSE Round(late)
       ELSE /\ isOpen' = [isOpen EXCEPT ![event.stream] = FALSE]
            /\ IF event.kind = "error" THEN Note(event.stream) ELSE UNCHANGED kept
            /\ UNCHANGED limited
            /\ Round(late)
    /\ UNCHANGED <<tasks, pipe, reader, written, broken>>

\* Nothing comes within the tick, or both readers have ended.
Idle(late) ==
  /\ pc = "loop" /\ queue = <<>>
  /\ isOpen' = IF \A s \in Stream : reader[s] = Over
               THEN [s \in Stream |-> FALSE] ELSE isOpen
  /\ UNCHANGED <<kept, limited>>
  /\ Round(late)
  /\ UNCHANGED <<tasks, channels, written, broken>>

-----------------------------------------------------------------------------
(* terminate_and_reap, drain_available                                     *)

\* SIGTERM to the group: some end, others have a handler or ignore it.  What
\* the loop knew of the pipes does not matter any more.
Terminate(gone) ==
  /\ pc = "term"
  /\ gone \subseteq {t \in Group : life[t] = "runs"}
  /\ End(gone)
  /\ isOpen' = [s \in Stream |-> FALSE]
  /\ pc' = "wait"
  /\ UNCHANGED <<channels, written, kept, limited, timedOut, broken>>

\* Seeded fault: SIGKILL to the leader only.
DoomLeader == life' = [life EXCEPT ![Leader] = IF @ = "runs" THEN "doomed" ELSE @]

\* SIGKILL to the group
Doom == life' = [t \in Task |-> IF t \in Group /\ life[t] = "runs" THEN "doomed" ELSE life[t]]

\* The leader is reaped, or the grace is over.
Wait ==
  /\ pc = "wait"
  /\ IF life[Leader] = "dead"
     THEN pc' = "linger" /\ UNCHANGED life
     ELSE Doom /\ pc' = "kill"
  /\ UNCHANGED <<holds, channels, written, outcome, broken>>

\* The run is over: the receiver goes, and with it the queue and the output.
Leave(l) ==
  /\ pc' = l
  /\ queue' = <<>>
  /\ kept' = [s \in Stream |-> 0] /\ written' = [s \in Stream |-> 0]
  /\ limited' = FALSE /\ timedOut' = FALSE /\ broken' = {}
  /\ UNCHANGED <<tasks, pipe, reader, isOpen>>

WaitKilled ==
  /\ pc = "kill" /\ life[Leader] = "dead"
  /\ pc' = "linger"
  /\ UNCHANGED <<tasks, channels, written, outcome, broken>>

\* Even a killed leader may take too long, or waiting for it fails; then the
\* run fails.
Abandon == pc = "kill" /\ Leave("failed")

\* If the first wait fails, the run does so with the group told to end, no more.
LoseTrack == pc = "wait" /\ Leave("lost")

\* What is left of the group after another grace is killed, and waited for
\* (reap_adopted_group) but not for ever.
Sweep ==
  /\ pc = "linger"
  /\ Doom
  /\ pc' = "drain"
  /\ UNCHANGED <<holds, channels, written, outcome, broken>>

Drain ==
  /\ pc = "drain" /\ queue # <<>>
  /\ queue' = Tail(queue)
  /\ IF Head(queue).kind = "data"
     THEN Keep(Head(queue))
     ELSE UNCHANGED <<kept, limited>>
  /\ UNCHANGED <<tasks, pipe, reader, written, pc, isOpen, timedOut, broken>>

Return == pc = "drain" /\ queue = <<>> /\ Leave("done")

Main ==
  \/ \E late \in BOOLEAN : Receive(late) \/ Idle(late)
  \/ \E gone \in SUBSET Group : Terminate(gone)
  \/ Wait \/ LoseTrack \/ WaitKilled \/ Abandon \/ Sweep \/ Drain \/ Return

Reader(s) ==
  \/ \E n \in 1 .. Chunk : Read(s, n)
  \/ ReadEnd(s) \/ Send(s) \/ GiveUp(s)

Stay == Ended /\ UNCHANGED vars

Next ==
  \/ \E t, u \in Task : Start(t, u)
  \/ \E s \in Stream : Write(s) \/ ReadFails(s)
  \/ \E t \in Task : Close(t) \/ Exit(t) \/ Die(t)
  \/ \E s \in Stream : Reader(s)
  \/ Main
  \/ Stay

\* The main thread and the readers are scheduled, and the deadline comes.  That
\* the queue is ever found empty when the main thread looks, is not assumed.
Fairness ==
  /\ WF_vars(Main)
  /\ WF_vars(Receive(TRUE) \/ Idle(TRUE))
  /\ \A s \in Stream : WF_vars(Reader(s))

Spec == Init /\ [][Next]_vars /\ Fairness

-----------------------------------------------------------------------------
(* Properties                                                              *)

Stage == {"loop", "term", "wait", "kill", "linger", "drain", "done", "failed",
          "lost"}

TypeOK ==
  /\ life \in [Task -> {"none", "runs", "doomed", "dead"}]
  /\ holds \subseteq Task
  /\ pipe \in [Stream -> 0 .. Room]
  /\ written \in [Stream -> 0 .. Limit + 1]
  /\ reader \in [Stream -> Event \cup {Nothing, Over}]
  /\ queue \in Seq(Event) /\ Len(queue) <= Depth
  /\ pc \in Stage
  /\ kept \in [Stream -> 0 .. Limit + 1]
  /\ isOpen \in [Stream -> BOOLEAN]
  /\ limited \in BOOLEAN /\ timedOut \in BOOLEAN
  /\ broken \subseteq Stream

\* Whatever the command ignores and starts, nothing of its group runs when the
\* run returns: it is dead or killed, and nothing can join (terminate_and_reap).
\* Excepted is a run whose first wait for the leader failed.
GroupGone ==
  pc \in {"kill", "drain", "done", "failed"} => \A t \in Group : life[t] # "runs"

\* A run goes on without killing the leader only if it has ended.
Reaped == pc \in {"linger", "drain", "done"} => life[Leader] = "dead"

\* No more than the limit is kept of a stream, but for the line break before
\* the notice of a read error.
Within == \A s \in Stream : kept[s] > Limit => s \in broken

RunnerInv == TypeOK /\ Reaped /\ Within

\* A run that reports neither the limit nor the deadline has all the output
\* that was ever written, by whatever process, and no more will come; but a
\* stream that a read failed on has a notice of that instead of the rest.
Complete ==
  [][pc = "drain" /\ pc' = "done" /\ ~timedOut /\ ~limited =>
       \A s \in Stream \ broken : kept[s] = written[s] /\ holds = {}]_vars

\* Every run returns, even if the command and what it started go on writing
\* and ignore every signal they can; unless a process that left the group goes
\* on writing for ever while the main thread takes what it finds in the queue
\* (drain_available has no bound).
Returns == <>Ended \/ []<><<pc = "drain" /\ \E s \in Stream : Write(s)>>_vars

\* A reader thread ends once the run has returned and nobody holds its pipe.
ReadersEnd ==
  \A s \in Stream :
    Ended /\ holds = {} ~> reader[s] = Over
-----------------------------------------------------------------------------
(* Why: every unit that was written is in exactly one place, and a pipe    *)
(* that ended has nobody left who could write.                             *)

Units(event, s) ==
  IF event.kind = "data" /\ event.stream = s THEN event.size ELSE 0

\* What is kept, and then what each event of the queue adds to it; together
\* with what the reader holds and what is left in the pipe it is all there is.
Tally(s, sum) ==
  /\ sum[0] = kept[s]
  /\ \A i \in 1 .. Len(queue) : sum[i] = Upto(sum[i - 1] + Units(queue[i], s))
  /\ written[s] = Upto(sum[Len(queue)] + Units(reader[s], s) + pipe[s])

Counted(s) == \E sum \in [0 .. Len(queue) -> 0 .. Limit + 1] : Tally(s, sum)

CountInv == ~limited => \A s \in Stream \ broken : Counted(s)

\* A reader that is over has met the end of its pipe, or an error.
ReaderInv ==
  /\ \A s \in Stream :
       /\ reader[s] \in Event => reader[s].stream = s
       /\ reader[s].kind = "error" => s \in broken
       /\ s \notin broken /\ reader[s].kind \in {"eof", "over"} =>
            holds = {} /\ pipe[s] = 0
  /\ \A i \in 1 .. Len(queue) :
       /\ queue[i].kind # "data" => reader[queue[i].stream] = Over
       /\ queue[i].kind = "error" => queue[i].stream \in broken

\* What the loop takes for closed is, and so is everything when the loop is
\* left for no other reason.
LoopInv ==
  /\ pc = "loop" => ~limited /\ ~timedOut
  /\ \A s \in Stream :
       (IF pc = "loop" THEN ~isOpen[s] ELSE ~limited /\ ~timedOut) =>
         reader[s] = Over

FlowInv == Listening => CountInv /\ ReaderInv /\ LoopInv
=============================================================================
