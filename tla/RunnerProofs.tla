---------------------------- MODULE RunnerProofs ----------------------------
(***************************************************************************)
(* Whatever a command starts, writes, ignores and holds: nothing of its    *)
(* group is left to run when the run returns, and its output is complete   *)
(* unless the run says otherwise.  Every unit written is in the pipe, in   *)
(* the reader's hand, in the queue or kept, and a pipe has ended only when *)
(* nobody is left who could write to it.                                   *)
(***************************************************************************)
EXTENDS Runner, TLAPS

\* What a reader may send.
LEMMA Events ==
  ASSUME NEW s \in Stream
  PROVE  /\ \A n \in 1 .. Chunk : Data(s, n) \in Event
         /\ Eof(s) \in Event /\ Error(s) \in Event
         /\ Nothing \notin Event /\ Over \notin Event /\ Nothing # Over
BY SizeAssumption DEF Data, Eof, Error, Event, Nothing, Over

\* The fields of an event.
LEMMA Fields ==
  ASSUME NEW event \in Event
  PROVE  /\ event.kind \in {"data", "eof", "error"}
         /\ event.stream \in Stream
         /\ event.size \in 0 .. Chunk
BY DEF Event

\* A queue that is not empty.
LEMMA Queues ==
  ASSUME queue \in Seq(Event), queue # <<>>
  PROVE  /\ Len(queue) \in Nat /\ Len(queue) > 0
         /\ Head(queue) \in Event /\ Head(queue) = queue[1]
         /\ Tail(queue) \in Seq(Event) /\ Len(Tail(queue)) = Len(queue) - 1
         /\ \A i \in 1 .. Len(queue) - 1 : Tail(queue)[i] = queue[i + 1]
OBVIOUS

\* What the main thread keeps of an event is of the type of what it has.
LEMMA Keeping ==
  ASSUME TypeOK, NEW event \in Event, Keep(event)
  PROVE  kept' \in [Stream -> 0 .. Limit + 1] /\ limited' \in BOOLEAN
<1>1. event.stream \in Stream /\ event.size \in 0 .. Chunk
  BY Fields
<1>2. kept \in [Stream -> 0 .. Limit + 1] /\ limited \in BOOLEAN
  BY DEF TypeOK
<1> DEFINE n == kept[event.stream] + event.size
<1>3. (IF n > Limit THEN Limit ELSE n) \in 0 .. Limit + 1
  BY <1>1, <1>2, SizeAssumption
<1>4. kept' = [kept EXCEPT ![event.stream] = IF n > Limit THEN Limit ELSE n]
  BY <1>1, <1>2 DEF Keep
<1>5. kept' \in [Stream -> 0 .. Limit + 1]
  BY <1>2, <1>3, <1>4
<1>6. limited' \in BOOLEAN
  BY <1>1, <1>2, SizeAssumption DEF Keep
<1> QED BY <1>5, <1>6

\* So is what it keeps of the notice of a read error.
LEMMA Noting ==
  ASSUME TypeOK, NEW s \in Stream, Note(s)
  PROVE  /\ kept' \in [Stream -> 0 .. Limit + 1]
         /\ \A r \in Stream \ {s} : kept'[r] = kept[r]
<1>1. kept \in [Stream -> 0 .. Limit + 1]
  BY DEF TypeOK
<1>2. PICK n \in kept[s] .. Limit + 1 : kept' = [kept EXCEPT ![s] = n]
  BY DEF Note
<1>3. n \in 0 .. Limit + 1
  BY <1>1, <1>2, SizeAssumption
<1> QED BY <1>1, <1>2, <1>3

\* Processes that end leave the types as they are.
LEMMA Ending ==
  ASSUME TypeOK, NEW gone, End(gone)
  PROVE  /\ life' \in [Task -> {"none", "runs", "doomed", "dead"}]
         /\ holds' \subseteq Task
BY DEF TypeOK, End

\* So does a killed group.
LEMMA Killing ==
  ASSUME TypeOK, Doom
  PROVE  life' \in [Task -> {"none", "runs", "doomed", "dead"}]
BY DEF TypeOK, Doom

\* A round that goes on is in time; one that does not is late, or everything
\* is closed.
LEMMA Rounds ==
  ASSUME NEW late \in BOOLEAN, timedOut \in BOOLEAN, Round(late)
  PROVE  /\ pc' \in {"loop", "term"} /\ timedOut' \in BOOLEAN
         /\ pc' = "loop" => ~timedOut'
         /\ pc' = "term" => timedOut' \/ \A s \in Stream : ~isOpen'[s]
BY DEF Round

\* The state of a run is of the expected type to begin with.
LEMMA TypeInit == Init => TypeOK
<1> SUFFICES ASSUME Init PROVE TypeOK
  OBVIOUS
<1>1. Leader \in Task
  BY DEF Task, Group
<1>2. queue \in Seq(Event) /\ Len(queue) <= Depth
  BY SizeAssumption DEF Init
<1>3. /\ 0 \in 0 .. Room /\ 0 \in 0 .. Limit + 1
  BY SizeAssumption
<1> QED BY <1>1, <1>2, <1>3 DEF Init, TypeOK, Stage

\* Every step keeps it so.
LEMMA TypeStep == TypeOK /\ [Next]_vars => TypeOK'
<1> SUFFICES ASSUME TypeOK, [Next]_vars PROVE TypeOK'
  OBVIOUS
<1> USE SizeAssumption
<1>1. ASSUME NEW t \in Task, NEW u \in Task, Start(t, u) PROVE TypeOK'
  BY <1>1 DEF Start, TypeOK, channels, outcome
<1>2. ASSUME NEW s \in Stream, Write(s) PROVE TypeOK'
  <2>1. pipe' \in [Stream -> 0 .. Room]
    BY <1>2 DEF Write, TypeOK
  <2>2. written' \in [Stream -> 0 .. Limit + 1]
    BY <1>2 DEF Write, TypeOK, Upto
  <2> QED BY <1>2, <2>1, <2>2 DEF Write, TypeOK, tasks, outcome
<1>3. ASSUME NEW s \in Stream, ReadFails(s) PROVE TypeOK'
  BY <1>3, Events DEF ReadFails, Take, TypeOK, tasks, outcome
<1>4. ASSUME NEW t \in Task, Close(t) PROVE TypeOK'
  BY <1>4 DEF Close, TypeOK, channels, outcome
<1>5. ASSUME NEW t \in Task, Exit(t) PROVE TypeOK'
  BY <1>5, Ending DEF Exit, TypeOK, channels, outcome
<1>6. ASSUME NEW t \in Task, Die(t) PROVE TypeOK'
  BY <1>6, Ending DEF Die, TypeOK, channels, outcome
<1>7. ASSUME NEW s \in Stream, NEW n \in 1 .. Chunk, Read(s, n) PROVE TypeOK'
  <2>1. pipe' \in [Stream -> 0 .. Room]
    BY <1>7 DEF Read, TypeOK
  <2>2. reader' \in [Stream -> Event \cup {Nothing, Over}]
    BY <1>7, Events DEF Read, Take, TypeOK
  <2> QED BY <1>7, <2>1, <2>2 DEF Read, TypeOK, tasks, outcome
<1>8. ASSUME NEW s \in Stream, ReadEnd(s) PROVE TypeOK'
  BY <1>8, Events DEF ReadEnd, Take, TypeOK, tasks, outcome
<1>9. ASSUME NEW s \in Stream, Send(s) PROVE TypeOK'
  <2>1. queue' \in Seq(Event) /\ Len(queue') <= Depth
    BY <1>9 DEF Send, TypeOK
  <2>2. reader' \in [Stream -> Event \cup {Nothing, Over}]
    BY <1>9 DEF Send, Take, TypeOK
  <2> QED BY <1>9, <2>1, <2>2 DEF Send, TypeOK, tasks, outcome
<1>10. ASSUME NEW s \in Stream, GiveUp(s) PROVE TypeOK'
  BY <1>10 DEF GiveUp, Take, TypeOK, tasks, outcome
<1>11. ASSUME NEW late \in BOOLEAN, Receive(late) PROVE TypeOK'
  <2>1. /\ Head(queue) \in Event
        /\ queue' \in Seq(Event) /\ Len(queue') <= Depth
    BY <1>11, Queues DEF Receive, TypeOK
  <2>2. /\ kept' \in [Stream -> 0 .. Limit + 1] /\ limited' \in BOOLEAN
        /\ isOpen' \in [Stream -> BOOLEAN]
    <3>1. CASE Head(queue).kind = "data"
      BY <1>11, <2>1, <3>1, Keeping DEF Receive, TypeOK
    <3>2. CASE Head(queue).kind # "data"
      <4>1. Note(Head(queue).stream) \/ UNCHANGED kept
        BY <1>11, <3>2 DEF Receive
      <4>2. kept' \in [Stream -> 0 .. Limit + 1]
        BY <2>1, <4>1, Fields, Noting DEF TypeOK
      <4> QED BY <1>11, <3>2, <4>2 DEF Receive, TypeOK
    <3> QED BY <3>1, <3>2
  <2>3. pc' \in Stage /\ timedOut' \in BOOLEAN
    BY <1>11, Rounds DEF Receive, TypeOK, Stage
  <2> QED BY <1>11, <2>1, <2>2, <2>3 DEF Receive, TypeOK, tasks
<1>12. ASSUME NEW late \in BOOLEAN, Idle(late) PROVE TypeOK'
  <2>1. isOpen' \in [Stream -> BOOLEAN]
    BY <1>12 DEF Idle, TypeOK
  <2>2. pc' \in Stage /\ timedOut' \in BOOLEAN
    BY <1>12, Rounds DEF Idle, TypeOK, Stage
  <2> QED BY <1>12, <2>1, <2>2 DEF Idle, TypeOK, tasks, channels
<1>13. ASSUME NEW gone \in SUBSET Group, Terminate(gone) PROVE TypeOK'
  BY <1>13, Ending DEF Terminate, TypeOK, channels, Stage
<1>14. CASE Wait
  BY <1>14, Killing DEF Wait, TypeOK, channels, outcome, Stage
<1>15. CASE WaitKilled
  BY <1>15 DEF WaitKilled, TypeOK, tasks, channels, outcome, Stage
<1>16. ASSUME NEW l \in {"done", "failed", "lost"}, Leave(l) PROVE TypeOK'
  <2>1. queue' \in Seq(Event) /\ Len(queue') <= Depth
    BY <1>16 DEF Leave
  <2>2. 0 \in 0 .. Limit + 1
    OBVIOUS
  <2>3. kept' \in [Stream -> 0 .. Limit + 1] /\ written' \in [Stream -> 0 .. Limit + 1]
    BY <1>16, <2>2 DEF Leave
  <2> QED BY <1>16, <2>1, <2>3 DEF Leave, TypeOK, tasks, Stage
<1>17. CASE Sweep
  BY <1>17, Killing DEF Sweep, TypeOK, channels, outcome, Stage
<1>18. CASE Drain
  <2>1. /\ Head(queue) \in Event
        /\ queue' \in Seq(Event) /\ Len(queue') <= Depth
    BY <1>18, Queues DEF Drain, TypeOK
  <2>2. kept' \in [Stream -> 0 .. Limit + 1] /\ limited' \in BOOLEAN
    BY <1>18, <2>1, Keeping DEF Drain, TypeOK
  <2> QED BY <1>18, <2>1, <2>2 DEF Drain, TypeOK, tasks
<1>19. CASE UNCHANGED vars
  BY <1>19 DEF vars, tasks, channels, outcome, TypeOK
<1> QED
  BY <1>1, <1>2, <1>3, <1>4, <1>5, <1>6, <1>7, <1>8, <1>9, <1>10, <1>11,
     <1>12, <1>13, <1>14, <1>15, <1>16, <1>17, <1>18, <1>19
  DEF Next, Main, Reader, Abandon, LoseTrack, Return, Stay

-----------------------------------------------------------------------------
(* The group                                                               *)

\* The dead stay dead, a group none of whose processes runs gets none that
\* does, and a pipe nobody can write to is never opened again.
LEMMA NoReturn ==
  ASSUME TypeOK, [Next]_vars
  PROVE  /\ life[Leader] = "dead" => life'[Leader] = "dead"
         /\ (\A t \in Group : life[t] # "runs") =>
              \A t \in Group : life'[t] # "runs"
         /\ holds = {} => holds' = {}
<1> DEFINE Goal == /\ life[Leader] = "dead" => life'[Leader] = "dead"
                   /\ (\A t \in Group : life[t] # "runs") =>
                        \A t \in Group : life'[t] # "runs"
                   /\ holds = {} => holds' = {}
<1>0. /\ life \in [Task -> {"none", "runs", "doomed", "dead"}]
      /\ Leader \in Group /\ Group \subseteq Task
  BY DEF TypeOK, Group, Task
<1>1. ASSUME NEW t \in Task, NEW u \in Task, Start(t, u) PROVE Goal
  BY <1>0, <1>1 DEF Start
<1>2. ASSUME NEW gone, End(gone) PROVE Goal
  BY <1>0, <1>2 DEF End
<1>3. ASSUME NEW t, Close(t) PROVE Goal
  BY <1>3 DEF Close
<1>4. ASSUME Doom, holds' = holds PROVE Goal
  BY <1>0, <1>4 DEF Doom
<1>5. ASSUME UNCHANGED tasks PROVE Goal
  BY <1>5 DEF tasks
<1>6. CASE Wait
  <2>1. CASE Doom
    BY <1>4, <1>6, <2>1 DEF Wait
  <2>2. CASE UNCHANGED life
    BY <1>6, <2>2 DEF Wait
  <2> QED BY <1>6, <2>1, <2>2 DEF Wait
<1>7. CASE Sweep
  BY <1>4, <1>7 DEF Sweep
<1>8. ASSUME NEW t, Exit(t) \/ Die(t) PROVE Goal
  BY <1>2, <1>8 DEF Exit, Die
<1>9. ASSUME NEW gone, Terminate(gone) PROVE Goal
  BY <1>2, <1>9 DEF Terminate
<1>10. ASSUME NEW s \in Stream, Write(s) \/ ReadFails(s) \/ Reader(s) PROVE Goal
  BY <1>5, <1>10 DEF Write, ReadFails, Reader, Read, ReadEnd, Send, GiveUp
<1>11. ASSUME NEW late, Receive(late) \/ Idle(late) PROVE Goal
  BY <1>5, <1>11 DEF Receive, Idle
<1>12. CASE LoseTrack \/ WaitKilled \/ Abandon \/ Drain \/ Return
  BY <1>5, <1>12 DEF LoseTrack, WaitKilled, Abandon, Drain, Return, Leave
<1>13. CASE UNCHANGED vars
  BY <1>5, <1>13 DEF vars
<1> QED
  BY <1>1, <1>3, <1>6, <1>7, <1>8, <1>9, <1>10, <1>11, <1>12, <1>13
  DEF Next, Main, Stay

\* The stages of the main thread, and what takes it to the next one.
LEMMA Stages ==
  ASSUME TypeOK, [Next]_vars
  PROVE  \/ pc' = pc
         \/ pc = "loop" /\ pc' = "term"
         \/ pc = "term" /\ pc' = "wait"
         \/ pc = "wait" /\ pc' = "linger" /\ life[Leader] = "dead"
         \/ pc = "wait" /\ pc' = "kill" /\ Doom
         \/ pc = "wait" /\ pc' = "lost"
         \/ pc = "kill" /\ pc' = "linger" /\ life[Leader] = "dead"
         \/ pc = "kill" /\ pc' = "failed"
         \/ pc = "linger" /\ pc' = "drain" /\ Doom
         \/ pc = "drain" /\ pc' = "done"
<1>1. ASSUME NEW t, NEW u, Start(t, u) \/ Close(t) \/ Exit(t) \/ Die(t)
      PROVE  pc' = pc
  BY <1>1 DEF Start, Close, Exit, Die
<1>2. ASSUME NEW s, Write(s) \/ ReadFails(s) \/ Reader(s) PROVE pc' = pc
  BY <1>2 DEF Write, ReadFails, Reader, Read, ReadEnd, Send, GiveUp
<1>3. ASSUME NEW late \in BOOLEAN, Receive(late)
      PROVE  pc = "loop" /\ pc' \in {"loop", "term"}
  BY <1>3, Rounds DEF Receive, TypeOK
<1>4. ASSUME NEW late \in BOOLEAN, Idle(late)
      PROVE  pc = "loop" /\ pc' \in {"loop", "term"}
  BY <1>4, Rounds DEF Idle, TypeOK
<1> QED
  BY <1>1, <1>2, <1>3, <1>4
  DEF Next, Main, Terminate, Wait, LoseTrack, WaitKilled, Abandon, Sweep, Drain,
      Return, Leave, Stay, vars

\* A killed group has nothing that runs.
LEMMA Killed ==
  ASSUME TypeOK, Doom
  PROVE  \A t \in Group : life'[t] # "runs"
BY DEF TypeOK, Doom, Task

\* The leader is dead when a run goes on without killing it, and nothing of
\* its group runs once it has been killed.
LEMMA GroupStep ==
  ASSUME TypeOK, Reaped, GroupGone, [Next]_vars
  PROVE  TypeOK' /\ Reaped' /\ GroupGone'
<1>0. TypeOK'
  BY TypeStep
<1>1. Reaped'
  BY <1>0, Stages, NoReturn DEF Reaped
<1>2. GroupGone'
  <2>1. CASE Doom
    BY <1>0, <2>1, Killed DEF GroupGone
  <2>2. CASE ~Doom
    BY <1>0, <2>2, Stages, NoReturn DEF GroupGone
  <2> QED BY <2>1, <2>2
<1> QED BY <1>0, <1>1, <1>2

-----------------------------------------------------------------------------
(* The output                                                              *)

\* Counting up to the limit may stop at any moment.
LEMMA Saturates ==
  ASSUME NEW n \in Nat, NEW k \in Nat
  PROVE  /\ Upto(n) \in 0 .. Limit + 1
         /\ Upto(Upto(n) + k) = Upto(n + k)
         /\ n <= Limit => Upto(n) = n
BY SizeAssumption DEF Upto

\* What an event counts for, of one stream.
LEMMA Weights ==
  ASSUME NEW event \in Event \cup {Nothing, Over}, NEW s \in Stream
  PROVE  /\ Units(event, s) \in Nat
         /\ event \in {Nothing, Over} => Units(event, s) = 0
BY SizeAssumption DEF Units, Event, Nothing, Over

\* What a reader has in hand, and a pipe, count for.
LEMMA InHand ==
  ASSUME TypeOK, NEW s \in Stream
  PROVE  Units(reader[s], s) \in Nat /\ pipe[s] \in Nat
<1>1. reader[s] \in Event \cup {Nothing, Over} /\ pipe[s] \in 0 .. Room
  BY DEF TypeOK
<1> QED BY <1>1, Weights, SizeAssumption

\* A unit that goes from the pipe into the reader's hand, or that is new in
\* the pipe, is counted as before, or as one more.
LEMMA CountedMoves ==
  ASSUME TypeOK, NEW s \in Stream, Counted(s), NEW k \in Nat,
         queue' = queue, kept'[s] = kept[s],
         written'[s] = Upto(written[s] + k),
         Units(reader'[s], s) \in Nat, pipe'[s] \in Nat,
         Units(reader'[s], s) + pipe'[s] = Units(reader[s], s) + pipe[s] + k
  PROVE  Counted(s)'
<1>1. PICK sum \in [0 .. Len(queue) -> 0 .. Limit + 1] : Tally(s, sum)
  BY DEF Counted
<1> DEFINE n == sum[Len(queue)] + Units(reader[s], s) + pipe[s]
           m == sum[Len(queue)] + Units(reader'[s], s) + pipe'[s]
<1>2. /\ Units(reader[s], s) \in Nat /\ Units(reader'[s], s) \in Nat
      /\ pipe[s] \in Nat /\ pipe'[s] \in Nat
  BY InHand
<1>3. Len(queue) \in Nat /\ sum[Len(queue)] \in Nat
  <2>1. queue \in Seq(Event)
    BY DEF TypeOK
  <2>2. Len(queue) \in Nat
    BY <2>1
  <2>3. sum[Len(queue)] \in 0 .. Limit + 1
    BY <2>2
  <2> QED BY <2>2, <2>3, SizeAssumption
<1>4. n \in Nat /\ m = n + k
  <2> DEFINE a == Units(reader[s], s)
             b == pipe[s]
             c == Units(reader'[s], s)
             d == pipe'[s]
             t == sum[Len(queue)]
  <2>1. /\ a \in Nat /\ b \in Nat /\ c \in Nat /\ d \in Nat /\ t \in Nat
        /\ c + d = a + b + k
    BY <1>2, <1>3
  <2> HIDE DEF a, b, c, d, t
  <2>2. t + a + b \in Nat /\ t + c + d = (t + a + b) + k
    BY <2>1
  <2> QED BY <2>2 DEF a, b, c, d, t
<1>5. written[s] = Upto(n)
  BY <1>1 DEF Tally
<1>6. written'[s] = Upto(m)
  BY <1>4, <1>5, Saturates
<1> HIDE DEF n, m
<1>7. /\ sum[0] = kept'[s]
      /\ \A i \in 1 .. Len(queue') : sum[i] = Upto(sum[i - 1] + Units(queue'[i], s))
  BY <1>1 DEF Tally
<1>8. written'[s] = Upto(sum[Len(queue')] + Units(reader'[s], s) + pipe'[s])
  BY <1>6 DEF m
<1> QED BY <1>7, <1>8 DEF Counted, Tally

\* An event that is sent is counted in the queue.
LEMMA CountedSent ==
  ASSUME TypeOK, NEW s \in Stream, Counted(s), NEW event \in Event,
         queue' = Append(queue, event), kept'[s] = kept[s],
         written'[s] = written[s], pipe'[s] = pipe[s],
         \/ reader[s] = event /\ reader'[s] \in {Nothing, Over}
         \/ reader'[s] = reader[s] /\ Units(event, s) = 0
  PROVE  Counted(s)'
<1>1. PICK sum \in [0 .. Len(queue) -> 0 .. Limit + 1] : Tally(s, sum)
  BY DEF Counted
<1> DEFINE l == Len(queue)
           top == Upto(sum[l] + Units(event, s))
           more == [i \in 0 .. l + 1 |-> IF i = l + 1 THEN top ELSE sum[i]]
           r == Units(reader[s], s)
           q == Units(reader'[s], s)
<1>2. /\ l \in Nat /\ queue \in Seq(Event) /\ sum[l] \in Nat
      /\ sum[l] \in 0 .. Limit + 1
  BY SizeAssumption DEF TypeOK
<1>3. Units(event, s) \in Nat /\ r \in Nat /\ q \in Nat /\ pipe[s] \in Nat
  BY InHand, Weights
<1>4. Units(event, s) + q = r
  BY <1>3, Weights
<1> DEFINE both == sum[l] + Units(event, s)
           rest == q + pipe[s]
<1>b. both \in Nat /\ rest \in Nat
  BY <1>2, <1>3
<1>5. top \in 0 .. Limit + 1
  BY <1>b, Saturates
<1>6. more \in [0 .. l + 1 -> 0 .. Limit + 1]
  BY <1>2, <1>5
<1>7. /\ Len(queue') = l + 1 /\ queue'[l + 1] = event
      /\ \A i \in 1 .. l : queue'[i] = queue[i]
  BY <1>2
<1>8. more[0] = kept'[s]
  BY <1>1, <1>2 DEF Tally
<1>9. \A i \in 1 .. l : more[i] = sum[i] /\ more[i - 1] = sum[i - 1]
  BY <1>2
<1>10. more[l + 1] = top /\ more[l] = sum[l]
  BY <1>2
<1>11. ASSUME NEW i \in 1 .. l + 1
       PROVE  more[i] = Upto(more[i - 1] + Units(queue'[i], s))
  <2>1. CASE i \in 1 .. l
    <3>1. sum[i] = Upto(sum[i - 1] + Units(queue[i], s))
      BY <1>1, <2>1 DEF Tally
    <3> QED BY <1>7, <1>9, <2>1, <3>1
  <2>2. CASE i = l + 1
    BY <1>2, <1>7, <1>10, <2>2
  <2> QED BY <1>2, <2>1, <2>2
<1>12. written'[s] = Upto(top + q + pipe'[s])
  <2>1. written[s] = Upto(sum[l] + r + pipe[s])
    BY <1>1 DEF Tally
  <2>2. top + q + pipe[s] = top + rest
    BY <1>3, <1>5
  <2>3. Upto(top + rest) = Upto(both + rest)
    BY <1>b, Saturates
  <2>4. both + rest = sum[l] + r + pipe[s]
    BY <1>2, <1>3, <1>4
  <2> QED BY <2>1, <2>2, <2>3, <2>4
<1>13. /\ more \in [0 .. Len(queue') -> 0 .. Limit + 1]
       /\ \A i \in 1 .. Len(queue') :
            more[i] = Upto(more[i - 1] + Units(queue'[i], s))
       /\ written'[s] = Upto(more[Len(queue')] + Units(reader'[s], s) + pipe'[s])
  BY <1>6, <1>7, <1>10, <1>11, <1>12
<1> HIDE DEF more
<1> QED BY <1>8, <1>13 DEF Counted, Tally

\* An event that is received, and kept whole, is counted as kept.
LEMMA CountedKept ==
  ASSUME TypeOK, NEW s \in Stream, Counted(s),
         queue # <<>>, queue' = Tail(queue),
         kept'[s] = kept[s] + Units(Head(queue), s), kept'[s] <= Limit,
         written'[s] = written[s], pipe'[s] = pipe[s], reader'[s] = reader[s]
  PROVE  Counted(s)'
<1>1. PICK sum \in [0 .. Len(queue) -> 0 .. Limit + 1] : Tally(s, sum)
  BY DEF Counted
<1> DEFINE l == Len(queue')
           less == [i \in 0 .. l |-> sum[i + 1]]
<1>2. /\ l \in Nat /\ Len(queue) = l + 1 /\ Head(queue) = queue[1]
      /\ Head(queue) \in Event
      /\ \A i \in 1 .. l : queue'[i] = queue[i + 1]
  BY Queues DEF TypeOK
<1>3. \A i \in 0 .. l : i + 1 \in 0 .. Len(queue)
  BY <1>2
<1>4. less \in [0 .. l -> 0 .. Limit + 1]
  BY <1>3
<1>5. sum[1] = Upto(sum[0] + Units(queue[1], s)) /\ sum[0] = kept[s]
  BY <1>1, <1>2 DEF Tally
<1>6. kept'[s] \in Nat
  <2>1. kept[s] \in Nat /\ Units(Head(queue), s) \in Nat
    BY <1>2, Weights DEF TypeOK
  <2> QED BY <2>1
<1>7. sum[1] = kept'[s]
  BY <1>2, <1>5, <1>6, Saturates
<1>8. less[0] = kept'[s]
  BY <1>2, <1>7
<1>9. ASSUME NEW i \in 1 .. l
      PROVE  less[i] = Upto(less[i - 1] + Units(queue'[i], s))
  <2>1. i + 1 \in 1 .. Len(queue) /\ (i + 1) - 1 = i
    BY <1>2
  <2>2. sum[i + 1] = Upto(sum[(i + 1) - 1] + Units(queue[i + 1], s))
    BY <1>1, <2>1 DEF Tally
  <2>3. less[i] = sum[i + 1] /\ less[i - 1] = sum[i]
    BY <1>2
  <2> QED BY <1>2, <2>1, <2>2, <2>3
<1>10. written'[s] = Upto(less[l] + Units(reader'[s], s) + pipe'[s])
  <2>1. less[l] = sum[Len(queue)]
    BY <1>2
  <2> QED BY <1>1, <2>1 DEF Tally
<1> HIDE DEF less
<1> QED BY <1>4, <1>8, <1>9, <1>10 DEF Counted, Tally

\* A step that leaves the data where it is leaves it counted.
LEMMA CountedStays ==
  ASSUME UNCHANGED <<pipe, reader, queue, written, kept>>, NEW s \in Stream,
         Counted(s)
  PROVE  Counted(s)'
BY DEF Counted, Tally

\* A reader that is over stays so.
LEMMA OverStays ==
  ASSUME TypeOK, [Next]_vars, NEW s \in Stream, reader[s] = Over
  PROVE  reader'[s] = Over
<1>0. Over # Nothing /\ Over \notin Event /\ reader \in [Stream -> Event \cup {Nothing, Over}]
  BY Events DEF TypeOK
<1>1. ASSUME UNCHANGED reader PROVE reader'[s] = Over
  BY <1>1
<1>2. ASSUME NEW r \in Stream, ReadFails(r) \/ Reader(r) PROVE reader'[s] = Over
  <2>1. CASE r = s
    BY <1>0, <1>2, <2>1 DEF ReadFails, Reader, Read, ReadEnd, Send, GiveUp
  <2>2. CASE r # s
    BY <1>0, <1>2, <2>2
    DEF ReadFails, Reader, Read, ReadEnd, Send, GiveUp, Take
  <2> QED BY <2>1, <2>2
<1> QED
  BY <1>1, <1>2
  DEF Next, Main, Start, Write, Close, Exit, Die, Receive, Idle, Terminate,
      Wait, LoseTrack, WaitKilled, Abandon, Sweep, Drain, Return, Leave, Stay,
      vars, channels

\* An event that does not carry what exceeds the limit is kept whole, and a
\* run that met the limit never forgets it.
LEMMA Whole ==
  ASSUME TypeOK, NEW event \in Event, Keep(event)
  PROVE  /\ limited => limited'
         /\ ~limited' /\ event.kind = "data" =>
              \A s \in Stream :
                /\ kept'[s] = kept[s] + Units(event, s)
                /\ kept[s] <= Limit => kept'[s] <= Limit
<1>1. event.stream \in Stream /\ event.size \in 0 .. Chunk
  BY Fields
<1>2. kept \in [Stream -> 0 .. Limit + 1] /\ limited \in BOOLEAN
  BY DEF TypeOK
<1>3. limited' = (limited \/ kept[event.stream] + event.size > Limit)
  BY DEF Keep
<1>4. ASSUME ~limited', event.kind = "data", NEW s \in Stream
      PROVE  /\ kept'[s] = kept[s] + Units(event, s)
             /\ kept[s] <= Limit => kept'[s] <= Limit
  <2>1. ~(kept[event.stream] + event.size > Limit)
    BY <1>3, <1>4
  <2>2. kept' = [kept EXCEPT ![event.stream] = kept[event.stream] + event.size]
    BY <1>1, <1>2, <2>1 DEF Keep
  <2>3. CASE s = event.stream
    <3>1. kept'[s] = kept[event.stream] + event.size /\ Units(event, s) = event.size
      BY <1>2, <1>4, <2>2, <2>3 DEF Units
    <3> QED BY <1>1, <1>2, <2>1, <2>3, <3>1, SizeAssumption
  <2>4. CASE s # event.stream
    <3>1. kept'[s] = kept[s] /\ Units(event, s) = 0
      BY <1>2, <2>2, <2>4 DEF Units
    <3>2. kept[s] \in Nat
      BY <1>2, SizeAssumption
    <3> QED BY <3>1, <3>2
  <2> QED BY <2>3, <2>4
<1> QED BY <1>3, <1>4

\* A run that goes on does not forget a read error.
LEMMA BrokenStays ==
  ASSUME [Next]_vars, Listening'
  PROVE  broken \subseteq broken'
<1>1. ~Abandon /\ ~Return /\ ~LoseTrack
  BY DEF Abandon, Return, LoseTrack, Leave, Listening, Ended
<1> QED
  BY <1>1
  DEF Next, Main, Start, Write, ReadFails, Close, Exit, Die, Reader, Read, ReadEnd,
      Send, GiveUp, Receive, Idle, Terminate, Wait, WaitKilled, Sweep, Drain, Stay,
      vars

\* No more is kept of a stream than the limit, but with the notice of an error.
LEMMA WithinStep ==
  ASSUME TypeOK, TypeOK', [Next]_vars, Listening => ReaderInv, Within
  PROVE  Within'
<1>0. kept \in [Stream -> 0 .. Limit + 1] /\ queue \in Seq(Event) /\ broken \subseteq Stream
  BY DEF TypeOK
<1>1. ASSUME kept' = kept, broken \subseteq broken' PROVE Within'
  BY <1>1 DEF Within
<1>2. ASSUME NEW event \in Event, Keep(event), broken' = broken PROVE Within'
  <2> SUFFICES ASSUME NEW s \in Stream, kept'[s] > Limit PROVE s \in broken
    BY <1>2 DEF Within
  <2>1. event.stream \in Stream /\ event.size \in Nat
    BY Fields, SizeAssumption
  <2>2. s # event.stream
    BY <1>0, <1>2, <2>1, SizeAssumption DEF Keep
  <2>3. kept'[s] = kept[s]
    BY <1>0, <1>2, <2>2 DEF Keep
  <2> QED BY <2>3 DEF Within
<1>3. ASSUME NEW late, Receive(late) PROVE Within'
  <2>1. /\ Head(queue) \in Event /\ Head(queue) = queue[1] /\ 1 \in 1 .. Len(queue)
        /\ broken' = broken /\ Listening
    BY <1>0, <1>3, Queues DEF Receive, Listening, Ended
  <2>2. CASE Head(queue).kind = "data"
    BY <1>2, <1>3, <2>1, <2>2 DEF Receive
  <2>3. CASE Head(queue).kind = "error"
    <3>1. Note(Head(queue).stream) /\ Head(queue).stream \in broken
      BY <1>3, <2>1, <2>3 DEF Receive, ReaderInv
    <3>2. \A r \in Stream \ {Head(queue).stream} : kept'[r] = kept[r]
      BY <2>1, <3>1, Fields, Noting
    <3> QED BY <2>1, <3>1, <3>2 DEF Within
  <2>4. CASE Head(queue).kind \notin {"data", "error"}
    BY <1>1, <1>3, <2>1, <2>4 DEF Receive
  <2> QED BY <2>2, <2>3, <2>4
<1>4. ASSUME Drain PROVE Within'
  <2>1. Head(queue) \in Event
    BY <1>0, <1>4, Queues DEF Drain
  <2> QED BY <1>1, <1>2, <1>4, <2>1 DEF Drain
<1>5. ASSUME NEW l, Leave(l) PROVE Within'
  BY <1>5, SizeAssumption DEF Leave, Within
<1>6. ASSUME NEW t, NEW u, Start(t, u) \/ Close(t) \/ Exit(t) \/ Die(t) PROVE Within'
  BY <1>1, <1>6 DEF Start, Close, Exit, Die, outcome
<1>7. ASSUME NEW s, Write(s) \/ ReadFails(s) \/ Reader(s) PROVE Within'
  BY <1>1, <1>7 DEF Write, ReadFails, Reader, Read, ReadEnd, Send, GiveUp, outcome
<1>8. ASSUME NEW late, Idle(late) PROVE Within'
  BY <1>1, <1>8 DEF Idle
<1>9. ASSUME NEW gone, Terminate(gone) PROVE Within'
  BY <1>1, <1>9 DEF Terminate
<1>10. ASSUME Wait \/ WaitKilled \/ Sweep PROVE Within'
  BY <1>1, <1>10 DEF Wait, WaitKilled, Sweep, outcome
<1>11. ASSUME UNCHANGED vars PROVE Within'
  BY <1>1, <1>11 DEF vars, outcome
<1> QED
  BY <1>3, <1>4, <1>5, <1>6, <1>7, <1>8, <1>9, <1>10, <1>11
  DEF Next, Main, Abandon, Return, LoseTrack, Stay

\* No unit of the output is lost on its way.
LEMMA CountStep ==
  ASSUME TypeOK, TypeOK', [Next]_vars, Listening', ReaderInv, CountInv, Within,
         ~limited', NEW s \in Stream, s \notin broken'
  PROVE  Counted(s)'
<1>0. Listening /\ s \notin broken
  <2>1. broken \subseteq broken'
    BY BrokenStays
  <2> QED BY <2>1, Stages DEF Listening, Ended
<1>1. reader[s] \in Event \cup {Nothing, Over} /\ pipe[s] \in Nat
      /\ written[s] \in 0 .. Limit + 1
  BY SizeAssumption DEF TypeOK
<1>2. written[s] = Upto(written[s] + 0)
  BY <1>1, SizeAssumption DEF Upto
<1>3. ASSUME ~limited, queue' = queue, kept' = kept, NEW k \in Nat,
             written'[s] = Upto(written[s] + k),
             Units(reader'[s], s) + pipe'[s] = Units(reader[s], s) + pipe[s] + k
      PROVE  Counted(s)'
  <2>1. Counted(s)
    BY <1>0, <1>3 DEF CountInv
  <2>2. reader'[s] \in Event \cup {Nothing, Over} /\ pipe'[s] \in Nat
    BY SizeAssumption DEF TypeOK
  <2>3. Units(reader'[s], s) \in Nat
    BY <2>2, Weights
  <2>4. kept'[s] = kept[s]
    BY <1>3
  <2> QED BY <1>3, <2>1, <2>2, <2>3, <2>4, CountedMoves
<1>4. ASSUME UNCHANGED <<pipe, reader, queue, written, kept, limited>>
      PROVE  Counted(s)'
  BY <1>0, <1>4, CountedStays DEF CountInv
<1>5. ASSUME NEW r \in Stream, Write(r) PROVE Counted(s)'
  <2>1. /\ ~limited /\ queue' = queue /\ kept' = kept /\ reader' = reader
        /\ pipe' = [pipe EXCEPT ![r] = @ + 1]
        /\ written' = [written EXCEPT ![r] = Upto(@ + 1)]
    BY <1>0, <1>5 DEF Write, outcome
  <2>2. Units(reader[s], s) \in Nat
    BY <1>1, Weights
  <2>3. CASE s = r
    <3>1. written'[s] = Upto(written[s] + 1) /\ pipe'[s] = pipe[s] + 1
      BY <2>1, <2>3 DEF TypeOK
    <3>2. Units(reader'[s], s) + pipe'[s] = Units(reader[s], s) + pipe[s] + 1
      BY <1>1, <2>1, <2>2, <3>1
    <3> QED BY <1>3, <2>1, <3>1, <3>2
  <2>4. CASE s # r
    <3>1. written'[s] = written[s] /\ pipe'[s] = pipe[s]
      BY <2>1, <2>4 DEF TypeOK
    <3>2. Units(reader'[s], s) + pipe'[s] = Units(reader[s], s) + pipe[s] + 0
      BY <1>1, <2>1, <2>2, <3>1
    <3>3. written'[s] = Upto(written[s] + 0)
      BY <1>2, <3>1
    <3> QED BY <1>3, <2>1, <3>2, <3>3
  <2> QED BY <2>3, <2>4
<1>6. ASSUME ~limited, queue' = queue, kept' = kept, written' = written,
             Units(reader'[s], s) + pipe'[s] = Units(reader[s], s) + pipe[s]
      PROVE  Counted(s)'
  <2>1. Units(reader[s], s) \in Nat
    BY <1>1, Weights
  <2>2. Units(reader'[s], s) + pipe'[s] = Units(reader[s], s) + pipe[s] + 0
    BY <1>1, <1>6, <2>1
  <2>3. written'[s] = Upto(written[s] + 0)
    BY <1>2, <1>6
  <2> QED BY <1>3, <1>6, <2>2, <2>3
<1>7. ASSUME NEW r \in Stream, NEW n \in 1 .. Chunk, Read(r, n) PROVE Counted(s)'
  <2>1. /\ ~limited /\ queue' = queue /\ kept' = kept /\ written' = written
        /\ reader[r] = Nothing /\ n <= pipe[r]
        /\ pipe' = [pipe EXCEPT ![r] = @ - n]
        /\ reader' = [reader EXCEPT ![r] = Data(r, n)]
    BY <1>7 DEF Read, Take, outcome
  <2>2. CASE s = r
    <3>1. reader'[s] = Data(s, n) /\ pipe'[s] = pipe[s] - n
      BY <2>1, <2>2 DEF TypeOK
    <3>2. Units(reader[s], s) = 0 /\ Units(reader'[s], s) = n
      BY <2>1, <2>2, <3>1 DEF Units, Nothing, Data
    <3>3. n \in Nat
      BY SizeAssumption
    <3>4. Units(reader'[s], s) + pipe'[s] = Units(reader[s], s) + pipe[s]
      BY <1>1, <2>1, <3>1, <3>2, <3>3
    <3> QED BY <1>6, <2>1, <3>4
  <2>3. CASE s # r
    <3>1. reader'[s] = reader[s] /\ pipe'[s] = pipe[s]
      BY <2>1, <2>3 DEF TypeOK
    <3> QED BY <1>6, <2>1, <3>1
  <2> QED BY <2>2, <2>3
<1>8. ASSUME NEW r \in Stream, ReadEnd(r) \/ ReadFails(r) PROVE Counted(s)'
  <2>1. /\ ~limited /\ queue' = queue /\ kept' = kept /\ written' = written
        /\ reader[r] = Nothing /\ pipe' = pipe
        /\ \/ reader' = [reader EXCEPT ![r] = Eof(r)]
           \/ reader' = [reader EXCEPT ![r] = Error(r)]
    BY <1>8 DEF ReadEnd, ReadFails, Take, outcome
  <2>2. Units(reader'[s], s) = Units(reader[s], s)
    <3>1. CASE s = r
      <4>1. reader'[s] = Eof(s) \/ reader'[s] = Error(s)
        BY <2>1, <3>1 DEF TypeOK
      <4> QED BY <2>1, <3>1, <4>1 DEF Units, Nothing, Eof, Error
    <3>2. CASE s # r
      BY <2>1, <3>2 DEF TypeOK
    <3> QED BY <3>1, <3>2
  <2> QED BY <1>6, <2>1, <2>2
<1>9. ASSUME NEW r \in Stream, Send(r) PROVE Counted(s)'
  <2> DEFINE event == reader[r]
  <2>1. /\ ~limited /\ kept' = kept /\ written' = written /\ pipe' = pipe
        /\ event \in Event /\ queue' = Append(queue, event)
        /\ \/ reader' = [reader EXCEPT ![r] = Nothing]
           \/ reader' = [reader EXCEPT ![r] = Over]
    BY <1>9 DEF Send, Take, outcome
  <2>2. Counted(s)
    BY <1>0, <2>1 DEF CountInv
  <2>3. \/ reader[s] = event /\ reader'[s] \in {Nothing, Over}
        \/ reader'[s] = reader[s] /\ Units(event, s) = 0
    <3>1. CASE s = r
      BY <2>1, <3>1 DEF TypeOK
    <3>2. CASE s # r
      <4>1. event.stream = r
        BY <2>1 DEF ReaderInv
      <4> QED BY <2>1, <3>2, <4>1 DEF Units, TypeOK
    <3> QED BY <3>1, <3>2
  <2> HIDE DEF event
  <2> QED BY <2>1, <2>2, <2>3, CountedSent
<1>10. ASSUME ~limited, queue # <<>>, queue' = Tail(queue),
              IF Head(queue).kind = "data" THEN Keep(Head(queue))
              ELSE kept'[s] = kept[s],
              UNCHANGED <<pipe, reader, written>>
       PROVE  Counted(s)'
  <2>1. Counted(s)
    BY <1>0, <1>10 DEF CountInv
  <2>2. Head(queue) \in Event
    BY <1>10, Queues DEF TypeOK
  <2>3. kept'[s] = kept[s] + Units(Head(queue), s) /\ kept'[s] <= Limit
    <3>0. kept[s] \in Nat /\ kept[s] <= Limit
      <4>1. kept[s] \in 0 .. Limit + 1 /\ ~(kept[s] > Limit)
        BY <1>0 DEF TypeOK, Within
      <4> QED BY <4>1, SizeAssumption
    <3>1. CASE Head(queue).kind = "data"
      BY <1>10, <2>2, <3>0, <3>1, Whole
    <3>2. CASE Head(queue).kind # "data"
      <4>1. Units(Head(queue), s) = 0 /\ kept'[s] = kept[s]
        BY <1>10, <3>2 DEF Units
      <4> QED BY <3>0, <4>1
    <3> QED BY <3>1, <3>2
  <2> QED BY <1>10, <2>1, <2>3, CountedKept
<1>11. ASSUME NEW late, Receive(late) PROVE Counted(s)'
  <2>1. ~limited
    <3>1. CASE Head(queue).kind = "data"
      BY <1>11, <3>1, Queues, Whole DEF Receive, TypeOK
    <3>2. CASE Head(queue).kind # "data"
      BY <1>11, <3>2 DEF Receive
    <3> QED BY <3>1, <3>2
  <2>2. Head(queue).kind # "data" => kept'[s] = kept[s]
    <3> SUFFICES ASSUME Head(queue).kind = "error" PROVE kept'[s] = kept[s]
      BY <1>11 DEF Receive
    <3>1. Head(queue) \in Event /\ Head(queue) = queue[1] /\ 1 \in 1 .. Len(queue)
      BY <1>11, Queues DEF Receive, TypeOK
    <3>2. Note(Head(queue).stream) /\ Head(queue).stream \in broken
      BY <1>11, <3>1 DEF Receive, ReaderInv
    <3> QED BY <1>0, <3>1, <3>2, Fields, Noting
  <2> QED BY <1>10, <1>11, <2>1, <2>2 DEF Receive
<1>12. CASE Drain
  <2>1. ~limited
    <3>1. CASE Head(queue).kind = "data"
      BY <1>12, <3>1, Queues, Whole DEF Drain, TypeOK
    <3>2. CASE Head(queue).kind # "data"
      BY <1>12, <3>2 DEF Drain
    <3> QED BY <3>1, <3>2
  <2> QED BY <1>10, <1>12, <2>1 DEF Drain
<1>13. ASSUME NEW t, NEW u, Start(t, u) \/ Close(t) \/ Exit(t) \/ Die(t)
       PROVE  Counted(s)'
  BY <1>4, <1>13 DEF Start, Close, Exit, Die, channels, outcome
<1>14. ASSUME NEW late, Idle(late) PROVE Counted(s)'
  BY <1>4, <1>14 DEF Idle, channels
<1>15. ASSUME NEW gone, Terminate(gone) PROVE Counted(s)'
  BY <1>4, <1>15 DEF Terminate, channels
<1>16. CASE Wait \/ WaitKilled \/ Sweep
  BY <1>4, <1>16 DEF Wait, WaitKilled, Sweep, channels, outcome
<1>17. ~Abandon /\ ~Return /\ ~LoseTrack
  BY DEF Abandon, Return, LoseTrack, Leave, Listening, Ended
<1>18. ASSUME NEW r \in Stream, Reader(r) PROVE Counted(s)'
  <2>1. ~GiveUp(r)
    BY <1>0 DEF GiveUp
  <2> QED BY <1>7, <1>8, <1>9, <1>18, <2>1 DEF Reader
<1>19. CASE UNCHANGED vars
  BY <1>4, <1>19 DEF vars, channels, outcome
<1> QED
  BY <1>5, <1>8, <1>11, <1>12, <1>13, <1>14, <1>15, <1>16, <1>17, <1>18, <1>19
  DEF Next, Main, Stay

\* The queue tells of no read error that did not happen.
LEMMA FailuresKnown ==
  ASSUME TypeOK, [Next]_vars, Listening', ReaderInv
  PROVE  \A j \in 1 .. Len(queue') :
           queue'[j].kind = "error" => queue'[j].stream \in broken'
<1> SUFFICES ASSUME NEW j \in 1 .. Len(queue'), queue'[j].kind = "error"
             PROVE  queue'[j].stream \in broken'
  OBVIOUS
<1>1. broken \subseteq broken' /\ queue \in Seq(Event)
  BY BrokenStays DEF TypeOK
<1>2. CASE queue' = queue
  BY <1>1, <1>2 DEF ReaderInv
<1>3. CASE queue # <<>> /\ queue' = Tail(queue)
  <2>1. j + 1 \in 1 .. Len(queue) /\ queue'[j] = queue[j + 1]
    BY <1>1, <1>3, Queues
  <2> QED BY <1>1, <2>1 DEF ReaderInv
<1>4. CASE \E s \in Stream : Send(s)
  <2>1. PICK s \in Stream : Send(s)
    BY <1>4
  <2>2. queue' = Append(queue, reader[s]) /\ reader[s] \in Event
    BY <2>1 DEF Send
  <2>3. CASE j \in 1 .. Len(queue)
    BY <1>1, <2>2, <2>3 DEF ReaderInv
  <2>4. CASE j \notin 1 .. Len(queue)
    <3>1. queue'[j] = reader[s]
      BY <1>1, <2>2, <2>4
    <3> QED BY <1>1, <2>2, <3>1 DEF ReaderInv
  <2> QED BY <2>3, <2>4
<1>5. ~Abandon /\ ~Return /\ ~LoseTrack
  BY DEF Abandon, Return, LoseTrack, Leave, Listening, Ended
<1> QED
  BY <1>2, <1>3, <1>4, <1>5
  DEF Next, Main, Start, Write, ReadFails, Close, Exit, Die, Reader, Read, ReadEnd,
      GiveUp, Receive, Idle, Terminate, Wait, WaitKilled, Sweep, Drain, Stay, vars,
      channels

\* A pipe that ended stays empty, and what the queue says of it stays true.
LEMMA ReaderStep ==
  ASSUME TypeOK, TypeOK', [Next]_vars, Listening', ReaderInv
  PROVE  ReaderInv'
<1>0. Listening
  BY Stages DEF Listening, Ended
<1>1. /\ reader \in [Stream -> Event \cup {Nothing, Over}]
      /\ pipe \in [Stream -> 0 .. Room] /\ queue \in Seq(Event)
      /\ Over # Nothing /\ Over \notin Event /\ Nothing \notin Event
  <2>1. "stdout" \in Stream
    BY DEF Stream
  <2> QED BY <2>1, Events DEF TypeOK
<1> DEFINE Hand(s) ==
             /\ reader[s] \in Event => reader[s].stream = s
             /\ reader[s].kind = "error" => s \in broken
             /\ s \notin broken /\ reader[s].kind \in {"eof", "over"} =>
                  holds = {} /\ pipe[s] = 0
           After(s) ==
             /\ reader'[s] \in Event => reader'[s].stream = s
             /\ reader'[s].kind = "error" => s \in broken'
             /\ s \notin broken' /\ reader'[s].kind \in {"eof", "over"} =>
                  holds' = {} /\ pipe'[s] = 0
           Told == \A j \in 1 .. Len(queue') :
                     queue'[j].kind # "data" => reader'[queue'[j].stream] = Over
<1>2. \A s \in Stream : Hand(s)
  BY DEF ReaderInv
<1>3. \A s \in Stream : reader[s] = Over => reader'[s] = Over
  BY OverStays
<1>4. holds = {} => holds' = {}
  BY NoReturn
<1>5. ASSUME NEW s \in Stream, reader'[s] = reader[s], pipe'[s] = pipe[s],
             s \in broken => s \in broken'
      PROVE  After(s)
  BY <1>2, <1>4, <1>5
<1>6. ASSUME queue' = queue PROVE Told
  <2> SUFFICES ASSUME NEW j \in 1 .. Len(queue), queue[j].kind # "data"
               PROVE  reader'[queue[j].stream] = Over
    BY <1>6
  <2>1. reader[queue[j].stream] = Over
    BY DEF ReaderInv
  <2>2. queue[j] \in Event
    BY <1>1
  <2>3. queue[j].stream \in Stream
    BY <2>2, Fields
  <2> QED BY <1>3, <2>1, <2>3
<1>7. ASSUME queue # <<>>, queue' = Tail(queue) PROVE Told
  <2> SUFFICES ASSUME NEW j \in 1 .. Len(queue'), queue'[j].kind # "data"
               PROVE  reader'[queue'[j].stream] = Over
    OBVIOUS
  <2>1. j + 1 \in 1 .. Len(queue) /\ queue'[j] = queue[j + 1]
    BY <1>1, <1>7, Queues
  <2>2. reader[queue[j + 1].stream] = Over
    BY <2>1 DEF ReaderInv
  <2>3. queue[j + 1] \in Event
    BY <1>1, <2>1
  <2>4. queue[j + 1].stream \in Stream
    BY <2>3, Fields
  <2> QED BY <1>3, <2>1, <2>2, <2>4
<1> DEFINE Goal == Told /\ \A s \in Stream : After(s)
<1>8. ASSUME UNCHANGED <<pipe, reader, broken>>, Told PROVE Goal
  BY <1>5, <1>8
<1>9. ASSUME NEW r \in Stream, Write(r) PROVE Goal
  <2>1. /\ UNCHANGED <<reader, queue, broken>> /\ holds # {}
        /\ reader[r] # Over /\ pipe' = [pipe EXCEPT ![r] = @ + 1]
    BY <1>9 DEF Write, outcome, tasks
  <2>2. ASSUME NEW s \in Stream PROVE After(s)
    BY <1>2, <2>1
  <2> QED BY <1>6, <2>1, <2>2
<1>10. ASSUME NEW r \in Stream, NEW n \in 1 .. Chunk, Read(r, n) PROVE Goal
  <2>1. /\ UNCHANGED <<queue, broken>>
        /\ reader' = [reader EXCEPT ![r] = Data(r, n)]
        /\ pipe' = [pipe EXCEPT ![r] = @ - n]
    BY <1>10 DEF Read, Take, outcome
  <2>2. ASSUME NEW s \in Stream PROVE After(s)
    <3>1. CASE s = r
      BY <1>1, <2>1, <3>1 DEF Data
    <3>2. CASE s # r
      BY <1>1, <1>5, <2>1, <3>2
    <3> QED BY <3>1, <3>2
  <2> QED BY <1>6, <2>1, <2>2
<1>11. ASSUME NEW r \in Stream, ReadEnd(r) PROVE Goal
  <2>1. /\ UNCHANGED <<pipe, holds, queue, broken>> /\ pipe[r] = 0 /\ holds = {}
        /\ reader' = [reader EXCEPT ![r] = Eof(r)]
    BY <1>11 DEF ReadEnd, Take, outcome, tasks
  <2>2. ASSUME NEW s \in Stream PROVE After(s)
    <3>1. CASE s = r
      BY <1>1, <2>1, <3>1 DEF Eof
    <3>2. CASE s # r
      BY <1>1, <1>5, <2>1, <3>2
    <3> QED BY <3>1, <3>2
  <2> QED BY <1>6, <2>1, <2>2
<1>12. ASSUME NEW r \in Stream, ReadFails(r) PROVE Goal
  <2>1. /\ UNCHANGED <<pipe, queue>> /\ broken' = broken \cup {r}
        /\ reader' = [reader EXCEPT ![r] = Error(r)]
    BY <1>12 DEF ReadFails, Take, outcome
  <2>2. ASSUME NEW s \in Stream PROVE After(s)
    <3>1. CASE s = r
      BY <1>1, <2>1, <3>1 DEF Error
    <3>2. CASE s # r
      BY <1>1, <1>5, <2>1, <3>2
    <3> QED BY <3>1, <3>2
  <2> QED BY <1>6, <2>1, <2>2
<1>13. ASSUME NEW r \in Stream, Send(r) PROVE Goal
  <2> DEFINE event == reader[r]
             next == IF event.kind = "data" THEN Nothing ELSE Over
  <2>1. /\ UNCHANGED <<pipe, holds, broken>>
        /\ event \in Event /\ queue' = Append(queue, event)
        /\ reader' = [reader EXCEPT ![r] = next]
    BY <1>13 DEF Send, Take, outcome, tasks
  <2>2. reader'[r] = next
    BY <1>1, <2>1
  <2>3. event.stream = r /\ event.kind \in {"data", "eof", "error"}
    BY <1>2, <2>1, Fields
  <2>4. ASSUME NEW s \in Stream PROVE After(s)
    <3>1. CASE s = r
      <4>1. CASE event.kind = "data"
        BY <1>1, <2>2, <3>1, <4>1 DEF Nothing
      <4>2. CASE event.kind # "data"
        <5>1. reader'[s] = Over
          BY <2>2, <3>1, <4>2
        <5>2. s \notin broken => holds = {} /\ pipe[s] = 0
          BY <1>2, <2>3, <3>1, <4>2
        <5> QED BY <1>1, <2>1, <5>1, <5>2 DEF Over
      <4> QED BY <4>1, <4>2
    <3>2. CASE s # r
      BY <1>1, <1>5, <2>1, <3>2
    <3> QED BY <3>1, <3>2
  <2>5. Told
    <3> SUFFICES ASSUME NEW j \in 1 .. Len(queue'), queue'[j].kind # "data"
                 PROVE  reader'[queue'[j].stream] = Over
      OBVIOUS
    <3>1. CASE j \in 1 .. Len(queue)
      <4>1. queue'[j] = queue[j] /\ queue[j] \in Event
        BY <1>1, <2>1, <3>1
      <4>2. reader[queue[j].stream] = Over
        BY <3>1, <4>1 DEF ReaderInv
      <4>3. queue[j].stream \in Stream
        BY <4>1, Fields
      <4> QED BY <1>3, <4>1, <4>2, <4>3
    <3>2. CASE j \notin 1 .. Len(queue)
      <4>1. queue'[j] = event
        BY <1>1, <2>1, <3>2
      <4> QED BY <2>2, <2>3, <4>1
    <3> QED BY <3>1, <3>2
  <2> QED BY <2>4, <2>5
<1>v. \A j \in 1 .. Len(queue') :
        queue'[j].kind = "error" => queue'[j].stream \in broken'
  BY FailuresKnown
<1>w. Goal => ReaderInv'
  BY <1>v DEF ReaderInv
<1> HIDE DEF Goal, Told
<1>14. ASSUME NEW r \in Stream, Reader(r) PROVE Goal
  <2>1. ~GiveUp(r)
    BY <1>0 DEF GiveUp
  <2> QED BY <1>10, <1>11, <1>13, <1>14, <2>1 DEF Reader
<1>15. ASSUME NEW t, NEW u, Start(t, u) \/ Close(t) \/ Exit(t) \/ Die(t) PROVE Goal
  BY <1>6, <1>8, <1>15 DEF Start, Close, Exit, Die, channels
<1>16. ASSUME NEW late, Receive(late) PROVE Goal
  BY <1>7, <1>8, <1>16 DEF Receive
<1>17. ASSUME NEW late, Idle(late) PROVE Goal
  BY <1>6, <1>8, <1>17 DEF Idle, channels
<1>18. ASSUME NEW gone, Terminate(gone) PROVE Goal
  BY <1>6, <1>8, <1>18 DEF Terminate, channels
<1>19. ASSUME Wait \/ WaitKilled \/ Sweep PROVE Goal
  BY <1>6, <1>8, <1>19 DEF Wait, WaitKilled, Sweep, channels
<1>20. ASSUME Drain PROVE Goal
  BY <1>7, <1>8, <1>20 DEF Drain
<1>21. ~Abandon /\ ~Return /\ ~LoseTrack
  BY DEF Abandon, Return, LoseTrack, Leave, Listening, Ended
<1>22. ASSUME UNCHANGED vars PROVE Goal
  BY <1>6, <1>8, <1>22 DEF vars, channels
<1>23. Goal
  BY <1>9, <1>12, <1>14, <1>15, <1>16, <1>17, <1>18, <1>19, <1>20, <1>21, <1>22
  DEF Next, Main, Stay
<1> QED BY <1>23, <1>w

\* The loop does not take a pipe for closed that is not, and it is left with
\* an open one only at the limit or at the deadline.
LEMMA LoopStep ==
  ASSUME TypeOK, [Next]_vars, Listening', ReaderInv, LoopInv
  PROVE  LoopInv'
<1>1. \A s \in Stream : reader[s] = Over => reader'[s] = Over
  BY OverStays
<1> DEFINE Goal ==
             /\ pc' = "loop" => ~limited' /\ ~timedOut'
             /\ \A s \in Stream :
                  (IF pc' = "loop" THEN ~isOpen'[s] ELSE ~limited' /\ ~timedOut') =>
                    reader'[s] = Over
<1>2. ASSUME UNCHANGED <<pc, isOpen, limited, timedOut>> PROVE Goal
  BY <1>1, <1>2 DEF LoopInv
<1>3. ASSUME pc # "loop", pc' # "loop", limited => limited', timedOut' = timedOut
      PROVE  Goal
  BY <1>1, <1>3 DEF LoopInv
<1>4. ASSUME NEW late \in BOOLEAN, Round(late), ~limited', pc = "loop",
             \A s \in Stream : ~isOpen'[s] => reader'[s] = Over
      PROVE  Goal
  BY <1>4, Rounds DEF TypeOK
<1>5. ASSUME NEW late \in BOOLEAN, Receive(late) PROVE Goal
  <2>1. pc = "loop" /\ ~limited /\ queue # <<>>
    BY <1>5 DEF Receive, LoopInv
  <2>2. /\ Head(queue) \in Event /\ Head(queue) = queue[1]
        /\ 1 \in 1 .. Len(queue)
    BY <2>1, Queues DEF TypeOK
  <2>3. CASE Head(queue).kind = "data" /\ limited'
    <3>1. pc' = "term"
      BY <1>5, <2>3 DEF Receive
    <3> QED BY <2>3, <3>1
  <2>4. CASE Head(queue).kind = "data" /\ ~limited'
    <3>1. Round(late) /\ isOpen' = isOpen
      BY <1>5, <2>4 DEF Receive
    <3>2. \A s \in Stream : ~isOpen'[s] => reader'[s] = Over
      BY <1>1, <2>1, <3>1 DEF LoopInv
    <3> QED BY <1>4, <2>1, <2>4, <3>1, <3>2
  <2>5. CASE Head(queue).kind # "data"
    <3>1. /\ Round(late) /\ limited' = limited
          /\ isOpen' = [isOpen EXCEPT ![Head(queue).stream] = FALSE]
      BY <1>5, <2>5 DEF Receive
    <3>2. reader[Head(queue).stream] = Over
      BY <2>2, <2>5 DEF ReaderInv
    <3>3. ASSUME NEW s \in Stream, ~isOpen'[s] PROVE reader'[s] = Over
      <4>1. s = Head(queue).stream \/ ~isOpen[s]
        BY <3>1, <3>3 DEF TypeOK
      <4> QED BY <1>1, <2>1, <3>2, <4>1 DEF LoopInv
    <3> QED BY <1>4, <2>1, <3>1, <3>3
  <2> QED BY <2>3, <2>4, <2>5
<1>6. ASSUME NEW late \in BOOLEAN, Idle(late) PROVE Goal
  <2>1. /\ pc = "loop" /\ ~limited' /\ Round(late)
        /\ isOpen' = IF \A s \in Stream : reader[s] = Over
                     THEN [s \in Stream |-> FALSE] ELSE isOpen
    BY <1>6 DEF Idle, LoopInv
  <2>2. \A s \in Stream : ~isOpen'[s] => reader'[s] = Over
    BY <1>1, <2>1 DEF LoopInv
  <2> QED BY <1>4, <2>1, <2>2
<1>w. Goal => LoopInv'
  BY DEF LoopInv
<1> HIDE DEF Goal
<1>7. ASSUME NEW t, NEW u, Start(t, u) \/ Close(t) \/ Exit(t) \/ Die(t) PROVE Goal
  BY <1>2, <1>7 DEF Start, Close, Exit, Die, outcome
<1>8. ASSUME NEW s \in Stream, Write(s) \/ ReadFails(s) \/ Reader(s) PROVE Goal
  BY <1>2, <1>8
  DEF Write, ReadFails, Reader, Read, ReadEnd, Send, GiveUp, outcome
<1>9. ASSUME NEW gone, Terminate(gone) PROVE Goal
  BY <1>3, <1>9 DEF Terminate
<1>10. ASSUME Wait \/ WaitKilled \/ Sweep PROVE Goal
  BY <1>3, <1>10 DEF Wait, WaitKilled, Sweep, outcome
<1>11. ASSUME Drain PROVE Goal
  <2>1. limited => limited'
    <3>1. CASE Head(queue).kind = "data"
      BY <1>11, <3>1, Queues, Whole DEF Drain, TypeOK
    <3>2. CASE Head(queue).kind # "data"
      BY <1>11, <3>2 DEF Drain
    <3> QED BY <3>1, <3>2
  <2> QED BY <1>3, <1>11, <2>1 DEF Drain
<1>12. ~Abandon /\ ~Return /\ ~LoseTrack
  BY DEF Abandon, Return, LoseTrack, Leave, Listening, Ended
<1>13. ASSUME UNCHANGED vars PROVE Goal
  BY <1>2, <1>13 DEF vars, outcome
<1>14. Goal
  BY <1>5, <1>6, <1>7, <1>8, <1>9, <1>10, <1>11, <1>12, <1>13
  DEF Next, Main, Stay
<1> QED BY <1>14, <1>w

\* All of this holds to begin with.
LEMMA FlowInit == Init => Reaped /\ Within /\ GroupGone /\ FlowInv
<1> SUFFICES ASSUME Init PROVE Reaped /\ Within /\ GroupGone /\ FlowInv
  OBVIOUS
<1>1. Reaped /\ Within /\ GroupGone
  BY SizeAssumption DEF Init, Reaped, Within, GroupGone
<1>2. ASSUME NEW s \in Stream PROVE Counted(s)
  <2>1. Len(queue) = 0 /\ kept[s] = 0 /\ written[s] = 0 /\ pipe[s] = 0
    BY DEF Init
  <2>2. Units(reader[s], s) = 0
    BY DEF Init, Units, Nothing
  <2>3. Upto(0) = 0
    BY SizeAssumption DEF Upto
  <2> DEFINE sum == [i \in 0 .. Len(queue) |-> 0]
  <2>4. 0 \in 0 .. Limit + 1 /\ 0 \in 0 .. Len(queue)
    BY <2>1, SizeAssumption
  <2>5. sum \in [0 .. Len(queue) -> 0 .. Limit + 1] /\ sum[0] = 0
    BY <2>4
  <2>6. sum[Len(queue)] + Units(reader[s], s) + pipe[s] = 0
    BY <2>1, <2>2, <2>5
  <2>7. Tally(s, sum)
    BY <2>1, <2>3, <2>5, <2>6 DEF Tally
  <2> QED BY <2>5, <2>7 DEF Counted
<1>3. ReaderInv
  <2>1. \A s \in Stream : reader[s] = Nothing
    BY DEF Init
  <2>2. \A s \in Stream : reader[s] \notin Event
    BY <2>1, Events
  <2>3. queue = <<>>
    BY DEF Init
  <2> QED BY <2>1, <2>2, <2>3 DEF ReaderInv, Nothing
<1>4. LoopInv
  BY DEF Init, LoopInv
<1> QED BY <1>1, <1>2, <1>3, <1>4 DEF FlowInv, CountInv

\* Everything a run keeps to: its group, and where its output is.
THEOREM Runs == Spec => [](RunnerInv /\ GroupGone /\ FlowInv)
<1> DEFINE Inv == RunnerInv /\ GroupGone /\ FlowInv
<1>1. Init => Inv
  BY TypeInit, FlowInit DEF RunnerInv
<1>2. Inv /\ [Next]_vars => Inv'
  <2> SUFFICES ASSUME RunnerInv, GroupGone, FlowInv, [Next]_vars
               PROVE  Inv'
    OBVIOUS
  <2>1. TypeOK' /\ Reaped' /\ GroupGone'
    BY GroupStep DEF RunnerInv
  <2>2. TypeOK /\ TypeOK' /\ Within
    BY <2>1 DEF RunnerInv
  <2>4. Within'
    BY <2>2, WithinStep DEF FlowInv
  <2>3. ASSUME Listening' PROVE CountInv' /\ ReaderInv' /\ LoopInv'
    <3>1. Listening
      BY <2>2, <2>3, Stages DEF Listening, Ended
    <3>2. CountInv /\ ReaderInv /\ LoopInv
      BY <3>1 DEF FlowInv
    <3>3. CountInv'
      BY <2>2, <2>3, <3>2, CountStep DEF CountInv
    <3> QED BY <2>2, <2>3, <3>2, <3>3, ReaderStep, LoopStep
  <2> QED BY <2>1, <2>3, <2>4 DEF FlowInv, RunnerInv
<1> QED BY <1>1, <1>2, PTL DEF Spec

\* Nothing of the group is left to run when the run returns, however many
\* processes it had and whatever they ignored.
THEOREM Gone == Spec => []GroupGone
BY Runs, PTL

\* The leader is dead when a run goes on without killing it, and what is kept
\* of a stream never exceeds the limit.
THEOREM Bounded == Spec => []RunnerInv
BY Runs, PTL

\* A run that reports neither the limit nor the deadline has all the output,
\* whatever the sizes of pipes, chunks and queue.
THEOREM AllOfIt == Spec => Complete
<1>1. ASSUME RunnerInv /\ GroupGone /\ FlowInv, Next,
             pc = "drain", pc' = "done", ~timedOut, ~limited,
             NEW s \in Stream \ broken
      PROVE  kept[s] = written[s] /\ holds = {}
  <2>1. CountInv /\ ReaderInv /\ LoopInv /\ TypeOK
    BY <1>1 DEF FlowInv, Listening, Ended, RunnerInv
  <2>2. queue = <<>>
    <3>1. [Next]_vars
      BY <1>1
    <3> QED
      BY <1>1, <2>1, Rounds
      DEF Next, Main, Start, Write, ReadFails, Close, Exit, Die, Reader, Read,
          ReadEnd, Send, GiveUp, Receive, Idle, Terminate, Wait, LoseTrack,
          WaitKilled, Abandon, Sweep, Drain, Return, Leave, Stay, vars
  <2>3. reader[s] = Over
    BY <1>1, <2>1 DEF LoopInv
  <2>4. holds = {} /\ pipe[s] = 0
    BY <2>1, <2>3 DEF ReaderInv, Over
  <2>5. Counted(s)
    BY <1>1, <2>1 DEF CountInv
  <2>6. PICK sum \in [0 .. Len(queue) -> 0 .. Limit + 1] : Tally(s, sum)
    BY <2>5 DEF Counted
  <2>7. Units(reader[s], s) = 0 /\ Len(queue) = 0
    BY <2>2, <2>3 DEF Units, Over
  <2>8. kept[s] \in 0 .. Limit
    <3>1. kept[s] \in 0 .. Limit + 1 /\ ~(kept[s] > Limit)
      BY <1>1, <2>1 DEF TypeOK, RunnerInv, Within
    <3> QED BY <3>1, SizeAssumption
  <2>9. written[s] = Upto(kept[s])
    BY <2>4, <2>6, <2>7, <2>8, SizeAssumption DEF Tally
  <2> QED BY <2>4, <2>8, <2>9, SizeAssumption DEF Upto
<1>2. RunnerInv /\ GroupGone /\ FlowInv /\ [Next]_vars =>
        [pc = "drain" /\ pc' = "done" /\ ~timedOut /\ ~limited =>
           \A s \in Stream \ broken : kept[s] = written[s] /\ holds = {}]_vars
  BY <1>1
<1> QED BY <1>2, Runs, PTL DEF Spec, Complete
=============================================================================
