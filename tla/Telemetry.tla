------------------------------ MODULE Telemetry ------------------------------
(***************************************************************************)
(* What a training run leaves while it trains: the lines of every rollout  *)
(* in traces/ (lab/trace.py) and the points of metrics.jsonl (metrics.py), *)
(* written by the trainer through its context (lab/runner.py), followed by *)
(* another process (cli.py, api.py), and cleared by a person (lab/cli.py). *)
(***************************************************************************)
EXTENDS Naturals, SequencesExt

CONSTANTS
  Function,   \* reward functions; the trainer calls them one after another
  Members,    \* completions of a round
  MaxRounds,  \* bound on the rounds
  MaxPoints,  \* bound on the points
  MaxLines    \* max_mb: lines that fit into one file

VARIABLES
  trainer,    \* where the trainer is, the functions collected, the next line of the round
  round,      \* RolloutTracer.round
  files,      \* traces/: the lines on disk of each file, one after another
  writer,     \* JsonlWriter: its handle's file, and the lines in its buffer
  points,     \* history: the points logged
  metrics,    \* metrics.jsonl, byte by byte
  follower,   \* nawat exp metrics -f
  clearer,    \* nawat exp traces --clear
  live,       \* the run store says it goes on
  failed,     \* history: a line could not be written
  cleared     \* history: traces were removed under a trainer, or after it

vars == <<trainer, round, files, writer, points, metrics, follower, clearer, live, failed, cleared>>
traceVars == <<files, writer>>
metricVars == <<points, metrics>>
readers == <<follower, clearer>>
history == <<failed, cleared>>

-----------------------------------------------------------------------------
(* The series.                                                             *)

\* A point is one line: a character and the end of the line; a wide character is two bytes.
Bytes(n, wide) == IF wide THEN <<[point |-> n, part |-> "lead"], [point |-> n, part |-> "cont"], [point |-> n, part |-> "end"]>>
                          ELSE <<[point |-> n, part |-> "lead"], [point |-> n, part |-> "end"]>>

\* How many characters bytes are read as: a byte without its lead is one, replaced.
Chars(bytes) == Len(SelectSeq([i \in DOMAIN bytes |-> i > 1 /\ bytes[i].part = "cont"], LAMBDA joined : ~joined))

\* Up to the last end of a line.
Complete(bytes) == LET ends == {i \in DOMAIN bytes : bytes[i].part = "end"}
                   IN IF ends = {} THEN <<>> ELSE SubSeq(bytes, 1, CHOOSE i \in ends : \A j \in ends : j <= i)

\* The lines that parse, of those that are complete: the ones read from their start.
Parsed(bytes) ==
  LET whole(i) == bytes[i].part = "end" /\ \E j \in 1..i : bytes[j] = [point |-> bytes[i].point, part |-> "lead"]
      ends == SelectSeq([i \in DOMAIN bytes |-> i], whole)
  IN [i \in DOMAIN ends |-> bytes[ends[i]].point]

-----------------------------------------------------------------------------
(* The trainer.                                                            *)

At(place) == trainer.at = place
Goto(place) == trainer' = [trainer EXCEPT !.at = place]

\* A reward function has scored the round; its scores are collected, or skipped for good.
Score(f) ==
  /\ At("scoring") /\ f \notin trainer.asked
  /\ \E kept \in BOOLEAN :
       LET scores == IF kept THEN trainer.scores \cup {f} ELSE trainer.scores
           asked == trainer.asked \cup {f}
       IN trainer' = [at |-> IF scores = Function THEN "writing" ELSE IF asked = Function THEN "trained" ELSE "scoring",
                      asked |-> asked, scores |-> scores, next |-> 1]
  /\ UNCHANGED <<round, traceVars, metricVars, readers, live, history>>

\* What the handle's file holds once its buffer is written out, unless it was removed meanwhile.
Flushed == IF writer.file = 0 \/ writer.removed THEN files ELSE [files EXCEPT ![writer.file] = @ \o writer.buffer]

\* The file of a handle, with its buffer: what tell() returns, which writes the buffer out.
Length == Len(files[writer.file]) + Len(writer.buffer)

\* Where the next line goes: the first file of the run, the same one, or another when it is full.
File == IF writer.file = 0 THEN Len(files) + 1
        ELSE IF Length + 1 > MaxLines THEN writer.file + 1
        ELSE writer.file

\* JsonlWriter.write.
WriteLine ==
  /\ At("writing") /\ trainer.next <= Members
  /\ LET line == [round |-> round, member |-> trainer.next]
     IN writer' = [file |-> File, buffer |-> <<line>>, removed |-> writer.removed /\ File = writer.file]
  /\ files' = IF File > Len(files) THEN Append(Flushed, <<>>) ELSE Flushed
  /\ trainer' = [trainer EXCEPT !.next = @ + 1]
  /\ UNCHANGED <<round, metricVars, readers, live, history>>

\* The disk is full, once: the rest of the round is given up, and its number used again.
WriteFails ==
  /\ At("writing") /\ trainer.next <= Members
  /\ ~failed /\ failed' = TRUE /\ Goto("trained")
  /\ UNCHANGED <<round, traceVars, metricVars, readers, live, cleared>>

\* Faulty: the buffer is left to be written with the next round.
FlushLater ==
  /\ At("writing") /\ trainer.next > Members
  /\ Goto("reporting")
  /\ UNCHANGED <<round, traceVars, metricVars, readers, live, history>>

Flush ==
  /\ At("writing") /\ trainer.next > Members
  /\ files' = Flushed /\ writer' = [writer EXCEPT !.buffer = <<>>]
  /\ Goto("reporting")
  /\ UNCHANGED <<round, metricVars, readers, live, history>>

\* on_round logs a point: its line appears in one go, or half of it first.
Report ==
  /\ At("reporting")
  /\ points' = Append(points, [event |-> "rollout", round |-> round])
  /\ \E half \in BOOLEAN :
       LET line == Bytes(Len(points) + 1, FALSE)
       IN IF half THEN metrics' = metrics \o SubSeq(line, 1, 1) /\ Goto("half")
          ELSE metrics' = metrics \o line /\ Goto("reported")
  /\ UNCHANGED <<round, traceVars, readers, live, history>>

Rest ==
  /\ At("half")
  /\ metrics' = metrics \o SubSeq(Bytes(Len(points), FALSE), 2, 2)
  /\ Goto("reported")
  /\ UNCHANGED <<round, traceVars, points, readers, live, history>>

\* Faulty: the number stays.
SameRound ==
  /\ At("reported")
  /\ Goto("trained")
  /\ UNCHANGED <<round, traceVars, metricVars, readers, live, history>>

NextRound ==
  /\ At("reported")
  /\ round' = round + 1
  /\ Goto("trained")
  /\ UNCHANGED <<traceVars, metricVars, readers, live, history>>

\* on_log: the trainer logs a step of its own, a script whatever it likes.
Log(wide) ==
  /\ At("trained") /\ trainer.next > 0
  /\ points' = Append(points, [event |-> "log", round |-> round])
  /\ metrics' = metrics \o Bytes(Len(points) + 1, wide)
  /\ trainer' = [trainer EXCEPT !.next = 0]
  /\ UNCHANGED <<round, traceVars, readers, live, history>>

\* The next generation of completions: another list, another batch.
Generate ==
  /\ At("trained") /\ Len(points) < MaxPoints /\ round < MaxRounds
  /\ trainer' = [at |-> "scoring", asked |-> {}, scores |-> {}, next |-> 1]
  /\ UNCHANGED <<round, traceVars, metricVars, readers, live, history>>

\* Context.close, however training ends.
Close ==
  /\ At("trained")
  /\ files' = Flushed /\ writer' = [file |-> 0, buffer |-> <<>>, removed |-> FALSE]
  /\ Goto("ended")
  /\ UNCHANGED <<round, metricVars, readers, live, history>>

\* Killed: any part of the buffer has been written by then.
Kill ==
  /\ trainer.at \notin {"new", "ended"}
  /\ \E n \in 0..Len(writer.buffer) :
       files' = IF n = 0 \/ writer.removed THEN files ELSE [files EXCEPT ![writer.file] = @ \o SubSeq(writer.buffer, 1, n)]
  /\ writer' = [file |-> 0, buffer |-> <<>>, removed |-> FALSE]
  /\ Goto("ended")
  /\ UNCHANGED <<round, metricVars, readers, live, history>>

\* The executor records the end of the run after that of its trainer.
Begin == At("new") /\ live' = TRUE /\ Goto("trained") /\ UNCHANGED <<round, traceVars, metricVars, readers, history>>
End == At("ended") /\ live /\ live' = FALSE /\ UNCHANGED <<trainer, round, traceVars, metricVars, readers, history>>

-----------------------------------------------------------------------------
(* metrics.follow.                                                         *)

Chunk == SubSeq(metrics, follower.position + 1, Len(metrics))

\* Faulty: what was read is taken to be complete.
ReadAll ==
  /\ follower.at = "reading"
  /\ follower' = [follower EXCEPT !.got = @ \o Parsed(Chunk),
                                  !.position = @ + Chars(Chunk),
                                  !.at = IF follower.draining THEN "done" ELSE "asking"]
  /\ UNCHANGED <<trainer, round, traceVars, metricVars, clearer, live, history>>

\* Complete lines only; the position goes on by the characters of them.
Read ==
  /\ follower.at = "reading"
  /\ follower' = [follower EXCEPT !.got = @ \o Parsed(Complete(Chunk)),
                                  !.position = @ + Chars(Complete(Chunk)),
                                  !.at = IF follower.draining THEN "done" ELSE "asking"]
  /\ UNCHANGED <<trainer, round, traceVars, metricVars, clearer, live, history>>

\* still_running: one last read for what was written as it exited.
Ask ==
  /\ follower.at = "asking"
  /\ follower' = [follower EXCEPT !.at = "reading", !.draining = ~live /\ ~At("new")]
  /\ UNCHANGED <<trainer, round, traceVars, metricVars, clearer, live, history>>

-----------------------------------------------------------------------------
(* nawat exp traces --clear.                                               *)

\* A live run's traces are refused; the run that starts next is not seen.
ClearAsk ==
  /\ clearer = "idle" /\ ~live
  /\ clearer' = "asked"
  /\ UNCHANGED <<trainer, round, traceVars, metricVars, follower, live, history>>

Clear ==
  /\ clearer = "asked"
  /\ clearer' = "done"
  /\ files' = [i \in DOMAIN files |-> <<>>]
  /\ writer' = [writer EXCEPT !.removed = writer.file # 0]
  /\ cleared' = (cleared \/ ~At("new"))
  /\ UNCHANGED <<trainer, round, metricVars, follower, live, failed>>

-----------------------------------------------------------------------------

Init ==
  /\ trainer = [at |-> "new", asked |-> {}, scores |-> {}, next |-> 0] /\ round = 0
  /\ files = <<>> /\ writer = [file |-> 0, buffer |-> <<>>, removed |-> FALSE]
  /\ points = <<>> /\ metrics = <<>>
  /\ follower = [at |-> "reading", position |-> 0, got |-> <<>>, draining |-> FALSE]
  /\ clearer = "idle" /\ live = FALSE /\ failed = FALSE /\ cleared = FALSE

Trainer ==
  \/ \E f \in Function : Score(f)
  \/ \E wide \in BOOLEAN : Log(wide)
  \/ WriteLine \/ WriteFails \/ Flush \/ Report \/ Rest \/ NextRound \/ Generate \/ Close \/ Kill \/ Begin \/ End

Next == Trainer \/ Read \/ Ask \/ ClearAsk \/ Clear

Spec == Init /\ [][Next]_vars

-----------------------------------------------------------------------------
(* Properties.                                                             *)

\* Every variable stays in its type, and no file grows past its limit, buffer and all.
TypeOK ==
  /\ trainer.at \in {"new", "scoring", "writing", "reporting", "half", "reported", "trained", "ended"}
  /\ trainer.scores \subseteq trainer.asked /\ trainer.asked \subseteq Function /\ trainer.next \in 0..Members + 1
  /\ round \in 0..MaxRounds /\ writer.file \in 0..Len(files)
  /\ \A i \in DOMAIN files : Len(files[i]) <= MaxLines
  /\ writer.file # 0 => Len(files[writer.file]) + Len(writer.buffer) <= MaxLines
  /\ follower.position \in 0..Len(metrics) /\ clearer \in {"idle", "asked", "done"}
  /\ {live, failed, cleared} \subseteq BOOLEAN

\* trace.read: every record, file by file.
read == FlattenSeq(files)

\* trace.py:184-186: a round the metrics tell of has its completions in the traces, whatever
\* fails or is killed then, unless they were cleared meanwhile.
RoundsTraced ==
  ~cleared => \A n \in DOMAIN points : points[n].event = "rollout" =>
    \A m \in 1..Members : [round |-> points[n].round, member |-> m] \in ToSet(read)

\* trace.py:8: one line per completion of every round, in the order in which they were
\* generated; a round is repeated only after a line could not be written.
TracedOnce ==
  \A i, j \in DOMAIN read : i < j =>
    /\ read[i].round <= read[j].round
    /\ ~failed => read[i] # read[j]

\* metrics.py:132: who follows a run is given the points as they are appended, all of them by
\* the time the run is over; in order and none twice, as long as a character is one byte.
FollowedOnce ==
  /\ follower.at = "done" => ToSet(follower.got) = ToSet(Parsed(Complete(metrics)))
  /\ (\A i \in DOMAIN metrics : metrics[i].part # "cont") => \A i \in DOMAIN follower.got : follower.got[i] = i
=============================================================================
