---------------------------- MODULE MediaPipeline ----------------------------
(***************************************************************************)
(* The streaming media pipeline: a thread transcribes the chunks of a long *)
(* recording with whisper.cpp, keeps what it heard and sends each stable   *)
(* chunk over a bounded channel; the caller translates groups of chunks    *)
(* meanwhile, and publishes the source and the translated subtitles when   *)
(* both are done.  The program may be cancelled, may stop anywhere and may *)
(* be started again on the same recording, with or without its caches.     *)
(*                                                                         *)
(* A recognition of a chunk is the number of the run that made it and how  *)
(* many cues it gave; a cue is its chunk, its place and that run.  A       *)
(* translated cue is the cue it was made from and the run that made it.    *)
(* The child process is a ProcessRunner.  Extracting a chunk from the      *)
(* audio is a child process of the same kind, and cutting a recognition    *)
(* into cues is a function of it: both are left out, and so is the         *)
(* resumption of a group half translated, the subject of CheckpointStore.  *)
(***************************************************************************)
EXTENDS Naturals, Sequences, FiniteSets, SequencesExt

CONSTANTS
  Chunks,         \* transcription_chunks(duration)
  CueCounts,      \* how many cues a recognition may give
  BatchSize,      \* settings.translation.batch_size
  Capacity,       \* STREAMING_CHANNEL_CAPACITY
  Strategies,     \* media_pipeline_strategy
  Reuse,          \* the combinations of use_cache and resume
  MaxRuns, MaxFailures,
  QueueLimit, PipeSize, MaxLines,  \* for ProcessRunner
  None            \* Option::None

ASSUME PipelineAssumption ==
  /\ Chunks \in Nat /\ CueCounts \subseteq Nat /\ BatchSize \in Nat
  /\ Capacity \in Nat \ {0} /\ QueueLimit \in Nat \ {0}
  /\ Strategies \subseteq {"turbo", "economy"}
  /\ Reuse \subseteq [cache : BOOLEAN, resume : BOOLEAN]
  /\ MaxRuns \in Nat \ {0} /\ {MaxFailures, PipeSize, MaxLines} \subseteq Nat

VARIABLES
  \* on disk
  raw,        \* raw[c]: the recognition kept for chunk c
  cut,        \* cut[c]: its cues
  groups,     \* groups[g]: the finished translation kept for group g
  published,  \* the source and the translated subtitles and complete.json
  \* the run
  run,        \* its number, strategy and options
  cancelled,  \* the cancellation guard
  prod,       \* the transcription thread
  channel,    \* chunks on their way
  receiver,   \* the consumer holds the receiver
  cons,       \* the translation, in the caller's thread
  main,       \* the caller: "running", "source", "output", "complete", or the answer
  proc,       \* whisper.cpp
  failures

store  == <<raw, cut, groups>>
vars   == <<store, published, run, cancelled, prod, channel, receiver, cons, main, proc,
            failures>>

Whisper == INSTANCE ProcessRunner

Recognitions == [chunk : 1..Chunks, by : 1..MaxRuns, cues : CueCounts]
Cues(r)      == [i \in 1..r.cues |-> [chunk |-> r.chunk, place |-> i, by |-> r.by]]

\* The last BatchSize elements of s, at least one.
LastOf(s) ==
  LET keep == IF BatchSize = 0 THEN 1 ELSE BatchSize
  IN IF Len(s) <= keep THEN s ELSE SubSeq(s, Len(s) - keep + 1, Len(s))

SourceOf(chunks) == FlattenSeq([i \in DOMAIN chunks |-> Cues(chunks[i])])

-----------------------------------------------------------------------------
(* The run *)

NewProducer == [pc |-> "chunk", chunk |-> 1, heard |-> None, doc |-> <<>>, error |-> None]
NewConsumer == [pc |-> "recv", pending |-> <<>>, context |-> <<>>, parts |-> <<>>,
                error |-> None]
Unpublished == [source |-> None, output |-> None, complete |-> FALSE]

Init ==
  /\ raw = [c \in 1..Chunks |-> None] /\ cut = raw
  /\ groups = [g \in 1..Chunks |-> None] /\ published = Unpublished
  /\ run \in [n : {1}, strategy : Strategies, reuse : Reuse]
  /\ cancelled = FALSE /\ failures = 0
  /\ prod = NewProducer /\ cons = NewConsumer /\ channel = <<>> /\ receiver = TRUE
  /\ main = "running" /\ proc = Whisper!NoProcess

Ended == main \notin {"running", "source", "output", "complete"}

\* The program has ended, or stops anywhere, and is started again.
Restart ==
  /\ run.n < MaxRuns
  /\ \E reuse \in Reuse : run' = [run EXCEPT !.n = @ + 1, !.reuse = reuse]
  /\ cancelled' = FALSE
  /\ prod' = NewProducer /\ cons' = NewConsumer /\ channel' = <<>> /\ receiver' = TRUE
  /\ main' = "running" /\ proc' = Whisper!NoProcess
  /\ UNCHANGED <<store, published, failures>>

Cancel ==
  /\ ~cancelled /\ ~Ended
  /\ cancelled' = TRUE
  /\ UNCHANGED <<store, published, run, prod, channel, receiver, cons, main, proc, failures>>

\* An operation of the file system or of a provider fails.
Breaks == failures < MaxFailures /\ failures' = failures + 1

-----------------------------------------------------------------------------
(* transcribe_prepared_audio_incremental, in a thread of its own *)

ProducerFails(error) == prod' = [prod EXCEPT !.pc = "ended", !.error = error]
ProducerOnly ==
  UNCHANGED <<published, run, cancelled, receiver, cons, main>>
Resumed(c)  == run.reuse.resume /\ cut[c] # None
Recalled(c) == run.reuse.cache /\ raw[c] # None

\* The points at which the thread looks for a cancellation of its own accord.
Checks ==
  \/ prod.pc = "chunk" /\ prod.chunk <= Chunks
  \/ prod.pc = "raw" /\ run.reuse.cache
  \/ prod.pc = "cut" /\ run.reuse.resume
  \/ prod.pc = "ready"

ProducerCancelled ==
  /\ Checks /\ cancelled
  /\ ProducerFails("cancelled")
  /\ UNCHANGED <<store, channel, proc, failures>> /\ ProducerOnly

\* A chunk is resumed, cut again from what was heard, or heard.
NextChunk ==
  /\ prod.pc = "chunk" /\ prod.chunk <= Chunks /\ ~cancelled
  /\ LET c == prod.chunk
     IN CASE Resumed(c)  -> /\ prod' = [prod EXCEPT !.pc = "ready", !.heard = cut[c]]
                            /\ UNCHANGED proc
          [] ~Resumed(c) /\ Recalled(c) ->
               prod' = [prod EXCEPT !.pc = "cut", !.heard = raw[c]] /\ UNCHANGED proc
          [] OTHER -> /\ prod' = [prod EXCEPT !.pc = "whisper"]
                      /\ proc' = Whisper!Started
  /\ UNCHANGED <<store, channel, failures>> /\ ProducerOnly

WhisperRuns ==
  /\ prod.pc = "whisper" /\ (Whisper!Reader \/ Whisper!Loop)
  /\ UNCHANGED <<store, published, run, prod, channel, receiver, cons, main>>

WhisperReturns ==
  /\ prod.pc = "whisper" /\ ~Whisper!Running
  /\ IF proc.result = "ok"
     THEN \E n \in CueCounts :
            prod' = [prod EXCEPT !.pc = "raw",
                       !.heard = [chunk |-> prod.chunk, by |-> run.n, cues |-> n]]
     ELSE ProducerFails(IF proc.result = "cancelled" THEN "cancelled" ELSE "failed")
  /\ proc' = Whisper!NoProcess
  /\ UNCHANGED <<store, channel, failures>> /\ ProducerOnly

\* source_store::write_bytes and write.
KeepRaw ==
  /\ prod.pc = "raw"
  /\ IF run.reuse.cache
     THEN /\ ~cancelled
          /\ \/ raw' = [raw EXCEPT ![prod.chunk] = prod.heard] /\ UNCHANGED failures
                  /\ prod' = [prod EXCEPT !.pc = "cut"]
             \/ Breaks /\ ProducerFails("failed") /\ UNCHANGED raw
     ELSE prod' = [prod EXCEPT !.pc = "cut"] /\ UNCHANGED <<raw, failures>>
  /\ UNCHANGED <<cut, groups, channel, proc>> /\ ProducerOnly

KeepCut ==
  /\ prod.pc = "cut"
  /\ IF run.reuse.resume
     THEN /\ ~cancelled
          /\ \/ cut' = [cut EXCEPT ![prod.chunk] = prod.heard] /\ UNCHANGED failures
                  /\ prod' = [prod EXCEPT !.pc = "ready"]
             \/ Breaks /\ ProducerFails("failed") /\ UNCHANGED cut
     ELSE prod' = [prod EXCEPT !.pc = "ready"] /\ UNCHANGED <<cut, failures>>
  /\ UNCHANGED <<raw, groups, channel, proc>> /\ ProducerOnly

\* Mutant of HasRoom: a channel without a bound.
AlwaysRoom(queue) == TRUE

HasRoom(queue) == Len(queue) < Capacity

\* ChannelChunkObserver::stable: an audit copy of the chunk is saved first.
SaveChunk ==
  /\ prod.pc = "ready" /\ ~cancelled
  /\ \/ prod' = [prod EXCEPT !.pc = "send"] /\ UNCHANGED failures
     \/ Breaks /\ ProducerFails("failed")
  /\ UNCHANGED <<store, channel, proc>> /\ ProducerOnly

SendChunk ==
  /\ prod.pc = "send"
  /\ \/ /\ receiver /\ HasRoom(channel)
        /\ channel' = Append(channel, prod.heard)
        /\ prod' = [prod EXCEPT !.pc = "chunk", !.chunk = @ + 1, !.heard = None,
                                !.doc = @ \o Cues(prod.heard)]
     \/ ~receiver /\ ProducerFails("stopped") /\ UNCHANGED channel
  /\ UNCHANGED <<store, proc, failures>> /\ ProducerOnly

\* validate_transcription_coverage; the sender is dropped with the observer.
ProducerEnds ==
  /\ prod.pc = "chunk" /\ prod.chunk > Chunks
  /\ \/ prod' = [prod EXCEPT !.pc = "ended"] /\ UNCHANGED failures
     \/ Breaks /\ ProducerFails("failed")
  /\ UNCHANGED <<store, channel, proc>> /\ ProducerOnly

Producer == NextChunk \/ WhisperReturns \/ KeepRaw \/ KeepCut \/ SaveChunk \/ SendChunk
              \/ ProducerEnds \/ ProducerCancelled

-----------------------------------------------------------------------------
(* consume_translation_chunks *)

ConsumerOnly == UNCHANGED <<raw, cut, published, run, cancelled, prod, main, proc>>

\* The receiver goes, with what was still in the channel.
ConsumerEnds(error) ==
  /\ cons' = [cons EXCEPT !.pc = "ended", !.error = error]
  /\ receiver' = FALSE /\ channel' = <<>>

\* economy_buffer_ready, or turbo, which does not wait.
GroupReady(pending) == run.strategy = "turbo" \/ Len(SourceOf(pending)) >= BatchSize

ReceiveChunk ==
  /\ cons.pc = "recv" /\ channel # <<>>
  /\ IF cancelled
     THEN ConsumerEnds("cancelled")
     ELSE LET pending == Append(cons.pending, Head(channel))
          IN /\ cons' = [cons EXCEPT !.pending = pending,
                           !.pc = IF GroupReady(pending) THEN "translate" ELSE "recv"]
             /\ channel' = Tail(channel) /\ UNCHANGED receiver
  /\ UNCHANGED <<groups, failures>> /\ ConsumerOnly

\* Every sender is gone: what is left is translated, whatever ended the thread.
ChannelEnds ==
  /\ cons.pc = "recv" /\ channel = <<>> /\ prod.pc = "ended"
  /\ IF cons.pending = <<>>
     THEN ConsumerEnds(None)
     ELSE cons' = [cons EXCEPT !.pc = "translate"] /\ UNCHANGED <<channel, receiver>>
  /\ UNCHANGED <<groups, failures>> /\ ConsumerOnly

\* Mutants of GroupKey: the chunks identify the group, or their cues do.
KeyOfChunks(chunks, context) ==
  [first |-> Head(chunks).chunk, last |-> Last(chunks).chunk, context |-> context]
KeyOfSource(chunks, context) ==
  [first |-> Head(chunks).chunk, last |-> Last(chunks).chunk, source |-> SourceOf(chunks)]

\* execution_fingerprint of a group.
GroupKey(chunks, context) ==
  [first |-> Head(chunks).chunk, last |-> Last(chunks).chunk,
   source |-> SourceOf(chunks), context |-> context]

\* confirmed_translation_tail: the last cues of the group with their translation.
ConfirmedTail(source, texts) ==
  LastOf([i \in DOMAIN texts |-> [cue |-> source[i], text |-> texts[i]]])

\* translate_chunk_group: what was kept is resumed only if nothing that it
\* depends on has changed.  The loaded glossary is part of that, so that a group
\* may be translated again although its key is the same.
Translate ==
  /\ cons.pc = "translate" /\ ~cancelled
  /\ LET g      == Len(cons.parts) + 1
         source == SourceOf(cons.pending)
         key    == GroupKey(cons.pending, cons.context)
         anew   == [key |-> key, context |-> cons.context,
                    texts |-> [i \in DOMAIN source |-> [of |-> source[i], by |-> run.n]]]
         resumable == run.reuse.resume /\ groups[g] # None /\ groups[g].key = key
     IN \E finished \in {anew} \cup (IF resumable THEN {groups[g]} ELSE {}) :
          \/ /\ groups' = [groups EXCEPT ![g] = finished]
             /\ cons' = [cons EXCEPT !.pc = "recv", !.pending = <<>>,
                           !.context = IF run.strategy = "turbo"
                                       THEN ConfirmedTail(source, finished.texts) ELSE <<>>,
                           !.parts = Append(@, [texts |-> finished.texts,
                                                context |-> finished.context])]
             /\ UNCHANGED <<channel, receiver, failures>>
          \/ \* the provider fails, or a file cannot be written afterwards
             /\ groups' \in {groups, [groups EXCEPT ![g] = finished]}
             /\ Breaks /\ ConsumerEnds("failed")
  /\ ConsumerOnly

TranslateCancelled ==
  /\ cons.pc = "translate" /\ cancelled
  /\ ConsumerEnds("cancelled")
  /\ UNCHANGED <<groups, failures>> /\ ConsumerOnly

Consumer == ReceiveChunk \/ ChannelEnds \/ Translate \/ TranslateCancelled

-----------------------------------------------------------------------------
(* run_streaming_media_pipeline after the threads, and finalize *)

Translated == FlattenSeq([g \in DOMAIN cons.parts |-> cons.parts[g].texts])

CallerOnly ==
  UNCHANGED <<store, run, cancelled, prod, channel, receiver, cons, proc>>

\* validate_group_alignment: one translated cue for each cue of the source.
Aligned ==
  /\ Len(prod.doc) = Len(Translated)
  /\ \A i \in DOMAIN Translated : /\ prod.doc[i].chunk = Translated[i].of.chunk
                                   /\ prod.doc[i].place = Translated[i].of.place

\* The error of the thread is reported before the error of the translation.
Join ==
  /\ main = "running" /\ prod.pc = "ended" /\ cons.pc = "ended"
  /\ main' = CASE prod.error # None -> prod.error
               [] prod.error = None /\ cons.error # None -> cons.error
               [] OTHER -> IF Aligned THEN "source" ELSE "failed"
  /\ UNCHANGED <<published, failures>> /\ CallerOnly

\* A failure is the quality gate before the first file, or the file system.
Publish(at, next, files) ==
  /\ main = at
  /\ \/ main' = next /\ published' = files /\ UNCHANGED failures
     \/ main' = "failed" /\ Breaks /\ UNCHANGED published
  /\ CallerOnly

Rendered ==
  [i \in DOMAIN Translated |-> [cue |-> prod.doc[i], text |-> Translated[i]]]

PublishSource == Publish("source", "output", [published EXCEPT !.source = prod.doc])
PublishOutput == Publish("output", "complete", [published EXCEPT !.output = Rendered])

\* The output path given is that of the source: the one file is the translation.
PublishOnly ==
  Publish("source", "complete", [published EXCEPT !.source = None, !.output = Rendered])
MarkComplete == Publish("complete", "ok", [published EXCEPT !.complete = TRUE])

Caller == Join \/ PublishSource \/ PublishOutput \/ PublishOnly \/ MarkComplete

-----------------------------------------------------------------------------
\* whisper.cpp itself: nothing makes it write, or end.
ChildRuns ==
  /\ prod.pc = "whisper" /\ Whisper!Child
  /\ UNCHANGED <<store, published, run, prod, channel, receiver, cons, main>>

Next == Producer \/ WhisperRuns \/ ChildRuns \/ Consumer \/ Caller \/ Cancel \/ Restart

\* The scheduler runs every thread, and a provider answers or times out.
Fairness ==
  /\ WF_vars(Producer) /\ WF_vars(Consumer) /\ WF_vars(Caller)
  /\ WF_vars(WhisperRuns /\ Whisper!Reader) /\ WF_vars(WhisperRuns /\ Whisper!Loop)

Spec == Init /\ [][Next]_vars /\ Fairness

-----------------------------------------------------------------------------
(* Properties *)

Cue  == [chunk : 1..Chunks, place : Nat, by : 1..MaxRuns]
Text == [of : Cue, by : 1..MaxRuns]

\* The types of the variables; the channel never holds more than its capacity.
TypeOK ==
  /\ raw \in [1..Chunks -> {None} \cup Recognitions]
  /\ cut \in [1..Chunks -> {None} \cup Recognitions]
  /\ \A g \in 1..Chunks : groups[g] = None \/ groups[g].texts \in Seq(Text)
  /\ run.n \in 1..MaxRuns /\ {cancelled, receiver} \subseteq BOOLEAN
  /\ prod.pc \in {"chunk", "whisper", "raw", "cut", "ready", "send", "ended"}
  /\ prod.doc \in Seq(Cue)
  /\ channel \in Seq(Recognitions) /\ Len(channel) <= Capacity
  /\ cons.pc \in {"recv", "translate", "ended"} /\ failures \in 0..MaxFailures
  /\ main \in {"running", "source", "output", "complete", "ok", "failed", "cancelled",
               "stopped"}

\* What is published is a translation of what is published: no cue carries the
\* text of another recognition of its chunk, whatever was kept by earlier runs
\* with other options, stopped at whatever point.  When a run succeeds and leaves
\* two files, they have the same cues.
PublishedIsCurrent ==
  /\ published.output # None =>
       \A i \in DOMAIN published.output :
         published.output[i].text.of = published.output[i].cue
  /\ main = "ok" /\ published.source # None =>
       published.source = [i \in DOMAIN published.output |-> published.output[i].cue]

\* In turbo each group of a successful run, resumed or not, was translated with
\* the end of the group before it as published: one that had another
\* predecessor is translated again.
ContextConfirmed ==
  main = "ok" /\ run.strategy = "turbo" =>
    \A g \in 2..Len(cons.parts) :
      LET before == cons.parts[g - 1].texts
      IN cons.parts[g].context =
           LastOf([i \in DOMAIN before |-> [cue |-> before[i].of, text |-> before[i]]])

LinesDelivered == Whisper!LinesDelivered

\* Every run ends that is cancelled, even while whisper.cpp hangs, and every
\* run during which it does not: nobody waits for a child that goes on, for room
\* in a queue or channel whose reader is gone, or for a chunk that will not come.
RunEnds == []<>(cancelled \/ (~proc.live /\ ~proc.helper)) => []<>Ended

(* A property the code does not have *)

\* error.rs and cli_cancellation.rs: a cancelled run reports the cancellation,
\* unless it was over before or something failed of itself.
CancelledIsReported ==
  Ended /\ cancelled /\ failures = 0 => main \in {"cancelled", "ok", "failed"}
=============================================================================
