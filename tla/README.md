# Formal models of the media server subprojects

The repository is a collection of Visual Studio programs written on the way to an MGCP media
server: sockets and MGCP on one side, FFmpeg decoding, mixing and RTP on the other. The programs
share no library; what they share was copied from one to the next. This directory holds TLA+
models of the parts that have logic of their own, TLC runs on small instances, and theorems that
tlapm checks for all instances.

## 1. Inventory

| component | source | state | operations | hard behaviour | what makes it correct |
|---|---|---|---|---|---|
| shared circular buffer | `SocketTest/TemplateStack.h`, `FFMPEGtest2/Utils.h` | ring buffer, mutex, two condition variables, atomic flag | push, pop, pop(max), show, try_pop, terminate, resume | any number of threads; waits; a flag that is stored without the mutex; one notification at a time | no assert fails; a bounded FIFO queue; no lost wake-up; terminate releases its waiters |
| one-filter mixer | `filter_audio(1-1filter)/RTPReceive.cpp` (also `CFilter.cpp`, `backupINET.cpp`) | per input: finished, to read; shared flags; the filter graph | rounds: read the inputs the graph asks for, drain the sink | one flag for several inputs; decoders with delay; inputs with frames of different length | each input counted once, at its end; no pile-up; the loop ends |
| client mixer | `filter_audio/RTPReceive.cpp` (also `FFMPEGtest2/RTPReceive.cpp`) | one graph per client; count of finished inputs | rounds: read every input, feed all other clients, drain all sinks | source numbers shifted in three places; writes past a vector; frames of different length; graphs that cannot be made | each client hears all others and never itself; no client is behind; nothing is left over |
| earlier versions, `CDecoder`, amix drivers | `filter_audio(*)/RTPReceive.cpp`, `SocketTest/CDecoder.cpp`, `amix*/` | contexts of libavformat, libavcodec, libavfilter | open inputs, make graphs, open outputs, loop | each call may fail, and some failures are only printed | no pointer is used that was not got; each client its own mix; files get their trailers |
| transcode_aac | `transcode_aac/transcode_aac.cpp` | FIFO of samples, contexts | open both files, resampler, FIFO, loop, clean up | an encoder whose frames have no length; a cleanup reached from many places, with other things made each time | no pointer is used that was not got; nothing stays open |
| FFmpeg examples, RTP sender | `trans_backup`, `demuxing`, `extract`, `reading`, `dec_enc`, `testRTPffmpeg`, `RTP` | contexts | one pass over a file, clean up | the same | the same |
| ffmpeg | `transcoding/transcoding.cpp` | input files and streams, filter graphs, output streams, limits | choose an output, read, decode or copy, filter, encode, mux, seek, flush | several inputs and outputs served by one loop, demuxers that block, bad timestamps, delays in decoders, filters and encoders, limits that end one stream of several | timestamps a muxer can take; no drift; nothing lost at the end; the loop ends |
| announcer | `filter_audio/Ann.cpp`, `Structs.h` | leftover of the last packet, counter for the RTP header | encode a frame, cut it in packets of 160, send | two cutting offsets, negative lengths, wrap-around, an uninitialised counter | the packets carry the stream, in turn |
| MGCP relay | `RedirectorMGCP/RedirectorMGCP.cpp` | two sockets, a buffer and a peer address for each | two receive callbacks | addresses overwritten by the last sender, errors that end one direction, restart without memory | a datagram is passed on once; answers come back |
| call agent | `CallAgent/CallAgent.cpp` | the request it waits for | send a request, wait for one datagram | no time limit, no matching of replies | the reply it reads is its own |
| track sender | `SocketTestout/SocketTestout.cpp` | eight files | send a packet of each every 20 ms | all files start again when one ends | not modelled |
| parsers | `Parser/Struct.h`, `tests/Source.cpp` | none | cut MGCP and SIP texts | boundaries of a text | not modelled |
| the rest | see "Not modelled" | | | | |

How they interact: `CallAgent` talks UDP to `RedirectorMGCP`, which talks to the media server
(external). The server's media side is what the mixers and the announcer were written for: RTP
streams come in as inputs of a mixer, each client gets the mix of the others, and the announcer
plays a file to one client. `CThreadedCircular` is the queue between a socket thread and a mixing
thread; the only threads that use it in the repository are in `amixnew/amix.cpp:341`
(`test_threading`), the other users are commented out. The mixers grew out of FFmpeg's own
programs, which the repository keeps beside them: `decode_audio_frame` was copied from
`transcode_aac` into every mixer, and the mixers were copied from version to version. Nothing is
stored on disk but output files.

## 2. Modules

| module | models | uses |
|---|---|---|
| `BoundedFifo` | abstract: a bounded queue that can be closed, lossy or not | |
| `ThreadedCircular` | `CThreadedCircular` | instantiates `BoundedFifo` |
| `MixerInput` | inputs, decoders, `decode_audio_frame` | |
| `OneFilterMixer` | `process_all`, one graph | `MixerInput` |
| `ClientMixer` | `process_all`, a graph per client | `MixerInput` |
| `Contexts` | FFmpeg's contexts and the steps functions are made of | |
| `MixerPrograms` | twelve versions of the mixer as the calls they make | `Contexts` |
| `ExamplePrograms` | seven other FFmpeg programs as the calls they make, and transcode_aac's | `MixerPrograms` |
| `Programs` | runs any of these programs, with failures | `ExamplePrograms` |
| `OutputStreams` | the output side of ffmpeg: limits, frame rate, timestamps, muxing | |
| `Transcoding` | the main loop of ffmpeg and its input side | `OutputStreams` |
| `Announcer` | `Ann::Run`, `encode_audio_frame`, `RTP_struct` | |
| `MgcpRelay` | both callbacks of the relay, agents, network, server | |
| `ThreadedCircular_proofs`, `OneFilterMixer_proofs`, `ClientMixer_proofs`, `Programs_proofs`, `Transcoding_proofs`, `MgcpRelay_proofs`, `Announcer_proofs` | the theorems | the module they prove about, `TLAPS` |
| `ProgramPointers_proofs` | the pointers of the programs | `Programs_proofs` |
| `MC*` | the instances TLC checks | the module they check |

Operators that stand before a modelled operator and are named for what they get wrong
(`PushNotifiesFirstOnly`, `SlotSwapped`, ...) are faulty variants of it. No specification uses
them; with one put in place of its original the run named in `PROJECT.json` finds the property
violated.

### ThreadedCircular

A method call is cut where another thread can interfere: taking the mutex (`Enter`), evaluating
the predicate of the wait (`Test`), sleeping and waking (`SpuriousWake`, `Reacquire`), and the body
after the second look at `bTerminated_` (`PushBody`, `PopBody`, `ShowBody`). `pc[t]` says where a
thread is. The second look at the flag and the body are one step: the body touches only what the
mutex protects, so a store of the flag in between has the same effect as one right after. `try_pop`
has no wait and is one step. `terminate` is two, the store and the critical section. `notify_one`
picks any sleeping thread of its condition variable. Items are numbered by the order of their
pushes; `pushed` and `handed` are history. `Pushers`, `Poppers`, ... are the threads by the methods
they call; the class has no other roles.

`pop(max)` of `Utils.h` is the same action with `MaxReads` = max: the count is compared before the
read is added, so a frame leaves with read max + 1. With `MaxReads` = 0 it is `pop` of
`TemplateStack.h`.

### MixerInput, OneFilterMixer, ClientMixer

libavcodec and libavfilter are external. An input is a number of packets; its decoder may hold back
up to `MaxDelay` frames (0 for PCM, which is what the SDP files announce) and gives them out when
flushed. A graph source holds samples, which `OneFilterMixer` counts (each input has frames of its
own length) and `ClientMixer` numbers (where it matters who hears what; a frame has any length of the
set `lengths`, which the streams have chosen before the loop starts). amix gives a frame when each
source that is not closed holds samples and any does, of as many samples as the shortest of those that
hold any; otherwise some of the sources that lack samples report failed requests. One action is one pass of the inner loop: `ReadInput` decodes and then finishes the input,
feeds the graph, or neither; `PullFrame` is one frame drained and encoded; `PullNothing` is
EAGAIN/EOF with the update of `input_to_read`. Errors of the decoder, the encoder, the muxer and the
sink lead to `exit1`, whatever `exit` code is used.

In `ClientMixer` the vectors `input_finished` and `input_to_read` are never read and are left out,
but the write at index `tracks - 1`, past their end (lines 577 and 698), is undefined behaviour:
`OutOfRange` lets the process die there, and not taking that step is the other outcome. `Slot` is
the source an input is written to and `ConfiguredFor` the input a source was configured for.

### Contexts, MixerPrograms, ExamplePrograms, Programs

Here a program is the list of the functions it calls, a function is a list of steps, and a step is
a library call: the contexts it dereferences, those it gives, and what happens when it fails (the
error is returned, or nobody looks, or a loop is left; `undo` is what the function frees on that
path). `Programs` walks through any of the twenty programs of `Code`, lets up to `MaxFailures` calls
fail wherever a call can, and keeps for each context pointer whether it is null, valid, or dangling
because what it points into was freed (`Whole`). A caller ends the process, prints and goes on, or
jumps to its label `end` or `cleanup`, as the code does at that call. `PushSink` and `PullSink` are
`sinkVec`, the one piece of data that can get out of step when a call fails.

The versions of the mixer were copied from each other. The last one comes first in `MixerPrograms`;
a definition of another version refers to it where the two texts make the same calls, and is written
out where they differ (PCM or the input's codec for the output, one graph or one for each client,
what ends the process).

Three places are known in which a program that looked at every result still runs into undefined
behaviour, listed as `Holes`: `trans_backup`'s label `end` reads `nb_streams` of a context that was
never opened; `transcode_aac`'s cleanup closes the encoder of an output whose context
`open_output_file` has freed; and `testRTPffmpeg` (line 116) takes `streams[videoindex]` for a packet
without a pts, which is `streams[-1]` when the file has no video. `KeptOpen` is what stays open on
some error path (the file of an output without a context in transcode_aac, a graph in trans_backup, a
buffer in reading). No text of the repository speaks about any of these.

The main loop of transcode_aac is one call, `transcode`, that always fails: `open_output_file` opens
PCM's encoder (`transcode_aac.cpp:147`), whose `frame_size` is 0, so an empty FIFO counts as full
(line 699), the first frame that `load_encode_and_write` asks for has no samples (line 600),
`av_frame_get_buffer` refuses it, and the program goes to its cleanup without having read anything.
Reading into the FIFO and encoding from it are what another encoder would reach.

### OutputStreams, Transcoding

`transcoding.cpp` is FFmpeg's `ffmpeg.c`. `Transcoding` follows its single thread through the loop
(`pc`): `need_output` and `choose_output`; the filter graph of that output, which gives a frame,
is at its end, or names an input it waits for; `process_input`, with one packet read, its timestamps
corrected (`Corrected`), decoded into every graph that takes the stream or copied to its outputs;
`reap_filters`, sink by sink, where `do_video_out` is a loop of its own (`dup`). Then the decoders
and encoders are flushed and the program ends, or an encoder failed and it exits. `OutputStreams`
holds what the output streams do: `close_output_stream` and its three relatives,
`check_recording_time`, `write_frame`, `do_audio_out`, `do_video_out`.

The demuxers, decoders, filters, encoders and muxers are external. A decoder keeps `depth` frames
back and gives video in the order of presentation, an encoder keeps `hold`, a graph `lag`; a graph
with several sources mixes one frame of each open source; a graph with one source passes frames on at
once. A demuxer may have no packet yet, `MaxWaits` times, also right after a seek
(`BlocksAfterSeek`). One thing goes wrong in a behaviour at most (`trouble`): a read, a decoder, a
filter, an encoder, a parser of a copied stream, a write, a seek, or the user stops it.

What the options, the muxer and the codec decide is a field of each output: whether packets get the
two repairs of `write_frame` (`repairs`: none for `AVFMT_NOTIMESTAMPS`, no order for a copied VP9) and
whether a dts may be equal to the last (`step` is 0 for `AVFMT_TS_NONSTRICT`); whether bitstream
filters may leave nothing of a packet (`bsf`); how long a picture is by the frame rates of graph and
output (`dur`, any number of ticks, 0 for unknown) and whether that is used although the packet says
otherwise (`filters`); and whether a copy may begin before a key frame or the start time (`begins`).

Time is counted in ticks, 20 to an output frame: the thresholds 0.5, 0.6 and 1.1 frames are whole
ticks, and since input timestamps are even, the 2^-17 that `reap_filters` adds is one tick. An input
stream is decoded or copied but not both, and copied at most once. A video's frame rate is known to
its container and to its decoder, or to neither (`rate` 0): then a picture without a duration leaves
the stream's dts unknown.

Left out: `-ss`, `-t` of inputs, `-r` of an input that is copied, `-copyts`, `-xerror`
(`exit_on_error`), streams that are discarded, the limit of the file size, subtitles, a negative
`-async`, `VSYNC_DROP` and `frame_drop_threshold`, the correction of timestamps that wrap, encoders
with B-frames, several frames in a packet, keyboard commands, `HAVE_PTHREADS` with its input threads,
and the opening of files, whose source (`ffmpeg_opt.c`) is not in the repository.

### Announcer

The encoded stream is 1, 2, 3, ...; a packet is cut from it as the code does it, offsets included.
`Chunk` stands for 160, `SeqNos` and `Stamps` for 2^16 and 2^32. `amount` is not initialised in the
code, so `Init` picks it from `FirstAmounts`. After the end of the file the code goes on with empty
packets (`PlayAfterEnd`). A `memcpy` with a negative length ends the process (`crashed`).

### MgcpRelay

The two callbacks are the same code with the sides exchanged, and so is the model (`Receive(side)`).
A receive completes (`Complete`), which stores data and sender, before its callback runs. A failed
receive is not armed again. `send_to` throws when the other side is not known, or on a failure, and
ends the process; `Restart` is `main` again. The agents take the place of the switch. The network
reorders and loses but does not repeat datagrams.

## 3. Runs

| run | instance | checks |
|---|---|---|
| `circular` | 2 pushers, 2 poppers, poller, terminator, capacity 2, 4 items | `TypeOK`, `NoAssertFails`, `NothingLost`, `InOrder`, `NoLostWakeUp`, `ImplementsFifo`, `Delivered`, `TerminateReleases` |
| `circular_variants` | two variants in one instance: frames (`MaxReads` 1, 2 readers, viewer, terminator) and ring (overwriting, a popper, a viewer, a poller) | `FramesReadInFull`, `RingIsFifo` |
| `circular_assert` | resume at any time | `NoAssertFails` is **violated** |
| `mixer` | 3 inputs, 0..4 packets each, frames of 1, 2, 7 samples, decoders that hold up to two frames back | `TypeOK`, `CountedOnce`, `Bounded`, `FinishedWithoutDelay`, `Terminates` |
| `mixer_flag` | a decoder delay again, up to 2 packets | `FinishedAtEnd` is **violated** |
| `clients` | 3 clients, 0..3 packets each, frames of 1 sample, of 2 or of both, decoders that hold one frame back or none | `TypeOK`, `NeverBehind`, `HearsTheOthers`, `NeverRefused`, `NothingUnheard`, `Terminates` |
| `clients_count` | no decoder delay, up to 2 packets | `CountsFinishedInputs` is **violated** |
| `programs` | 20 programs, 3 clients, up to 2 failing calls | `TypeOK`, `DefinedUnlessIgnored`, `OwnMix`, `WholeFiles`, `NothingLeft` |
| `ffmpeg` | 337 conversions of up to 2 files, 2 streams and 2 outputs | `TypeOK`, `WellStamped`, `InSync`, `NothingLost`, `Terminates` |
| `ann` | files of up to 6 packets, of one length from 4 to 13 or of whole chunks | `TypeOK`, `PlayableByHeader`, `CopiesInRange`, `NumberedInTurn` |
| `ann_rest` | packets of 6 samples, chunks of 4 | `KeepsTheRest` is **violated** |
| `relay` | 2 agents, 2 requests each, a notification, loss, errors, a restart | `TypeOK`, `ReadOnce`, `RepliesMatch`, `EveryRequestAnswered` |

### Bounds

- `MaxItems` is larger than `Capacity`, so that the buffer fills, empties and refills; two threads
  per waiting role are what a stolen wake-up needs, and the poller is the third that steals. More
  threads of a role repeat the same cases; the theorems drop the bound.
- Three tracks is the number the code is written for (`tracks = 3`), and the smallest in which a
  source number is shifted for one client and not for another. Three or four packets let an input end
  rounds before another and the count of finished inputs run ahead. Frames of one and two samples in
  one graph are enough for a rest to wait in one source while another has run dry.
- Frames of 1, 2 and 7 samples make sources run dry at different times: seven of the shortest frame
  are read while one of the longest waits. `Bounded` says how much can pile up in a source: one frame
  by itself, one for every finished input (in the round that finishes it nothing is mixed, but all
  others are read), and what a decoder's delay adds once for each of the other inputs.
- Two failures let one call fail while another's failure is being cleaned up or was ignored; three
  clients are again the least number in which one lost graph shifts two others.
- In `ffmpeg` a conversion has two or three packets for each stream: enough for a timestamp to step
  back behind a packet that was itself moved, for a gap of several frames, a duplication over the
  limit, and a decoder and an encoder that hold a frame when the file ends. The conversions vary
  one difficulty at a time (sync methods with early, late and disordered pictures; pictures of 0, 0.4,
  1, 1.25 and 1.7 frames; a film with its sound; mixes of unequal length; copies with missing and
  wrong timestamps; muxers without either repair, with equal timestamps, with bitstream filters; a
  copy that may begin early; pictures of unknown length; a file read twice; the three limits), and
  failures, blocking and stops are added to each anywhere.
- In the announcer four samples for a chunk leave room for every leftover, the lengths 4 to 13 cover
  at and above one, two and three chunks, six packets bring back the leftovers of the first ones, and
  3-bit numbers with first amounts of -3, 0 and 6 wrap within a file.
- In the relay one restart at any point, and a second request after a reply, are the cases in which
  an old datagram could come back.

Some properties name a condition:

- `TerminateReleases`: one waiter at most on each condition variable. `terminate` notifies one thread
  of each, and leaves a second waiter asleep.
- `NoLostWakeUp`, `Delivered`: no viewers, read-once pop. `show` swallows the wake-up of a popper;
  with `pop(max)` the second reader of a frame is not notified.
- `NeverBehind`, `NeverRefused`, `NothingUnheard`, `FinishedWithoutDelay`: decoders that hold nothing
  back. A delayed frame leaves other clients behind, and may come after its source was closed.
- `NothingUnheard`: frames that are all of one length as well. Every input is read once a round
  whatever its frames are, so with different lengths samples of the longer ones pile up, and the loop
  ends with them in the graphs. `HearsTheOthers`, `NeverBehind` and `NeverRefused` need no such
  condition.
- `RepliesMatch`: an agent that has the relay for itself. With two agents `SwitchLocation` sends an
  answer to the agent heard of last.
- `PlayableByHeader`: files of whole chunks.
- `DefinedUnlessIgnored`, `OwnMix`: programs that did not ignore a failure (of the mixers: no graph
  failed), and for the first no hole; `WholeFiles`: those that did not end in an error.
- `WellStamped`: each half where the muxer is one whose packets get that repair.
- `NothingLost`: conversions without limits in which nothing went wrong. Among the troubles is the
  loop of a file whose decoder holds more than one frame, because `seek_to_start` takes one and
  discards the others. That everything was read is only claimed of files that are read once, because
  one that is read again may be given up after its seek (`BlocksAfterSeek`); what was read of it until
  then is in the output.
- `InSync`: outputs that are open and not full, and that never left a duplication out because it was
  too large: `do_video_out` returns without catching up, then and at every picture after. At the end
  of its graph a video repeats its last picture as often as those before, so it may be further ahead
  there. With CFR the output is at most half a frame behind; with VSCFR, which rounds the time of the
  first picture as well as its duration, at most a whole one.

Outside of these conditions the code does not do what the property says, and no text of the repository
claims it does, so these are listed as hazards and not as findings.

### Deadlock

It is checked except where the system may stop: the run with `resume` (an assert ends the process,
and a buffer that terminate emptied and resume reopened may leave all pushers asleep), the announcer
(it may crash), the relay (it may end, or wait for a lost reply) and `ffmpeg`, which ends; there
`Terminates` says that it stops nowhere else. In the other runs of the buffer
there is always a popper that can be woken or a flag that can be stored. The mixers stop in
`Stopped`, and the programs in `Ended`, which stutter.

### Fairness

- Buffer: a thread that is inside a method goes on (weak), and gets the mutex in the end although
  others compete for it (strong, on `Reacquire`, `PopCall`, `TerminateClear`). Poppers call `pop`
  again and again, as the loops in the repository do. No thread has to push, terminate or wake
  spuriously.
- Mixers and ffmpeg: one thread that never waits for another, so weak fairness of `Next`. A demuxer
  has no packet finitely often.
- Programs: none, as no liveness is claimed: a loop of theirs may go on as long as its input does.
- Relay: the event loop, the server and an agent in `receive_from` go on (weak). Nobody has to ask.

## 4. Disagreements between code and its comments

- `circular_assert`: `resume` clears the flag without the mutex. A thread let out of its wait by
  `terminate` then runs into `assert(!buffer_.empty())` (`TemplateStack.h:60`).
- `mixer_flag`: the comment at `filter_audio(1-1filter)/RTPReceive.cpp:525-528` says that an input
  is finished when it is at its end with no delayed samples. The flag is shared: after one input met
  its end the next one whose decoder keeps a packet is declared finished too.
- `clients_count`: the same comment at `filter_audio/RTPReceive.cpp:589-591`. With the skip test
  commented out (line 576) a finished input is counted in every round, so the loop may end while
  another input has most of its packets unread.
- `ann_rest`: the comments at `Ann.cpp:132` and `Ann.cpp:161` say that the rest is kept. After a
  leftover was completed something else is kept, unless packets are whole chunks.

Two more follow from a definition and have no run of their own:

- `transcode`: the comment at `transcode_aac.cpp:683-686` says that the loop goes on as long as there
  is something to read or to write, and ends when there is neither. With the PCM encoder it ends at
  the first frame, with everything unread.
- `BlocksAfterSeek`: the comment at `transcoding.cpp:3788-3791` says that `process_input` should be
  called again for a file that has no packet yet. Right after a seek (line 3812) that file is taken to
  be at its end (`eof_reached`) and is not read again.

## 5. Theorems

| module | theorem | assumes | shows |
|---|---|---|---|
| `ThreadedCircular_proofs` | `TypeCorrect` | | `TypeOK` |
| | `NoAssertEverFails` | nobody resumes | `NoAssertFails` |
| | `HandedInOrder` | read-once pop | `InOrder` |
| | `NothingIsLost` | nobody resumes, read-once pop | `NothingLost` |
| | `ImplementsQueue` | nobody resumes, read-once pop | the safety part of `BoundedFifo` |
| | `NoWakeUpIsLost` | finitely many pushers and poppers, no viewers, nobody resumes, read-once pop | `NoLostWakeUp` |
| | `FramesAreReadInFull` | nobody polls or resumes | `ReadInFull` |
| | `VariantFramesReadInFull` | nobody resumes | `FramesReadInFull`, with the ring beside the frames |
| | `RingIsQueue` | nobody resumes | `RingSafety`, the safety part of `RingIsFifo` |
| `OneFilterMixer_proofs` | `TypeCorrect` | | `TypeOK` |
| | `FinishedInputsAreAtEnd` | | `FinishedWithoutDelay` |
| | `EveryInputCountedOnce` | | `CountedOnce` |
| | `FramesDoNotPileUp` | | `Bounded` |
| `ClientMixer_proofs` | `SlotFitsConfiguration` | | `Slot` and `ConfiguredFor` agree |
| | `TypeCorrect` | | `TypeOK` |
| | `ClientsHearTheOthers` | | `HearsTheOthers` |
| | `ClientsAreNeverBehind` | | `NeverBehind` |
| | `NothingStaysUnheard` | | `NothingUnheard` |
| | `NoFrameRefused` | | `NeverRefused` |
| `Programs_proofs` | `ProgramsTypeCorrect` | | `TypeOK` |
| | `OwnMixIsKept` | | `OwnMix` |
| | `FilesAreWhole` | | `WholeFiles` |
| | `NothingIsLeft` | | `NothingLeft` |
| `ProgramPointers_proofs` | `PointersAreValid` | | `DefinedUnlessIgnored` |
| `Transcoding_proofs` | `TranscodingTypeCorrect` | | `TypeOK` |
| | `PacketsAreWellStamped` | | `WellStamped` |
| | `VideosStayInSync` | | `InSync` |
| | `NothingIsLostOnTheWay` | | `NothingLost` |
| `MgcpRelay_proofs` | `TypeCorrect` | | `TypeOK` |
| | `RepliesReadOnce` | | `ReadOnce` |
| | `RepliesAreRight` | | `RepliesMatch` |
| `Announcer_proofs` | `TypeCorrect` | | `TypeOK` |
| | `PacketsNumberedInTurn` | | `NumberedInTurn` |
| | `WholeChunksArePlayable` | | `PlayableByHeader` |
| | `NoCopyOutOfRange` | no packet is shorter than a chunk | `CopiesInRange` |

All hold for any sets of threads, any capacity, any number of tracks, any frame lengths, any
conversions, any files, any agents and any bounds, from the named assumptions on the constants in
the modules. Two of the assumptions are about the constants of `Transcoding`. `TimeAssumption` says
that the marks for a missing timestamp and a missing limit are integers. `ConversionsAssumption`
gives the fields of a conversion their types, and says what the opening of files (whose source is
not in the repository) sees to: an output has at least one source, an encoded video has a method of
synchronisation, and each output file has a recording time. It also says that a copy is made of one
stream which no other output uses: that is a bound of the model, as the code would copy one stream
to several outputs.

- *No assert fails.* `NoAssertFails` alone is not inductive: a pusher at the assert finds room only
  because it held the mutex since the predicate was true. `AssertInv` adds that the mutex has one
  holder and that what a thread past its wait found is still so, or the flag is set. A step that
  changes the buffer is a step of the holder, who then leaves (`HolderLeaves`); a step of another
  thread needs the mutex to be free; `terminate` sets the flag before it empties the buffer. That
  is where "nobody resumes" is needed.
- *Order.* `InOrder` is inductive given `TypeOK` and the form of a step on the items
  (`EffectOnItems`): one enters at the back, one leaves at the front, all are cleared, or none
  moves.
- *Refinement.* With the same four cases each step of the buffer is `Enter`, `Leave`, `Discard`,
  `Close` or a stutter of `BoundedFifo` (`FifoStep`). Discarding needs that the flag is still set
  when the terminating thread clears, which is what `FlagStep` proves.
- *Wake-ups.* `NoLostWakeUp` is inductive, but only by counting: an item that enters or a place that
  comes free brings one thread from sleeping to woken, a thread on its way takes at most one item or
  place with it, and a thread that goes to sleep has seen none. `Counted` lets these be said of any
  finite set of threads without its members.
- *One-filter mixer.* `FinishedAtEnd`, which the run with a decoder delay refutes, holds without
  one. It needs that with no delay the shared flag is only set by an input that is at its end in the
  same call, `EndStep`. `CountedOnce` needs that the skip test keeps a finished input from being read
  again, and a fact about the cardinality of a set with one element more.
- *Clients.* `NeverRefused` follows from: a source is closed only if the input it was configured for
  is at its end (`ClosedStep`), where `SlotInjective` says that no two inputs share a source.
  `HearsTheOthers` speaks of sets of samples heard; `HearInv` adds how many of each input a client has
  heard (`Follow`), after which the queue of the source continues. `FedIsHeard` and `PulledIsHeard`
  are its two steps. `Drained` says that a graph whose sink was tried in this round cannot mix: some
  source that is not closed is empty, and what `HearInv` says of that source is `NeverBehind`.
  `Rounds(l)` says, for frames of l samples, that a source holds one frame or none and which sources of
  which clients do at each point of a round: with it the graphs are empty between rounds, from which
  `NothingUnheard` follows.
- *ffmpeg.* `WellStamped` is a part of `StampInv`: the output remembers the dts of the last packet,
  and any dts a path computes is an integer or missing, before and after the repairs. The median of
  three is taken with `Min` and `Max` of a finite set, which exist by descent along a well-founded
  order.
- *Relay.* `Tokens` says where each datagram is: on the wire, in a buffer that has not been passed on,
  or read, in one of them only and once, so `ReadOnce` follows. `InTurn` says that an agent that waits has asked once more than it
  has read, and any other as often. So all that is under way to a lone agent was issued, is not read,
  and can only be its last request or the reply to it: `RepliesMatch`.
- *Pile-up.* `Bounded` does not follow a round, and needs an invariant that does. `Waste(s)` counts the
  rounds in which source `s` may have been read without being mixed: one for each finished input, and
  one for each packet another decoder kept back, which are the members of the set `Held(s)`. In
  `AheadInv` only inputs that are level with that account are asked for; a frame puts one ahead of it;
  and a round that has put nothing into the graph either has somebody left to read or has brought all
  to level, because the input that gave nothing has grown the account of every other.
- *Frames.* `ReadInFull` is inductive once it says how often each frame is due by its place in the
  buffer: a read adds one to the front frame's times in the history and to its counter, or removes it
  with its last one (`TimesAppend`, `DueAfterRead`).
  `VariantInv` says that the two variants of an instance do not mix.
- *Programs.* That the calls of a program are lists of steps is proved from the tables (`CallTypes`),
  the rounds of any number of clients included. `OwnMix`, `WholeFiles` and `NothingLeft` then need
  only the form of a program: its graphs are made in the order of the clients by one call each
  (`InTurn`), its trailer is a call of its own after the graphs (`FileForm`), its label `end` is its
  last call and gives nothing (`EndForm`). Each of the twenty programs has the form (`CodeInTurn`,
  `CodeFiles`, `CodeEnds`), and any program that has it keeps the property, wherever calls fail:
  `MixInv` says how many graphs are in `sinkVec` by the place of the call, `FilesInv` and `EndInv`
  what is closed once it is past.
- *Pointers.* `DefinedUnlessIgnored` says nothing of a program that is still running, and what is
  open when it takes a step depends on every step before. So `SafeInv` says that there is a plan:
  for each place of the program the set of pointers (and lengths of `sinkVec`) that are possible
  there. A plan is right (`Planned`) if each step, taken where its set is known, uses only what is
  open, frees nothing that is gone, and leads into the next set (`Takes`). A step that returns an
  error leads to where the caller goes on (`ErrorTo`): the end of the process, the next call, or the
  label `end`, before which the set `T` is known; a round of a loop leads back to the set it began
  with (`Follows`). A failure that is ignored is excluded by the property, unless the program finds
  it out later, and at a hole nothing is known. `KnownStep` proves that any program with such a plan
  keeps to it, and the rest of `ProgramPointers_proofs` gives each of the twenty its plan
  (`ProgramsPlanned`). The sets are of one form, `Known(H, C, n)`: the contexts `H` are open, of
  each pair in `C` the second is if the first is set (`if (dec)` guards what is made with it), and
  `sinkVec` has `n` sinks. `StepKnown` says how a step changes `H`, `C` and `n`, and texts are
  joined by `ChainJoin` and `ChainFlat`; so for any number of clients a mixer has `Inputs(i)`,
  `GraphSet(ins, k)` and `Outputs(m)` open after `i` inputs, `k` graphs and `m` outputs. As
  `SafeInv` quantifies over sets of all pointers it cannot be evaluated, and TLC has checked
  `DefinedUnlessIgnored` itself.
- *ffmpeg in sync.* While the pictures of a frame are encoded one by one a video is on its way to be
  near its input, which `SyncInv` says with the number that are left (`WillBeNear`); the arithmetic
  of a single frame, for a duration of any number of ticks, is `PicturesKeepNear`, where VSCFR's first
  frame is the case that costs another half a frame. Every other step carries an output along
  (`Carried`): `Kinds` says so once for all of them.
- *ffmpeg loses nothing.* `NothingLost` speaks of the end, so the invariant says at every point of the
  program where the packets are. For a copy, what was muxed or passed over is what was read and
  processed (`HasRead`). For an encoded output, of sound or of video, what came out of the decoder of
  each open source (`Fed`) less what waits in the source's queue is as much as was taken from the
  graph or is still in it (`Mixed`: taken, at the sink, held back); a source that is closed was read
  for the last time and drained (`Drawn`) and may be behind, but some source is not (`Level`); a graph
  at its end holds nothing; and once the output is closed, as many frames were taken as its longest
  source has given (`AllTaken`). Behind the graph, the muxer and the encoder have as many as were
  taken, or, for a video, as the pictures that were counted (`Coded`). `PlaceAccount` says what the place in the program adds: while sinks are
  reaped those before `at` are empty, so the output that is closed at the end of its graph has all
  (`GraphAtEnd`), a file that has ended is not read (`SourceAccount`), and no output is open when the decoders are flushed. Each action then has its lemma:
  a packet that is decoded, pushed, mixed, reaped, encoded or muxed moves from one term of the account
  to the next. `AccountInv` asks for this only as long as nothing went wrong and nothing is limited,
  which `ClearBefore` says is so all along if it is so at the end.
- *Announcer.* `Numbers` says that the n-th header carries the unknown first amount plus n, in the
  width of its field, from which `NumberedInTurn` follows by the arithmetic of remainders. `Stream`
  says that without leftovers the n-th payload is the n-th chunk. `Lengths` says that with packets of
  one length the leftover is the remainder of that length by a chunk, or a whole chunk, by turns, so
  that what is copied is never longer than what there is.

`ImplementsQueue` holds whether `BlockIn` or not; `RingIsQueue` proves the same of the ring as it is
checked, beside the frames, where `RingTypes` is what its steps need and `EffectOnRing` what they do.
`AssertInv` is an invariant of a proof and not of a run. So each invariant of the passing runs is the
subject of a theorem. Only model-checked are all liveness properties and the fairness parts of
`ImplementsFifo` and `RingIsFifo`, which are outside of what tlapm proves.

## 6. Plan

1. Buffer, mixers, announcer, relay with their runs, and their first theorems. *Done.*
2. The programs as calls that fail, the earlier versions of the mixer among them;
   ffmpeg's loop. *Done.*
3. Proofs: every invariant of the passing runs, and the safety part of the refinements. *Done.*
4. Left: a player that gets the announcer's packets through a lossy network.

## 7. Not modelled

- The track sender (`SocketTestout`): eight files sent in packets of 160 bytes; all start again when
  one ends, and nothing says what a listener may expect then.
- `SocketTest/CSockRec`: the callback is commented out and the receive is not armed again.
- The load generator (`Servertest`): its function is never called.
- Parsers of MGCP and SIP (`Parser`, `tests`) and the SDP helpers (`filter_audio/Functions.cpp`):
  sequential text scanning without state.
- `CSrcCommon backup`: backups of a class whose users are not in the repository. The driver of classes
  of MGCPserver in `amix` likewise.
- `testSQL`, `LogParser`, `Timers`: single calls of libraries.
- The announcer of `filter_audio(4.05. ann)`: one packet for each encoded frame, no leftover.
- Of ffmpeg: see "OutputStreams, Transcoding" above.
- `show(index)` for an index above 0 and the data of frames: see the hazards in `PROJECT.json`.
