-------------------------------- MODULE Programs --------------------------------
(***************************************************************************)
(* The programs of MixerPrograms and ExamplePrograms, run: call by call    *)
(* and step by step, with at most MaxFailures of the library's calls       *)
(* failing, anywhere.                                                      *)
(***************************************************************************)
EXTENDS ExamplePrograms

CONSTANT MaxFailures   (* bound: how many library calls fail in a run      *)

ASSUME MaxFailuresAssumption == MaxFailures \in Nat

Code ==
    [filter_audio |-> filter_audio, ann_4_05 |-> filter_audio_405,
     working_31_03 |-> filter_audio_3103, broken_4 |-> filter_audio_4broken,
     nfilter_3 |-> filter_audio_3n, FFMPEGtest2 |-> filter_audio_test2,
     CDecoder |-> filter_audio_cdec, sdp_2 |-> filter_audio_2sdp,
     filter_1_1 |-> filter_audio_11, amix |-> main_amix,
     amix_copy |-> main_copy, backupINET |-> main_inet,
     transcode_aac |-> main_aac, trans_backup |-> main_backup,
     RTP |-> streamFileByRTP, testRTPffmpeg |-> main_testRTP,
     demuxing |-> main_demuxing, extract |-> main_extract,
     reading |-> main_reading, dec_enc |-> audio_encode_example]

Program == DOMAIN Code

VARIABLES
    program,   (* the program that runs                                    *)
    at,        (* the call it is at, in Code[program]                      *)
    step,      (* the step of the call it is at                            *)
    ptr,       (* the state of each context pointer                        *)
    sinks,     (* sinkVec: the graph that each sink in it belongs to       *)
    mixed,     (* history: <<k, g>>, output k was given a frame of graph g *)
    failures,  (* history: how many library calls have failed              *)
    ignored,   (* history: the calls that failed and nobody cared          *)
    error,     (* an error brought the program to its label end            *)
    outcome    (* running; done: main has returned; exit: the process was  *)
               (* ended on an error; undefined: it used a pointer that is  *)
               (* null or dangling, or a sink that is not there            *)

vars == <<program, at, step, ptr, sinks, mixed, failures, ignored, error,
          outcome>>

TypeOK ==
    /\ program \in Program
    /\ at \in 1..(Len(Code[program]) + 1)
    /\ step \in Nat \ {0}
    /\ ptr \in [Contexts -> PointerStates]
    /\ sinks \in Seq(Track)
    /\ mixed \subseteq Track \X Track
    /\ failures \in 0..MaxFailures
    /\ ignored \subseteq {Code[program][n].name : n \in 1..Len(Code[program])}
    /\ error \in BOOLEAN
    /\ outcome \in {"running", "done", "exit", "undefined"}

Init ==
    /\ program \in Program
    /\ at = 1
    /\ step = 1
    /\ ptr = NothingOpen
    /\ sinks = <<>>
    /\ mixed = {}
    /\ failures = 0
    /\ ignored = {}
    /\ error = FALSE
    /\ outcome = "running"
-----------------------------------------------------------------------------
Running == outcome = "running" /\ at <= Len(Code[program])
call == Code[program][at]
InCall == Running /\ step <= Len(call.body)
now == call.body[step]

Guarded == \A c \in now.only : ptr[c] # "null"
Defined == /\ \A c \in now.uses : ptr[c] = "open"
           /\ \A c \in now.frees : ptr[c] # "stale"
           /\ now.pull <= Len(sinks)

GoTo(a, s) == at' = a /\ step' = s

\* What the caller does when the call returns an error.
OnError ==
    /\ UNCHANGED <<program, sinks, mixed>>
    /\ CASE call.onerror = "exit" ->
              outcome' = "exit" /\ UNCHANGED <<at, step, ignored, error>>
         [] call.onerror = "ignore" ->
              /\ GoTo(at + 1, 1)
              /\ ignored' = ignored \cup {call.name}
              /\ UNCHANGED <<error, outcome>>
         [] call.onerror = "cleanup" ->
              /\ GoTo(Len(Code[program]), 1)
              /\ error' = TRUE
              /\ UNCHANGED <<ignored, outcome>>

\* A step whose if () is not taken.
Skip ==
    /\ InCall
    /\ now.skipped \/ ~Guarded
    /\ GoTo(at, step + 1)
    /\ UNCHANGED <<program, ptr, sinks, mixed, failures, ignored, error,
                   outcome>>

\* A library call that does what it is for.
Succeed ==
    /\ InCall /\ Guarded /\ Defined
    /\ now.needs = {}
    /\ ptr' = Give(Free(ptr, now.frees), now.gives)
    /\ sinks' = IF now.push = 0 THEN sinks ELSE Append(sinks, now.push)
    /\ mixed' = IF now.pull = 0 THEN mixed
                ELSE mixed \cup {<<now.pull, sinks[now.pull]>>}
    /\ GoTo(at, step + 1)
    /\ UNCHANGED <<program, failures, ignored, error, outcome>>

\* if (!a && !b) goto end;
Missing ==
    /\ InCall /\ Guarded /\ now.needs # {}
    /\ IF \E c \in now.needs : ptr[c] # "null"
       THEN GoTo(at, step + 1) /\ UNCHANGED <<program, sinks, mixed, ignored,
                                              error, outcome>>
       ELSE OnError
    /\ UNCHANGED <<ptr, failures>>

\* A library call that fails.
CanFail == /\ InCall /\ Guarded /\ Defined
           /\ now.failure # "never"
           /\ failures < MaxFailures

FailReturned ==
    /\ CanFail /\ now.failure = "returned"
    /\ failures' = failures + 1
    /\ ptr' = Free(ptr, now.undo)
    /\ OnError

FailUnnoticed ==
    /\ CanFail /\ now.failure = "unnoticed"
    /\ failures' = failures + 1
    /\ ptr' = Free(ptr, now.gives)
    /\ ignored' = ignored \cup {call.name}
    /\ GoTo(at, step + 1)
    /\ UNCHANGED <<program, sinks, mixed, error, outcome>>

FailBreaks ==
    /\ CanFail /\ now.failure = "break"
    /\ failures' = failures + 1
    /\ GoTo(at + 1, 1)
    /\ UNCHANGED <<program, ptr, sinks, mixed, ignored, error, outcome>>

\* What happens then is not defined; the program is not followed further.
Undefined ==
    /\ InCall /\ Guarded /\ ~Defined
    /\ outcome' = "undefined"
    /\ UNCHANGED <<program, at, step, ptr, sinks, mixed, failures, ignored,
                   error>>

\* The call returns, or the loop goes round again.
EndOfCall ==
    /\ Running /\ step > Len(call.body)
    /\ \/ GoTo(at + 1, 1)
       \/ call.again /\ GoTo(at, 1)
    /\ UNCHANGED <<program, ptr, sinks, mixed, failures, ignored, error,
                   outcome>>

MainReturns ==
    /\ outcome = "running" /\ at > Len(Code[program])
    /\ outcome' = "done"
    /\ UNCHANGED <<program, at, step, ptr, sinks, mixed, failures, ignored,
                   error>>

Ended == outcome # "running" /\ UNCHANGED vars
-----------------------------------------------------------------------------
Next ==
    \/ Skip \/ Succeed \/ Missing
    \/ FailReturned \/ FailUnnoticed \/ FailBreaks \/ Undefined
    \/ EndOfCall \/ MainReturns
    \/ Ended

Spec == Init /\ [][Next]_vars
-----------------------------------------------------------------------------
(* Properties *)

\* The three steps that are undefined behaviour in a program that looked at
\* every result, by what they dereference: trans_backup's label end takes
\* nb_streams from a context that was never opened, transcode_aac's cleanup
\* closes an encoder that went with the output's context, and testRTPffmpeg
\* takes the time base of a video stream that the file does not have (the
\* README says how).
Holes == {<<"trans_backup", "end", {In(1)}>>,
          <<"transcode_aac", "end", {Enc(1)}>>,
          <<"testRTPffmpeg", "send", {Dec(1)}>>}

\* Failures that are not returned, and that the program finds out about when
\* it tests the pointer it did not get.
FoundOutLater == {"open_codec_context", "init_filter"}

\* A program that fails somewhere never goes on with a pointer that it did
\* not get or has given back, unless it ignored a failure before.
DefinedUnlessIgnored ==
    outcome = "undefined" =>
      \/ ignored \ FoundOutLater # {}
      \/ <<program, call.name, now.uses>> \in Holes

\* Client k gets the mix without itself: sinkVec, which is filled in the
\* order in which the graphs are made, is in step with the clients, unless
\* one of the graphs could not be made and was left out.
OwnMix ==
    "init_filter_graph" \notin ignored => \A m \in mixed : m[1] = m[2]

\* A program that writes trailers has no file without one when it returns,
\* whatever has failed on the way, unless the trailer itself did.
WritesTrailers == {"amix", "amix_copy", "backupINET", "trans_backup", "RTP",
                   "testRTPffmpeg"}
WholeFiles ==
    outcome = "done" /\ ~error /\ program \in WritesTrailers
       /\ "write_output_file_trailer" \notin ignored =>
      \A i \in Track : ptr[Muxer(i)] = "null"

\* What the programs with a label end keep open or allocated when they return
\* on some path: the file of an output without a context, the graph of an
\* init_filter that failed, a buffer no AVIOContext took.
KeptOpen(p) == CASE p = "transcode_aac" -> {Io(1)}
                 [] p = "trans_backup" -> {Data(1)}
                 [] p = "reading" -> {Data(2)}
                 [] OTHER -> {}

\* The label end frees everything else, whichever call it is reached from.
Owned(c) == Whole(c) = c
NothingLeft ==
    outcome = "done" /\ program \in {"transcode_aac", "trans_backup",
        "testRTPffmpeg", "demuxing", "extract", "reading", "dec_enc"} =>
      \A c \in Contexts : Owned(c) /\ ptr[c] # "null" => c \in KeptOpen(program)
=============================================================================
