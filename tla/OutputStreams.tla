----------------------------- MODULE OutputStreams -----------------------------
(***************************************************************************)
(* The output streams of transcoding.cpp (ffmpeg's ffmpeg.c): when they    *)
(* are closed, how audio and video frames are given to their encoders at   *)
(* the output's own rate, and how packets are stamped and muxed.           *)
(* Encoders and muxers are external: an encoder holds back a fixed number  *)
(* of frames and a packet keeps its frame's timestamp.                     *)
(*                                                                         *)
(* Time is counted in ticks, FrameTicks to a frame of a video output.      *)
(* Input timestamps are even, so that the 2^-17 that reap_filters adds to  *)
(* keep them off exact midpoints is one tick.                              *)
(***************************************************************************)
EXTENDS Integers, Sequences, FiniteSets, FiniteSetsExt

CONSTANTS
    Conversions,  (* the command lines tried: see the fields used below    *)
    NoPts,        (* AV_NOPTS_VALUE: less than every timestamp             *)
    NoLimit,      (* INT64_MAX: more than every timestamp                  *)
    DupLimit      (* dts_error_threshold * 30                              *)

ASSUME TimeAssumption ==
    /\ NoPts \in Int /\ NoLimit \in Int
    /\ DupLimit \in Nat

VARIABLES
    conv,            (* the conversion that runs                           *)
    pc,              (* where the program is                               *)
    ost,             (* the output streams                                 *)
    recording_time,  (* recording_time of each output file                 *)
    dup,             (* do_video_out: its loop over nb_frames              *)
    sent,            (* history: the last packet given to each muxer, and  *)
                     (* the dts before it                                  *)
    trouble          (* history: the one thing that went wrong, or none    *)

Out == DOMAIN conv.outputs
With(st, o, stream) == [p \in Out |-> IF p = o THEN stream ELSE st[p]]
Video(o) == conv.outputs[o].type = "video"
Copied(o) == conv.outputs[o].copy
OutFile(o) == conv.outputs[o].of

FrameTicks == 20

\* lrint of a number of ticks, in frames: a midpoint goes to the even side.
Round(ticks) ==
    LET up == (ticks + 10) \div FrameTicks
    IN IF ticks + 10 = FrameTicks * up /\ up % 2 = 1 THEN up - 1 ELSE up

NewStream ==
    [finished |-> {},          \* of ENCODER (nothing more is encoded) and
                               \* MUXER (nothing more is muxed)
     unavailable |-> FALSE,
     sync_opts |-> 0,          \* audio: ticks; video: frames
     frame_number |-> 0,
     last_mux_dts |-> NoPts,
     enc |-> <<>>,             \* the timestamps inside the encoder
     last_nb0 |-> <<0, 0, 0>>,
     last_dropped |-> FALSE,
     last_frame |-> FALSE,     \* whether there is one
     muxed |-> 0,              \* history: packets the muxer has taken
     taken |-> 0,              \* history: frames taken from its sink
     passed |-> 0,             \* history: packets that were left out
     ends |-> 0,               \* history: where the latest picture ends
     skipped |-> FALSE]        \* history: a duplication was too large

NoDup == [o |-> 0, i |-> 0, nb |-> 0, nb0 |-> 0, next |-> FALSE]

OutputTypeOK ==
    /\ DOMAIN ost = Out
    /\ \A o \in Out :
         /\ ost[o].finished \subseteq {"ENCODER", "MUXER"}
         /\ ost[o].unavailable \in BOOLEAN
         /\ ost[o].sync_opts \in Int /\ ost[o].last_mux_dts \in Int
         /\ ost[o].frame_number \in 0..conv.outputs[o].max_frames
         /\ Len(ost[o].enc) \in 0..conv.outputs[o].hold
         /\ ost[o].last_nb0 \in Nat \X Nat \X Nat
         /\ ost[o].last_dropped \in BOOLEAN /\ ost[o].last_frame \in BOOLEAN
    /\ DOMAIN recording_time = {OutFile(o) : o \in Out}
    /\ \A f \in DOMAIN recording_time : recording_time[f] \in Int
    /\ dup.nb \in Nat /\ dup.nb0 \in 0..dup.nb /\ dup.i \in 0..dup.nb

OutputInit ==
    /\ conv \in Conversions
    /\ ost = [o \in Out |-> NewStream]
    /\ recording_time = [f \in {OutFile(o) : o \in Out} |-> conv.time[f]]
    /\ dup = NoDup
    /\ sent = [o \in Out |-> [pts |-> NoPts, dts |-> NoPts, prev |-> NoPts]]
    /\ trouble = "none"
-----------------------------------------------------------------------------
(* Closing. *)

\* Where output o is: sync_opts - first_pts, which is 0.
Position(o, st) ==
    IF Video(o) THEN FrameTicks * st[o].sync_opts ELSE st[o].sync_opts

\* close_output_stream for each output of S.
Closed(st, S) ==
    [o \in Out |-> IF o \in S
                   THEN [st[o] EXCEPT !.finished = @ \cup {"ENCODER"}]
                   ELSE st[o]]

\* With -shortest the others in the file end where the first one ended.
ShortenedBy(S, st) ==
    [f \in DOMAIN recording_time |->
        IF f \in conv.shortest
        THEN Min({recording_time[f]}
                 \cup {Position(o, st) : o \in {p \in S : OutFile(p) = f}})
        ELSE recording_time[f]]

close_output_stream(S, st) ==
    /\ ost' = Closed(st, S)
    /\ recording_time' = ShortenedBy(S, st)

finish_output_stream(st, S) ==
    LET finishing == {o \in Out : \/ o \in S
                                  \/ \E p \in S : /\ OutFile(p) = OutFile(o)
                                                  /\ OutFile(p) \in conv.shortest}
    IN [o \in Out |-> IF o \in finishing
                      THEN [st[o] EXCEPT !.finished = {"ENCODER", "MUXER"}]
                      ELSE st[o]]

close_all_output_streams(st, o) ==
    [p \in Out |-> [st[p] EXCEPT !.finished = @ \cup
        (IF p = o THEN {"ENCODER", "MUXER"} ELSE {"ENCODER"})]]

\* ~check_recording_time
RecordingTimeOver(o) ==
    /\ recording_time[OutFile(o)] # NoLimit
    /\ Position(o, ost) >= recording_time[OutFile(o)]
-----------------------------------------------------------------------------
(* write_frame *)

Larger(a, b) == IF a >= b THEN a ELSE b
Smaller(a, b) == IF a <= b THEN a ELSE b
Median(a, b, c) == Larger(Smaller(a, b), Smaller(Larger(a, b), c))

\* A dts after the pts is replaced by a guess, for both.
Guessed(p, last) ==
    IF p.dts # NoPts /\ p.pts # NoPts /\ p.dts > p.pts
    THEN LET guess == Median(p.pts, p.dts, last + 1)
         IN  [pts |-> guess, dts |-> guess]
    ELSE p

\* The least dts after the last one: the same again for AVFMT_TS_NONSTRICT.
LeastDts(o, last) == last + conv.outputs[o].step

\* A dts before the least one is moved there, and the pts is left where it
\* was.
InOrderKeepingPts(o, p, last) ==
    IF p.dts # NoPts /\ last # NoPts /\ p.dts < LeastDts(o, last)
    THEN [p EXCEPT !.dts = LeastDts(o, last)]
    ELSE p

\* A dts before the least one is moved there, and the pts not left before it.
InOrder(o, p, last) ==
    LET least == LeastDts(o, last)
    IN IF p.dts # NoPts /\ last # NoPts /\ p.dts < least
       THEN [pts |-> IF p.pts >= p.dts THEN Larger(p.pts, least) ELSE p.pts,
             dts |-> least]
       ELSE p

\* The repairs: neither for AVFMT_NOTIMESTAMPS, the first for a copied VP9.
Repairs(o, repair) == repair \in conv.outputs[o].repairs
Stamped(o, p, last) ==
    LET q == IF Repairs(o, "guess") THEN Guessed(p, last) ELSE p
    IN IF Repairs(o, "order") THEN InOrder(o, q, last) ELSE q

\* Packets over the limit are dropped here, except for those of an encoded
\* video, which is limited before its encoder.
Counted(o) == Copied(o) \/ ~Video(o)
OverLimit(o, st) == st[o].frame_number > conv.outputs[o].max_frames
AtLimit(o, st) == st[o].frame_number >= conv.outputs[o].max_frames

\* st is ost at the call.
write_frame(o, p, st) ==
    LET last == st[o].last_mux_dts
        q == Stamped(o, p, last)
        number == IF Counted(o) THEN st[o].frame_number + 1 ELSE st[o].frame_number
        emptied == With(st, o,
            [st[o] EXCEPT !.frame_number = number, !.passed = @ + 1])
        written == With(st, o,
            [st[o] EXCEPT !.frame_number = number, !.muxed = @ + 1,
                          !.last_mux_dts = q.dts])
        dropped == Counted(o) /\ AtLimit(o, st)
    IN \/ /\ dropped
          /\ ost' = st
          /\ UNCHANGED <<sent, trouble>>
       \/ \* the bitstream filters leave nothing of the packet
          /\ ~dropped /\ conv.outputs[o].bsf
          /\ ost' = emptied
          /\ UNCHANGED <<sent, trouble>>
       \/ /\ ~dropped
          /\ sent' = [sent EXCEPT ![o] = [pts |-> q.pts, dts |-> q.dts,
                                          prev |-> last]]
          /\ \/ ost' = written /\ UNCHANGED trouble
             \/ \* av_interleaved_write_frame fails
                /\ trouble = "none"
                /\ trouble' = "write"
                /\ ost' = close_all_output_streams(written, o)

\* avcodec_encode_audio2, avcodec_encode_video2: a frame goes in, and when
\* the encoder is full a packet comes out.
Encode(o, pts, st) ==
    LET inside == Append(st[o].enc, pts)
    IN IF Len(inside) > conv.outputs[o].hold
       THEN write_frame(o, [pts |-> Head(inside), dts |-> Head(inside)],
                        [st EXCEPT ![o].enc = Tail(inside)])
       ELSE /\ ost' = [st EXCEPT ![o].enc = inside]
            /\ UNCHANGED <<sent, trouble>>

do_audio_out(o, frame) ==
    IF RecordingTimeOver(o)
    THEN close_output_stream({o}, ost) /\ UNCHANGED <<sent, trouble>>
    ELSE /\ Encode(o, frame.pts,
                   [ost EXCEPT ![o].sync_opts = frame.pts + frame.dur,
                               ![o].taken = @ + 1])
         /\ UNCHANGED recording_time
-----------------------------------------------------------------------------
(* do_video_out: how often the picture before and this one are encoded.    *)

\* How long a picture is taken to last: whole frames if its packet says so,
\* else, or if the output has filters, what the frame rates of its graph and
\* of -r say (0: nothing), which need not be whole frames.
DurationOf(o, frame) ==
    IF ~conv.outputs[o].filters /\ Round(frame.dur) > 0
    THEN FrameTicks * Round(frame.dur)
    ELSE conv.outputs[o].dur

\* sync_ipts: float_pts, kept off the midpoints
SyncPts(frame) ==
    frame.pts + (IF frame.pts > 0 THEN 1 ELSE IF frame.pts < 0 THEN -1 ELSE 0)

\* Like SyncFrames, but the frames that are missing are counted without
\* rounding.
SyncFramesDown(o, frame) ==
    LET sync == ost[o].sync_opts
        delta == SyncPts(frame) + DurationOf(o, frame) - FrameTicks * sync
    IN [sync_opts |-> sync, nb0 |-> 0,
        nb |-> IF delta < -22 THEN 0
               ELSE IF delta > 22 THEN (delta - 20) \div FrameTicks ELSE 1]

\* nb0 times the picture before, then the new one up to nb frames.
SyncFrames(o, frame) ==
    LET method == conv.outputs[o].sync
        sync == ost[o].sync_opts
        drift == SyncPts(frame) - FrameTicks * sync
        delta == drift + DurationOf(o, frame)
        clipped == drift < 0 /\ delta > 0 /\ method # "PASSTHROUGH"
        delta0 == IF clipped THEN 0 ELSE drift
        \* in frames; a clipped picture is where the output is
        here == IF clipped THEN sync ELSE Round(SyncPts(frame))
        \* initial frames are not duplicated
        restart == method = "VSCFR" /\ ost[o].frame_number = 0 /\ delta0 >= 10
        d == IF restart THEN DurationOf(o, frame) ELSE delta
        d0 == IF restart THEN 0 ELSE delta0
    IN CASE method \in {"CFR", "VSCFR"} ->
              [sync_opts |-> IF restart THEN here ELSE sync,
               nb |-> IF d < -22 THEN 0 ELSE IF d > 22 THEN Round(d) ELSE 1,
               nb0 |-> IF d > 22 /\ d0 > 22 THEN Round(d0 - 12) ELSE 0]
         [] method = "VFR" ->
              [sync_opts |-> IF delta > 12 THEN here ELSE sync,
               nb |-> IF delta <= -12 THEN 0 ELSE 1, nb0 |-> 0]
         [] method = "PASSTHROUGH" ->
              [sync_opts |-> here, nb |-> 1, nb0 |-> 0]

\* What every call does with the two numbers: limit them, keep nb0 for the
\* end, and begin the loop unless there is too much to duplicate.
BeginPictures(o, sync_opts, nb, nb0, next, ends) ==
    LET n == Smaller(nb, conv.outputs[o].max_frames - ost[o].frame_number)
        n0 == Smaller(nb0, n)
        both == IF n0 > 0 /\ ost[o].last_dropped THEN 1 ELSE 0
        more == IF n > n0 THEN 1 ELSE 0
        last == ost[o].last_nb0
        kept == [ost EXCEPT ![o].sync_opts = sync_opts,
                            ![o].last_nb0 = <<n0, last[1], last[2]>>,
                            ![o].ends = Larger(@, ends),
                            ![o].taken = IF next THEN @ + 1 ELSE @]
    IN IF n > both + more /\ n > DupLimit
       THEN ost' = [kept EXCEPT ![o].skipped = TRUE] /\ UNCHANGED <<pc, dup>>
       ELSE /\ ost' = [kept EXCEPT ![o].last_dropped = (n = n0 /\ next)]
            /\ dup' = [o |-> o, i |-> 0, nb |-> n, nb0 |-> n0, next |-> next]
            /\ pc' = "video"

do_video_out(o, frame) ==
    LET f == SyncFrames(o, frame)
    IN BeginPictures(o, f.sync_opts, f.nb, f.nb0, TRUE,
                     SyncPts(frame) + DurationOf(o, frame))

\* do_video_out(NULL): the end of the stream lasts as long as the pictures
\* before it did.
FlushVideo(o) ==
    LET last == ost[o].last_nb0
        nb == Median(last[1], last[2], last[3])
    IN BeginPictures(o, ost[o].sync_opts, nb, nb, FALSE, ost[o].ends)

\* The loop over nb_frames.
Picture == dup.next \/ (dup.i < dup.nb0 /\ ost[dup.o].last_frame)
VideoReturns == pc' = "reap" /\ dup' = NoDup

EncodePicture ==
    /\ pc = "video" /\ dup.i < dup.nb
    /\ Picture /\ ~RecordingTimeOver(dup.o)
    /\ Encode(dup.o, FrameTicks * ost[dup.o].sync_opts,
              [ost EXCEPT ![dup.o].sync_opts = @ + 1,
                          ![dup.o].frame_number = @ + 1])
    /\ dup' = [dup EXCEPT !.i = @ + 1]
    /\ UNCHANGED <<conv, pc, recording_time>>

NoPicture ==
    /\ pc = "video" /\ dup.i < dup.nb
    /\ ~Picture
    /\ VideoReturns
    /\ UNCHANGED <<conv, ost, recording_time, sent, trouble>>

RecordingEnds ==
    /\ pc = "video" /\ dup.i < dup.nb
    /\ Picture /\ RecordingTimeOver(dup.o)
    /\ close_output_stream({dup.o}, ost)
    /\ VideoReturns
    /\ UNCHANGED <<conv, sent, trouble>>

KeepPicture ==
    /\ pc = "video" /\ dup.i = dup.nb
    /\ ost' = [ost EXCEPT ![dup.o].last_frame = dup.next]
    /\ VideoReturns
    /\ UNCHANGED <<conv, recording_time, sent, trouble>>

VideoStep == EncodePicture \/ NoPicture \/ RecordingEnds \/ KeepPicture
=============================================================================
