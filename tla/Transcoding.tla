------------------------------ MODULE Transcoding ------------------------------
(***************************************************************************)
(* The main loop of transcoding.cpp (ffmpeg's ffmpeg.c, built without      *)
(* threads): transcode, transcode_step and what they call.  The loop       *)
(* serves the output that is furthest behind: it asks that output's filter *)
(* graph for a frame, reads a packet of the input the graph waits for,     *)
(* corrects its timestamps, decodes it into the graphs or copies it, and   *)
(* then takes whatever frames the graphs have made.                        *)
(* Demuxers, decoders and filters are external.  A decoder holds back a    *)
(* fixed number of frames and gives video in the order of its timestamps;  *)
(* a graph with one source passes a frame on at once, or holds one back; a *)
(* graph with more sources makes a frame when each open source has one.    *)
(***************************************************************************)
EXTENDS OutputStreams, SequencesExt

CONSTANTS
    MaxWaits,        (* bound: how often a demuxer has no packet yet       *)
    DeltaThreshold,  (* dts_delta_threshold, for AVFMT_TS_DISCONT          *)
    ErrorThreshold,  (* dts_error_threshold                                *)
    BackStep         (* AV_TIME_BASE / 10                                  *)

ASSUME WaitsAssumption == MaxWaits \in Nat

\* A conversion: its files, their streams with the packets in them, and the
\* outputs with the streams they are made from.  A copy is made of one stream,
\* which goes to no other output.  Of an output: the length of a picture by
\* its frame rates (dur); whether that is always used, because -filter was
\* given or no single stream is its source (filters); how its muxer wants
\* timestamps (repairs, step); whether bitstream filters may leave a packet
\* empty (bsf); and where a copy may begin: copy_initial_nonkeyframes,
\* copy_prior_start (begins).
ASSUME ConversionsAssumption ==
    \A c \in Conversions :
      /\ c.files \in Seq([loop : Nat, discont : BOOLEAN])
      /\ c.inputs \in Seq([type : {"audio", "video"}, file : DOMAIN c.files,
                           depth : Nat, rate : Nat,
                           packets : Seq([dts : Int, pts : Int, dur : Int,
                                          key : BOOLEAN, stream : Int])])
      /\ c.outputs \in Seq([type : {"audio", "video"}, copy : BOOLEAN, of : Nat,
                            from : SUBSET DOMAIN c.inputs, hold : Nat, lag : Nat,
                            max_frames : Nat, dur : Nat, filters : BOOLEAN,
                            repairs : SUBSET {"guess", "order"}, step : {0, 1},
                            bsf : BOOLEAN, begins : SUBSET {"nonkey", "prior"},
                            sync : {"CFR", "VSCFR", "VFR", "PASSTHROUGH", "none"}])
      /\ \A o \in DOMAIN c.outputs :
           /\ c.outputs[o].from # {}
           /\ c.outputs[o].type = "video" /\ ~c.outputs[o].copy => c.outputs[o].sync # "none"
           /\ c.outputs[o].copy =>
                /\ \E s \in DOMAIN c.inputs : c.outputs[o].from = {s}
                /\ \A p \in DOMAIN c.outputs \ {o} :
                      c.outputs[p].from \cap c.outputs[o].from = {}
      /\ c.time \in [{c.outputs[o].of : o \in DOMAIN c.outputs} -> Int]

VARIABLES
    cur,    (* the output chosen by choose_output                          *)
    src,    (* the input file process_input is called for                  *)
    pkt,    (* the packet that was read                                    *)
    at,     (* the output reap_filters or flush_encoders is at             *)
    flush,  (* reap_filters' argument                                      *)
    file,   (* the input files                                             *)
    ist,    (* the input streams                                           *)
    graph,  (* the filter graph of each encoded output                     *)
    waits   (* how often a demuxer had no packet                           *)

inputs == <<src, pkt, file, ist, graph, waits>>
loop == <<cur, at, flush>>
vars == <<conv, pc, ost, recording_time, dup, sent, trouble, loop, inputs>>

Streams == DOMAIN conv.inputs
Files == DOMAIN conv.files
StreamsOf(f) == {s \in Streams : conv.inputs[s].file = f}
VideoIn(s) == conv.inputs[s].type = "video"
From(o) == conv.outputs[o].from
Encoded == {o \in Out : ~Copied(o)}
DecodingNeeded(s) == \E o \in Encoded : s \in From(o)
CopiesOf(S) == {o \in Out : Copied(o) /\ From(o) \subseteq S}
NoPacket == [dts |-> NoPts, pts |-> NoPts, dur |-> 0, key |-> FALSE, stream |-> 0]

TypeOK ==
    /\ OutputTypeOK
    /\ pc \in {"loop", "choose", "filter", "input", "again", "packet", "reap", "video",
               "flush_decoders", "flush_encoders", "ended", "exit"}
    /\ cur \in {0} \cup Out /\ src \in {0} \cup Files
    /\ at \in 1..Len(conv.outputs) + 1
    /\ flush \in BOOLEAN
    /\ waits \in 0..MaxWaits
    /\ \A f \in Files :
         /\ file[f].eagain \in BOOLEAN /\ file[f].eof_reached \in BOOLEAN
         /\ file[f].loop \in 0..conv.files[f].loop
         /\ file[f].duration \in Nat /\ file[f].ts_offset \in Int
    /\ \A s \in Streams :
         /\ ist[s].pos \in 0..Len(conv.inputs[s].packets)
         /\ Len(ist[s].dec) \in 0..conv.inputs[s].depth
    /\ \A o \in Encoded :
         /\ DOMAIN graph[o].queue = From(o) /\ graph[o].closed \subseteq From(o)
         /\ Len(graph[o].held) \in 0..conv.outputs[o].lag

Init ==
    /\ OutputInit
    /\ pc = "loop"
    /\ cur = 0 /\ src = 0 /\ pkt = NoPacket /\ at = 1 /\ flush = FALSE /\ waits = 0
    /\ file = [f \in Files |->
                 [eagain |-> FALSE, eof_reached |-> FALSE, ts_offset |-> 0,
                  last_ts |-> NoPts, loop |-> conv.files[f].loop, duration |-> 0]]
    /\ ist = [s \in Streams |->
                 [pos |-> 0, dec |-> <<>>, saw |-> FALSE, dts |-> 0, pts |-> 0,
                  next_dts |-> NoPts, next_pts |-> NoPts, max_pts |-> NoPts,
                  min_pts |-> NoLimit, nb_samples |-> 0]]
    /\ graph = [o \in Encoded |->
                 [queue |-> [s \in From(o) |-> <<>>], closed |-> {},
                  held |-> <<>>, sink |-> <<>>, eof |-> FALSE]]
-----------------------------------------------------------------------------
(* Which output is served next. *)

\* need_output: a full output closes every output of its file.
Full == {o \in Out : ost[o].finished = {}
                     /\ ost[o].frame_number >= conv.outputs[o].max_frames}
Needing == {o \in Out \ Full :
              /\ ost[o].finished = {}
              /\ ~ \E p \in Full : p < o /\ OutFile(p) = OutFile(o)}

NeedOutput ==
    LET seen == IF Needing = {} THEN Full ELSE {p \in Full : p < Min(Needing)}
        closing == {o \in Out : \E p \in seen : OutFile(p) = OutFile(o)}
    IN /\ pc = "loop"
       /\ close_output_stream(closing, ost)
       /\ pc' = IF Needing = {} THEN "flush_decoders" ELSE "choose"
       /\ UNCHANGED <<conv, dup, sent, trouble, loop, inputs>>

\* received_sigterm, or q on the keyboard
Stop ==
    /\ pc = "loop" /\ trouble = "none"
    /\ trouble' = "stop" /\ pc' = "flush_decoders"
    /\ UNCHANGED <<conv, ost, recording_time, dup, sent, loop, inputs>>

\* The first of the outputs whose last dts is the least.
Chosen ==
    LET open == {o \in Out : ost[o].finished = {}}
        behind == {o \in open : \A p \in open :
                                  ost[o].last_mux_dts <= ost[p].last_mux_dts}
    IN Min(behind)

\* Only the input files are asked again.
StillUnavailable(st) == st
Available(st) == [o \in Out |-> [st[o] EXCEPT !.unavailable = FALSE]]
reset_eagain == [f \in Files |-> [file[f] EXCEPT !.eagain = FALSE]]

choose_output ==
    /\ pc = "choose"
    /\ IF ost[Chosen].unavailable
       THEN /\ ost' = Available(ost) /\ file' = reset_eagain
            /\ pc' = "loop"
            /\ UNCHANGED <<cur, src>>
       ELSE /\ cur' = Chosen
            /\ IF Copied(Chosen)
               THEN /\ src' = conv.inputs[CHOOSE s \in From(Chosen) : TRUE].file
                    /\ pc' = "input"
               ELSE pc' = "filter" /\ UNCHANGED src
            /\ UNCHANGED <<ost, file>>
    /\ UNCHANGED <<conv, pkt, recording_time, dup, sent, trouble, at, flush,
                   ist, graph, waits>>

Reap(flushing) == pc' = "reap" /\ at' = 1 /\ flush' = flushing
-----------------------------------------------------------------------------
(* Filter graphs. *)

\* A frame reaches the sink, or pushes out the one that is held back.
Made(g, frame, lag) ==
    LET frames == Append(g.held, frame)
    IN IF Len(frames) > lag
       THEN [g EXCEPT !.held = Tail(frames), !.sink = Append(@, Head(frames))]
       ELSE [g EXCEPT !.held = frames]

\* The frames of each stream s of S, at most one, go into its graphs.
Pushed(S, frames) ==
    [o \in Encoded |->
        LET new(s) == IF s \in S THEN frames[s] ELSE <<>>
            g == graph[o]
            only == CHOOSE s \in From(o) : TRUE
        IN IF Cardinality(From(o)) > 1
           THEN [g EXCEPT !.queue = [s \in From(o) |-> g.queue[s] \o new(s)]]
           ELSE IF new(only) = <<>> THEN g
           ELSE Made(g, new(only)[1], conv.outputs[o].lag)]

Starved(o) == {s \in From(o) \ graph[o].closed : graph[o].queue[s] = <<>>}
Waiting(o) == {s \in From(o) : graph[o].queue[s] # <<>>}

\* The frames at the heads become one.
Mix(o) ==
    LET g == graph[o]
        heads == {Head(g.queue[s]) : s \in Waiting(o)}
    IN Made([g EXCEPT !.queue = [s \in From(o) |->
                        IF s \in Waiting(o) THEN Tail(g.queue[s]) ELSE g.queue[s]]],
            [pts |-> Min({h.pts : h \in heads}), dur |-> Max({h.dur : h \in heads})],
            conv.outputs[o].lag)

\* transcode_from_filter: avfilter_graph_request_oldest makes a frame, gives
\* the one that was held back, is at the end, or needs a packet.
FilterGives ==
    /\ pc = "filter" /\ Starved(cur) = {}
    /\ IF Waiting(cur) # {}
       THEN /\ graph' = [graph EXCEPT ![cur] = Mix(cur)]
            /\ Reap(FALSE)
       ELSE IF graph[cur].held # <<>>
       THEN /\ graph' = [graph EXCEPT ![cur].sink = @ \o graph[cur].held,
                                      ![cur].held = <<>>]
            /\ Reap(FALSE)
       ELSE /\ graph' = [graph EXCEPT ![cur].eof = TRUE]
            /\ Reap(TRUE)
    /\ UNCHANGED <<conv, pkt, ost, recording_time, dup, sent, trouble, cur, src,
                   file, ist, waits>>

FilterNeeds ==
    LET readable == {conv.inputs[s].file : s \in Starved(cur)} \
                       {f \in Files : file[f].eagain \/ file[f].eof_reached}
    IN /\ pc = "filter" /\ Starved(cur) # {}
       /\ \/ \E f \in readable : src' = f /\ pc' = "input" /\ UNCHANGED ost
          \/ /\ readable = {}
             /\ ost' = [ost EXCEPT ![cur].unavailable = TRUE]
             /\ pc' = "loop" /\ UNCHANGED src
       /\ UNCHANGED <<conv, pkt, recording_time, dup, sent, trouble, loop, file,
                      ist, graph, waits>>

FilterFails ==
    /\ pc = "filter" /\ trouble = "none"
    /\ trouble' = "filter" /\ pc' = "flush_decoders"
    /\ UNCHANGED <<conv, ost, recording_time, dup, sent, loop, inputs>>
-----------------------------------------------------------------------------
(* Input timestamps. *)

Shifted(p, d) == [p EXCEPT !.dts = IF @ = NoPts THEN @ ELSE @ + d,
                           !.pts = IF @ = NoPts THEN @ ELSE @ + d]
Beyond(delta, threshold) == delta < -threshold \/ delta > threshold

\* The packet as process_input passes it on, and the file's new ts_offset:
\* behind the passes already made, and with a jump taken out of the offset
\* (formats with AVFMT_TS_DISCONT) or the impossible timestamps left out.
Corrected(s, packet) ==
    LET f == conv.inputs[s].file
        discont == conv.files[f].discont
        i == ist[s]
        p1 == Shifted(packet, file[f].ts_offset)
        jump1 == IF /\ discont /\ p1.dts # NoPts
                    /\ i.next_dts = NoPts /\ file[f].last_ts # NoPts
                    /\ Beyond(p1.dts - file[f].last_ts, DeltaThreshold)
                 THEN p1.dts - file[f].last_ts ELSE 0
        p2 == Shifted(p1, file[f].duration - jump1)
        delta == p2.dts - i.next_dts
        known == p2.dts # NoPts /\ i.next_dts # NoPts
        jump2 == IF /\ discont /\ known
                    /\ \/ Beyond(delta, DeltaThreshold)
                       \/ p2.dts + BackStep < Larger(i.pts, i.dts)
                 THEN delta ELSE 0
        Kept(ts) == IF ts # NoPts /\ Beyond(ts - i.next_dts, ErrorThreshold)
                    THEN NoPts ELSE ts
    IN [packet |-> IF known /\ ~discont
                   THEN [p2 EXCEPT !.dts = Kept(@), !.pts = Kept(@)]
                   ELSE Shifted(p2, -jump2),
        ts_offset |-> file[f].ts_offset - jump1 - jump2,
        range |-> p2.pts]
-----------------------------------------------------------------------------
(* process_input_packet *)

\* Before the first packet time starts at its pts, or, for a video, as many
\* frames early as the decoder holds back.
Seen(s, p, i) ==
    LET early == IF VideoIn(s)
                 THEN -(conv.inputs[s].depth * conv.inputs[s].rate) ELSE 0
        given == p.pts # NoPts /\ ~DecodingNeeded(s)
        j == IF i.saw THEN i
             ELSE [i EXCEPT !.saw = TRUE,
                            !.dts = IF given THEN early + p.pts ELSE early,
                            !.pts = IF given THEN early + p.pts ELSE 0]
        k == [j EXCEPT !.next_dts = IF @ = NoPts THEN j.dts ELSE @,
                       !.next_pts = IF @ = NoPts THEN j.pts ELSE @]
    IN IF p.dts = NoPts THEN k
       ELSE IF VideoIn(s) /\ DecodingNeeded(s)
       THEN [k EXCEPT !.dts = p.dts, !.next_dts = p.dts]
       ELSE [k EXCEPT !.dts = p.dts, !.next_dts = p.dts,
                      !.pts = p.dts, !.next_pts = p.dts]

\* What the decoder is given, and which of what it holds it gives back.
Incoming(s, p, i) ==
    [pts |-> IF p.pts = NoPts /\ VideoIn(s) THEN i.dts ELSE p.pts, dur |-> p.dur]
Leaving(s, inside) ==
    IF VideoIn(s)
    THEN CHOOSE k \in DOMAIN inside :
            \A l \in DOMAIN inside : inside[k].pts <= inside[l].pts
    ELSE 1

\* A frame out comes from the decoder.  A picture sets the stream's time; an
\* audio frame without a timestamp gets that of packet p.
decode_video(i, out) == [ist |-> [i EXCEPT !.pts = out.pts, !.next_pts = out.pts],
                         frames |-> <<out>>]
decode_audio(i, out, p) ==
    [ist |-> [i EXCEPT !.next_pts = @ + out.dur, !.next_dts = @ + out.dur,
                       !.nb_samples = out.dur],
     frames |-> <<[out EXCEPT !.pts = IF @ # NoPts THEN @
                                      ELSE IF p.pts # NoPts THEN p.pts ELSE i.dts]>>]

\* How long a picture is: what its packet says, or its stream's frame rate; 0
\* if neither does.
Long(s, p) == IF p.dur # 0 THEN p.dur ELSE conv.inputs[s].rate

\* The dts after a picture that was given to its decoder, which is lost when
\* its length is not known.
NextDts(s, p, i) ==
    IF i.dts # NoPts /\ Long(s, p) # 0 THEN i.next_dts + Long(s, p) ELSE NoPts

\* One round of the loop, with a packet or with NoPacket at the end.
Decode(s, p, i0) ==
    LET end == p = NoPacket
        i == [i0 EXCEPT !.pts = i0.next_pts, !.dts = i0.next_dts]
        inside == IF end THEN i.dec ELSE Append(i.dec, Incoming(s, p, i))
        gives == inside # <<>> /\ (end \/ Len(inside) > conv.inputs[s].depth)
        k == Leaving(s, inside)
        fed == [i EXCEPT !.dec = IF gives THEN RemoveAt(inside, k) ELSE inside]
        d == IF ~gives THEN [ist |-> fed, frames |-> <<>>]
             ELSE IF VideoIn(s) THEN decode_video(fed, inside[k])
             ELSE decode_audio(fed, inside[k], p)
    IN IF VideoIn(s)
       THEN [d EXCEPT !.ist.next_dts = NextDts(s, p, i),
                      !.ist.next_pts = IF gives THEN @ + Long(s, p) ELSE @]
       ELSE d

\* A packet the decoder refuses: for video its length is counted.
Refused(s, p, i0) ==
    LET i == [i0 EXCEPT !.pts = i0.next_pts, !.dts = i0.next_dts]
    IN IF VideoIn(s) THEN [i EXCEPT !.next_dts = NextDts(s, p, i)] ELSE i

\* What comes out of the decoder at the end is not passed on.
AtEndUnshown(s) ==
    [Decode(s, NoPacket, Seen(s, NoPacket, ist[s])) EXCEPT !.frames = <<>>]
AtEnd(s) == Decode(s, NoPacket, Seen(s, NoPacket, ist[s]))

\* A stream that is only copied keeps its own time.
Passing(s, i, p) ==
    LET next == i.next_dts + (IF VideoIn(s) THEN Long(s, p) ELSE p.dur)
    IN [i EXCEPT !.pts = i.next_dts, !.dts = i.next_dts,
                 !.next_pts = next, !.next_dts = next]

\* Packets before the first one that is copied: up to a key frame, and up to
\* the start time, 0.
TooEarly(o, i, p) ==
    /\ ost[o].frame_number = 0
    /\ \/ ~p.key /\ "nonkey" \notin conv.outputs[o].begins
       \/ /\ (IF p.pts = NoPts THEN i.pts ELSE p.pts) < 0
          /\ "prior" \notin conv.outputs[o].begins
TooLate(o, i) ==
    /\ recording_time[OutFile(o)] # NoLimit
    /\ i.pts >= recording_time[OutFile(o)]

\* do_streamcopy for output o.
StreamCopy(o, i, p) ==
    LET audio == ~Video(o) /\ p.dts # NoPts
        packet == [dts |-> IF p.dts = NoPts THEN i.dts ELSE p.dts,
                   pts |-> IF audio THEN p.dts ELSE p.pts]
        moved == IF Video(o) THEN With(ost, o, [ost[o] EXCEPT !.sync_opts = @ + 1])
                             ELSE ost
    IN \/ /\ TooEarly(o, i, p)
          /\ ost' = With(ost, o, [ost[o] EXCEPT !.passed = @ + 1])
          /\ UNCHANGED <<recording_time, sent, trouble>>
       \/ /\ ~TooEarly(o, i, p) /\ TooLate(o, i)
          /\ close_output_stream({o}, ost)
          /\ UNCHANGED <<sent, trouble>>
       \/ /\ ~TooEarly(o, i, p) /\ ~TooLate(o, i)
          /\ write_frame(o, packet, moved)
          /\ UNCHANGED recording_time
-----------------------------------------------------------------------------
(* process_input: one packet of the file, which may hold any of its        *)
(* streams, is read and processed.                                         *)

WouldBlock ==
    /\ pc = "input" /\ waits < MaxWaits
    /\ waits' = waits + 1
    /\ file' = [file EXCEPT ![src].eagain = TRUE]
    /\ ost' = [ost EXCEPT ![cur].unavailable = TRUE]
    /\ pc' = "loop"
    /\ UNCHANGED <<conv, pkt, recording_time, dup, sent, trouble, loop, src,
                   ist, graph>>

ReadPacket ==
    \E s \in StreamsOf(src) :
      LET c == Corrected(s, conv.inputs[s].packets[ist[s].pos + 1])
      IN /\ pc \in {"input", "again"}
         /\ ist[s].pos < Len(conv.inputs[s].packets)
         /\ pkt' = [c.packet EXCEPT !.stream = s]
         /\ file' = [reset_eagain EXCEPT ![src].ts_offset = c.ts_offset,
              ![src].last_ts = IF c.packet.dts = NoPts THEN @ ELSE c.packet.dts]
         /\ ist' = [ist EXCEPT ![s].pos = @ + 1,
              ![s].max_pts = IF c.range = NoPts THEN @ ELSE Larger(c.range, @),
              ![s].min_pts = IF c.range = NoPts THEN @ ELSE Smaller(c.range, @)]
         /\ ost' = Available(ost)
         /\ pc' = "packet"
         /\ UNCHANGED <<conv, recording_time, dup, sent, trouble, loop, src,
                        graph, waits>>

DecodePacket ==
    LET s == pkt.stream
        i == Seen(s, pkt, ist[s])
        d == Decode(s, pkt, i)
    IN /\ pc = "packet" /\ DecodingNeeded(s)
       /\ \/ /\ ist' = [ist EXCEPT ![s] = d.ist]
             /\ graph' = Pushed({s}, [t \in {s} |-> d.frames])
             /\ UNCHANGED trouble
          \/ /\ trouble = "none" /\ trouble' = "decode"
             /\ ist' = [ist EXCEPT ![s] = Refused(s, pkt, i)]
             /\ UNCHANGED graph
       /\ pkt' = NoPacket
       /\ Reap(FALSE)
       /\ UNCHANGED <<conv, ost, recording_time, dup, sent, cur, src, file, waits>>

\* check_output_constraints
CopiesNow(s) == {o \in CopiesOf({s}) : ost[o].finished = {}}
Passed(s, p) == Passing(s, Seen(s, p, ist[s]), p)

CopyPacket ==
    LET s == pkt.stream
        i == Passed(s, pkt)
        copies == CopiesNow(s)
    IN /\ pc = "packet" /\ ~DecodingNeeded(s)
       /\ ist' = [ist EXCEPT ![s] = i]
       /\ IF copies = {}
          THEN UNCHANGED <<ost, recording_time, sent, trouble>>
          ELSE StreamCopy(Min(copies), i, pkt)
       /\ pkt' = NoPacket
       /\ Reap(FALSE)
       /\ UNCHANGED <<conv, dup, cur, src, file, graph, waits>>

\* av_parser_change fails: the program ends, without trailers.
CopyFails ==
    LET s == pkt.stream
        o == Min(CopiesNow(s))
        i == Passed(s, pkt)
    IN /\ pc = "packet" /\ ~DecodingNeeded(s) /\ CopiesNow(s) # {}
       /\ ~TooEarly(o, i, pkt) /\ ~TooLate(o, i)
       /\ trouble = "none" /\ trouble' = "copy"
       /\ pc' = "exit"
       /\ UNCHANGED <<conv, ost, recording_time, dup, sent, loop, inputs>>

\* The streams of the file are drained in order: each call gives one frame
\* of the first decoder that holds any, and ends the streams before it.
EndOfFile ==
    LET holding == {s \in StreamsOf(src) : DecodingNeeded(s) /\ ist[s].dec # <<>>}
        ended == {s \in StreamsOf(src) : \A t \in holding : s < t}
        first == IF holding = {} THEN {} ELSE {Min(holding)}
        drained == {s \in ended \cup first : DecodingNeeded(s)}
        pushed == Pushed(drained, [s \in drained |-> AtEnd(s).frames])
    IN /\ ist' = [s \in Streams |-> IF s \in drained THEN AtEnd(s).ist ELSE ist[s]]
       /\ graph' = [o \in Encoded |->
                      [pushed[o] EXCEPT !.closed = @ \cup (ended \cap From(o))]]
       /\ LET st == finish_output_stream(ost, CopiesOf(ended))
          IN ost' = IF first = {} /\ file[src].eagain
                    THEN [st EXCEPT ![cur].unavailable = TRUE] ELSE st
       /\ IF first # {}
          THEN Reap(FALSE) /\ UNCHANGED file
          ELSE /\ file' = [file EXCEPT ![src].eof_reached = TRUE]
               /\ pc' = "loop" /\ UNCHANGED <<at, flush>>
       /\ UNCHANGED <<conv, pkt, recording_time, dup, sent, cur, src>>

AllRead(f) == \A s \in StreamsOf(f) : ist[s].pos = Len(conv.inputs[s].packets)
NoSeek == (pc = "input" /\ file[src].loop = 0) \/ pc = "again"

EndOfInput ==
    /\ NoSeek /\ AllRead(src)
    /\ EndOfFile
    /\ UNCHANGED <<trouble, waits>>

\* An error ends the input.
ReadFails ==
    /\ NoSeek
    /\ trouble = "none" /\ trouble' = "read"
    /\ EndOfFile
    /\ UNCHANGED waits

\* Right after a seek, so does a demuxer that has no packet yet.
BlocksAfterSeek ==
    /\ pc = "again" /\ waits < MaxWaits
    /\ waits' = waits + 1
    /\ EndOfFile
    /\ UNCHANGED trouble

\* seek_to_start: one frame is taken from each decoder, which then forgets
\* the others.
SeekToStart ==
    LET S == StreamsOf(src)
        decoded == {s \in S : DecodingNeeded(s)}
        lost == \E s \in decoded : Len(ist[s].dec) > 1
        end == [s \in decoded |-> AtEnd(s)]
        after == [s \in S |-> IF s \in decoded THEN [end[s].ist EXCEPT !.dec = <<>>]
                                               ELSE ist[s]]
        \* without any pts, INT64_MIN - INT64_MAX, which is one unit
        span(i) == IF i.max_pts = NoPts THEN 2 ELSE i.max_pts - i.min_pts
        last(s) == IF VideoIn(s) /\ conv.inputs[s].rate > 0
                   THEN conv.inputs[s].rate ELSE 2
        sounding == {s \in S : ~VideoIn(s) /\ after[s].nb_samples > 0}
        lengths == IF sounding # {}
                   THEN {after[s].nb_samples + span(after[s]) : s \in sounding}
                   ELSE {last(s) + span(after[s]) : s \in S}
    IN /\ pc = "input" /\ file[src].loop > 0
       /\ \/ AllRead(src) /\ trouble' = IF lost THEN "loop" ELSE trouble
          \/ trouble = "none" /\ trouble' = "read"
       /\ ist' = [s \in Streams |-> IF s \in S THEN [after[s] EXCEPT !.pos = 0]
                                               ELSE ist[s]]
       /\ graph' = Pushed(decoded, [s \in decoded |-> end[s].frames])
       /\ file' = [file EXCEPT ![src].loop = @ - 1,
                               ![src].duration = Max({@} \cup lengths)]
       /\ pc' = "again"
       /\ UNCHANGED <<conv, pkt, ost, recording_time, dup, sent, loop, src, waits>>

\* av_seek_frame fails: the main loop ends.
SeekFails ==
    /\ pc = "input" /\ file[src].loop > 0 /\ AllRead(src)
    /\ trouble = "none" /\ trouble' = "read"
    /\ pc' = "flush_decoders"
    /\ UNCHANGED <<conv, ost, recording_time, dup, sent, loop, inputs>>
-----------------------------------------------------------------------------
(* reap_filters: the frames at every sink, output by output.  At the end   *)
(* of a graph the videos whose sinks are at their end are completed.       *)

Reaped == at \in Encoded /\ graph[at].sink # <<>>

ReapFrame ==
    /\ pc = "reap" /\ Reaped
    /\ graph' = [graph EXCEPT ![at].sink = Tail(@)]
    /\ LET frame == Head(graph[at].sink)
       IN \/ /\ ost[at].finished # {}
             /\ UNCHANGED <<pc, ost, recording_time, dup, sent, trouble>>
          \/ /\ ost[at].finished = {} /\ Video(at)
             /\ do_video_out(at, frame)
             /\ UNCHANGED <<recording_time, sent, trouble>>
          \/ /\ ost[at].finished = {} /\ ~Video(at)
             /\ do_audio_out(at, frame)
             /\ UNCHANGED <<pc, dup>>
    /\ UNCHANGED <<conv, pkt, loop, src, file, ist, waits>>

ReapNext ==
    /\ pc = "reap" /\ at \in Out /\ ~Reaped
    /\ at' = at + 1
    /\ IF flush /\ at \in Encoded /\ Video(at) /\ graph[at].eof
       THEN FlushVideo(at)
       ELSE UNCHANGED <<pc, ost, dup>>
    /\ UNCHANGED <<conv, recording_time, sent, trouble, cur, flush, inputs>>

ReapDone ==
    /\ pc = "reap" /\ at \notin Out
    /\ pc' = "loop"
    /\ close_output_stream(IF flush THEN {cur} ELSE {}, ost)
    /\ UNCHANGED <<conv, dup, sent, trouble, loop, inputs>>

ShowVideo == VideoStep /\ UNCHANGED <<loop, inputs>>
-----------------------------------------------------------------------------
(* After the loop: a last call to each decoder, whose frame goes no        *)
(* further than its graph, and what is left in the encoders.               *)

FlushDecoders ==
    LET S == {s \in Streams : /\ DecodingNeeded(s)
                              /\ ~file[conv.inputs[s].file].eof_reached}
        empty == {s \in S : ist[s].dec = <<>>}
        pushed == Pushed(S, [s \in S |-> AtEnd(s).frames])
    IN /\ pc = "flush_decoders"
       /\ pc' = "flush_encoders"
       /\ ist' = [s \in Streams |-> IF s \in S THEN AtEnd(s).ist ELSE ist[s]]
       /\ graph' = [o \in Encoded |->
                      [pushed[o] EXCEPT !.closed = @ \cup (empty \cap From(o))]]
       /\ UNCHANGED <<conv, ost, recording_time, dup, sent, trouble, loop,
                      src, pkt, file, waits>>

Held == {o \in Out : ost[o].enc # <<>>}
Muxing(o) == "MUXER" \notin ost[o].finished

FlushEncoder ==
    LET o == Min(Held)
        st == [ost EXCEPT ![o].enc = Tail(@)]
        pts == Head(ost[o].enc)
    IN /\ pc = "flush_encoders" /\ Held # {}
       /\ \/ /\ ~Muxing(o)
             /\ ost' = st /\ UNCHANGED <<sent, trouble>>
          \/ /\ Muxing(o)
             /\ write_frame(o, [pts |-> pts, dts |-> pts], st)
       /\ UNCHANGED <<conv, pc, recording_time, dup, loop, inputs>>

Trailers ==
    /\ pc = "flush_encoders" /\ Held = {}
    /\ pc' = "ended"
    /\ UNCHANGED <<conv, ost, recording_time, dup, sent, trouble, loop, inputs>>

\* An encoder that fails ends the program, without trailers.
EncoderFails ==
    /\ \/ pc = "video" /\ dup.i < dup.nb /\ Picture /\ ~RecordingTimeOver(dup.o)
       \/ pc = "reap" /\ Reaped /\ ~Video(at)
          /\ ost[at].finished = {} /\ ~RecordingTimeOver(at)
       \/ pc = "flush_encoders" /\ Held # {}
    /\ trouble = "none" /\ trouble' = "encode"
    /\ pc' = "exit"
    /\ UNCHANGED <<conv, ost, recording_time, dup, sent, loop, inputs>>
-----------------------------------------------------------------------------
Next ==
    \/ NeedOutput \/ Stop \/ choose_output
    \/ FilterGives \/ FilterNeeds \/ FilterFails
    \/ WouldBlock \/ ReadPacket \/ DecodePacket \/ CopyPacket \/ CopyFails
    \/ EndOfInput \/ ReadFails \/ BlocksAfterSeek \/ SeekToStart \/ SeekFails
    \/ ReapFrame \/ ReapNext \/ ReapDone \/ ShowVideo
    \/ FlushDecoders \/ FlushEncoder \/ Trailers \/ EncoderFails

\* One thread, which never waits for another; demuxers block MaxWaits times.
Spec == Init /\ [][Next]_vars /\ WF_vars(Next)
-----------------------------------------------------------------------------
\* What a muxer is given (lines 668-712), whatever the demuxers, the repairs
\* and the encoders have made of it: where the first repair is made no dts is
\* after its pts, and where the second is, each dts is after the one before, or
\* not before it if the muxer allows that.
WellStamped ==
    \A o \in Out :
        LET p == sent[o]
        IN /\ Repairs(o, "order") /\ p.dts # NoPts /\ p.prev # NoPts
                => p.dts >= LeastDts(o, p.prev)
           /\ Repairs(o, "guess") /\ p.dts # NoPts /\ p.pts # NoPts
                => p.dts <= p.pts

\* A video at a constant rate stays with its input (lines 900-1010): between
\* pictures the output has come to the end of the latest picture, up to half
\* a frame, or a whole one after VSCFR left initial pictures out, and is at
\* most two frames ahead of it, whatever the length of a picture was taken to
\* be, unless it was told to stop, a duplication was too large, or the end of
\* its graph was reached, where the last picture is repeated as often as those
\* before.
InSync ==
    \A o \in Encoded :
        /\ Video(o) /\ conv.outputs[o].sync \in {"CFR", "VSCFR"}
        /\ pc \notin {"video", "exit"} /\ ost[o].finished = {} /\ ~ost[o].skipped
        /\ ost[o].frame_number < conv.outputs[o].max_frames /\ ~graph[o].eof
        => LET ahead == FrameTicks * ost[o].sync_opts - ost[o].ends
               behind == IF conv.outputs[o].sync = "CFR" THEN 10 ELSE 20
           IN ahead >= -behind /\ ahead <= 42

Unlimited ==
    /\ conv.shortest = {}
    /\ \A f \in DOMAIN conv.time : conv.time[f] = NoLimit
    /\ \A o \in Out : ost[o].frame_number < conv.outputs[o].max_frames

\* The packets of stream s, and those that were read in all the passes.
Looped(s) == conv.files[conv.inputs[s].file].loop
Given(s) == Len(conv.inputs[s].packets)
Read(s) ==
    ist[s].pos + Given(s) * (Looped(s) - file[conv.inputs[s].file].loop)

\* When nothing went wrong and no limit was set, everything has been read that
\* was to be read once, and everything that was read has been written when the
\* program ends (lines 3836-3858, 4040-4079, 1675-1752): a copy has each packet
\* of its stream; an encoded output has taken a frame for each packet of its
\* longest stream from its graph, and every frame given to its encoder is in
\* the file.  So nothing is left in a decoder, a queue, a filter or an encoder,
\* in whatever order the outputs were served and the files ended.
NothingLost ==
    pc = "ended" /\ trouble = "none" /\ Unlimited =>
        \A o \in Out :
            LET read == Max({Read(s) : s \in From(o)})
                written == ost[o].muxed + ost[o].passed
            IN /\ \A s \in From(o) : Looped(s) = 0 => Read(s) = Given(s)
               /\ Copied(o) => written = read
               /\ ~Copied(o) => /\ ost[o].taken = read
                                /\ written = IF Video(o) THEN ost[o].frame_number
                                                         ELSE ost[o].taken

\* The loop comes to its end (lines 4160-4185): no output waits for an input
\* that has nothing more to give, and none is passed over for ever.
Terminates == <>(pc \in {"ended", "exit"})
=============================================================================
