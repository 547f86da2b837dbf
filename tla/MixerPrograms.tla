----------------------------- MODULE MixerPrograms -----------------------------
(***************************************************************************)
(* The mixers as programs: how each version of CRTPReceive (and the amix   *)
(* examples it was made from) opens its inputs, makes its filter graphs,   *)
(* opens its outputs and goes round its loop.  What the loop does with the *)
(* frames is in OneFilterMixer and ClientMixer; here a round is the calls  *)
(* that it makes and the contexts they dereference.                        *)
(*                                                                         *)
(* The code was copied from version to version.  The definitions of        *)
(* filter_audio come first; another version's definition is the same one   *)
(* where its text says the same, and is written out where it does not.     *)
(***************************************************************************)
EXTENDS Contexts

-----------------------------------------------------------------------------
(* filter_audio: a graph for each client.                                  *)

\* The SDP text is read through an AVIOContext of our own.  The three
\* allocations are asserted, or not looked at.
sdp_open(i) ==
    << Unchecked({}, {In(i)}), Unchecked({}, {Data(1)}),
       Unchecked({}, {Data(2)}),
       Try({In(i), Data(1), Data(2)}, {}, {In(i)}) >>

\* avformat_find_stream_info, the test for one stream, avcodec_find_decoder
\* and avcodec_open2 all close the input when they fail.
FindDecoder(i) ==
    [n \in 1..4 |-> Try({In(i)}, {}, {In(i)})] \o << Sure({In(i)}, {Dec(i)}) >>

open_input_file(i) == sdp_open(i) \o FindDecoder(i)

\* The filters of one graph: a source for each input of inputs, the mixer,
\* the sink, and their links.  Nothing is freed when a call fails.
CreateSource(k, i) ==
    << Try({}, {}, {}), Try({Dec(i), Graph(k)}, {Src(k, i)}, {}) >>

CreateMixAndSink(k) ==
    << Try({}, {}, {}), Try({Graph(k)}, {}, {}),        \* amix
       Try({}, {}, {}), Try({Graph(k)}, {}, {}),        \* abuffersink
       Try({Graph(k)}, {}, {}), Try({Graph(k)}, {}, {}) >>  \* its options

MakeGraph(k, inputs) ==
    LET Source(i) == IF i \in inputs THEN CreateSource(k, i) ELSE <<>>
        Link(i) == IF i \in inputs
                   THEN << Try({Graph(k), Src(k, i)}, {}, {}) >> ELSE <<>>
    IN << Try({}, {Graph(k)}, {}) >>
       \o ForEach(Source, Tracks) \o CreateMixAndSink(k)
       \o ForEach(Link, Tracks)
       \o << Try({Graph(k)}, {}, {}), Try({Graph(k)}, {}, {}) >>

\* Client k does not hear itself.
init_filter_graph(k) == MakeGraph(k, Track \ {k}) \o << PushSink(k) >>

\* When the context cannot be allocated the file stays open; later failures
\* close it, but out_iccx[i] may point into the context that is freed.
OpenOutput(i, uses) ==
    LET undo == {Io(i), Out(i)}
    IN << Try({}, {Io(i)}, {}), Try({}, {Out(i)}, {}),
          Try({Out(i)}, {}, undo), Try(uses, {}, undo),
          Try({Out(i)}, {Enc(i)}, undo),
          Try({Out(i), Enc(i), Dec(i)}, {}, undo) >>

\* The encoder is the one of the input's codec.
open_output_file(i) == OpenOutput(i, {Out(i), In(i)})

write_output_file_header(i) == << Try({Out(i)}, {Muxer(i)}, {}) >>

\* The result is tested with > 0, and errors are negative.
init_input_frame == << Unchecked({}, {Frame}) >>

\* The frame is dereferenced by the decoder only.
decode_audio_frame(i) ==
    << Try({In(i)}, {}, {}), Try({In(i), Dec(i), Frame}, {}, {}) >>

encode_audio_frame(i) ==
    << Maybe(Try({Out(i), Enc(i), Frame}, {}, {})),
       Maybe(Try({Out(i), Enc(i), Muxer(i)}, {}, {})) >>

\* A round of process_all for input i: the frame goes to every other client.
ReadRound(i, Decode(_)) ==
    LET Feed(j) == IF j = i THEN <<>>
                   ELSE << Maybe(Try({Src(j, i), Frame}, {}, {})) >>
    IN init_input_frame \o Decode(i) \o ForEach(Feed, Tracks)
       \o << Release({Frame}) >>

\* And for output k: sinkVec[k] is encoded into it.
PullRound(k, Encode(_)) ==
    << Unchecked({}, {Frame}), PullSink(k) >> \o Encode(k)
    \o << Release({Frame}) >>

MixRounds(Decode(_), Encode(_)) ==
    LET Read(i) == ReadRound(i, Decode)
        Pull(k) == PullRound(k, Encode)
    IN << Loop("process_all", ForEach(Read, Tracks) \o ForEach(Pull, Tracks),
               "exit") >>

process_all == MixRounds(decode_audio_frame, encode_audio_frame)

\* init: the inputs end the process when they fail; the graphs and the
\* output files only print.
OpenInputs(Open(_), n, onerror) ==
    LET One(i) == << Call("open_input_file", Open(i), onerror),
                     Call("av_dump_format", << Sure({In(i)}, {}) >>, "exit") >>
    IN ForEach(One, n)

MakeGraphs(Make(_), n) ==
    LET One(k) == << Call("init_filter_graph", Make(k), "ignore") >>
    IN ForEach(One, n)

OpenOutputs(Open(_), dump, n, onerror) ==
    LET One(i) ==
          << Call("open_output_file", Open(i), "ignore"),
             Call("av_dump_format",
                  IF dump THEN << Sure({Out(i)}, {}) >> ELSE <<>>, "exit"),
             Call("write_output_file_header", write_output_file_header(i),
                  onerror) >>
    IN ForEach(One, n)

\* The last client's graph is made first.
InitLastFirst ==
    LET LastFirst(k) == init_filter_graph(Tracks + 1 - k)
    IN OpenInputs(open_input_file, Tracks, "exit")
       \o MakeGraphs(LastFirst, Tracks)
       \o OpenOutputs(open_output_file, FALSE, Tracks, "exit")

init == OpenInputs(open_input_file, Tracks, "exit")
        \o MakeGraphs(init_filter_graph, Tracks)
        \o OpenOutputs(open_output_file, FALSE, Tracks, "exit")

filter_audio == init \o process_all
-----------------------------------------------------------------------------
(* filter_audio(4.05. ann): the same text.                                 *)

sdp_open_405(i) == sdp_open(i)
open_input_file_405(i) == sdp_open_405(i) \o FindDecoder(i)
init_filter_graph_405(k) == MakeGraph(k, Track \ {k}) \o << PushSink(k) >>
open_output_file_405(i) == OpenOutput(i, {Out(i), In(i)})
decode_audio_frame_405(i) == decode_audio_frame(i)
encode_audio_frame_405(i) == encode_audio_frame(i)
process_all_405 == MixRounds(decode_audio_frame_405, encode_audio_frame_405)

init_405 == OpenInputs(open_input_file_405, Tracks, "exit")
    \o MakeGraphs(init_filter_graph_405, Tracks)
    \o OpenOutputs(open_output_file_405, FALSE, Tracks, "exit")

filter_audio_405 == init_405 \o process_all_405
-----------------------------------------------------------------------------
(* filter_audio(31.03 working): the same calls.                            *)

sdp_open_3103(i) == sdp_open(i)
open_input_file_3103(i) == sdp_open_3103(i) \o FindDecoder(i)
init_filter_graph_3103(k) == MakeGraph(k, Track \ {k}) \o << PushSink(k) >>
open_output_file_3103(i) == OpenOutput(i, {Out(i), In(i)})
decode_audio_frame_3103(i) == decode_audio_frame(i)
encode_audio_frame_3103(i) == encode_audio_frame(i)
process_all_3103 == MixRounds(decode_audio_frame_3103, encode_audio_frame_3103)

init_3103 == OpenInputs(open_input_file_3103, Tracks, "exit")
    \o MakeGraphs(init_filter_graph_3103, Tracks)
    \o OpenOutputs(open_output_file_3103, FALSE, Tracks, "exit")

filter_audio_3103 == init_3103 \o process_all_3103
-----------------------------------------------------------------------------
(* filter_audio(4-broken): the encoder is PCM, and each output is dumped.  *)

sdp_open_4broken(i) == sdp_open(i)
open_input_file_4broken(i) == sdp_open_4broken(i) \o FindDecoder(i)
init_filter_graph_4broken(k) == MakeGraph(k, Track \ {k}) \o << PushSink(k) >>
open_output_file_4broken(i) == OpenOutput(i, {Out(i)})
decode_audio_frame_4broken(i) == decode_audio_frame(i)
encode_audio_frame_4broken(i) == encode_audio_frame(i)
process_all_4broken == MixRounds(decode_audio_frame_4broken, encode_audio_frame_4broken)

init_4broken == OpenInputs(open_input_file_4broken, Tracks, "exit")
    \o MakeGraphs(init_filter_graph_4broken, Tracks)
    \o OpenOutputs(open_output_file_4broken, TRUE, Tracks, "exit")

filter_audio_4broken == init_4broken \o process_all_4broken
-----------------------------------------------------------------------------
(* filter_audio(3-nfilter): as 4-broken.                                   *)

sdp_open_3n(i) == sdp_open(i)
open_input_file_3n(i) == sdp_open_3n(i) \o FindDecoder(i)
init_filter_graph_3n(k) == MakeGraph(k, Track \ {k}) \o << PushSink(k) >>
open_output_file_3n(i) == OpenOutput(i, {Out(i)})
decode_audio_frame_3n(i) == decode_audio_frame(i)
encode_audio_frame_3n(i) == encode_audio_frame(i)
process_all_3n == MixRounds(decode_audio_frame_3n, encode_audio_frame_3n)

init_3n == OpenInputs(open_input_file_3n, Tracks, "exit")
    \o MakeGraphs(init_filter_graph_3n, Tracks)
    \o OpenOutputs(open_output_file_3n, TRUE, Tracks, "exit")

filter_audio_3n == init_3n \o process_all_3n
-----------------------------------------------------------------------------
(* FFMPEGtest2: the packets of output 0 are also written to a file.        *)

sdp_open_test2(i) == sdp_open(i)
open_input_file_test2(i) == sdp_open_test2(i) \o FindDecoder(i)
init_filter_graph_test2(k) == MakeGraph(k, Track \ {k}) \o << PushSink(k) >>
open_output_file_test2(i) == OpenOutput(i, {Out(i), In(i)})
decode_audio_frame_test2(i) == decode_audio_frame(i)
encode_audio_frame_test2(i) == encode_audio_frame(i)
process_all_test2 == MixRounds(decode_audio_frame_test2, encode_audio_frame_test2)

init_test2 == OpenInputs(open_input_file_test2, Tracks, "exit")
    \o MakeGraphs(init_filter_graph_test2, Tracks)
    \o OpenOutputs(open_output_file_test2, FALSE, Tracks, "exit")

filter_audio_test2 == init_test2 \o process_all_test2
-----------------------------------------------------------------------------
(* CDecoder.cpp (not compiled): an input or a header that fails is printed.*)

sdp_open_cdec(i) == sdp_open(i)
open_input_file_cdec(i) == sdp_open_cdec(i) \o FindDecoder(i)
init_filter_graph_cdec(k) == MakeGraph(k, Track \ {k}) \o << PushSink(k) >>
open_output_file_cdec(i) == OpenOutput(i, {Out(i)})
decode_audio_frame_cdec(i) == decode_audio_frame(i)
encode_audio_frame_cdec(i) == encode_audio_frame(i)
process_all_cdec == MixRounds(decode_audio_frame_cdec, encode_audio_frame_cdec)

init_cdec == OpenInputs(open_input_file_cdec, Tracks, "ignore")
    \o MakeGraphs(init_filter_graph_cdec, Tracks)
    \o OpenOutputs(open_output_file_cdec, TRUE, Tracks, "ignore")

filter_audio_cdec == init_cdec \o process_all_cdec
-----------------------------------------------------------------------------
(* filter_audio(2-sdp): one graph mixes all inputs, and its frames are     *)
(* encoded to every output.                                                *)

OneGraph == MakeGraph(1, Track) \o << PushSink(1) >>

\* One sink is pulled, and each output takes the frame.
OneMixRound(inputs, outputs, Decode(_), Encode(_)) ==
    LET Read(i) == init_input_frame \o Decode(i)
                   \o << Maybe(Try({Src(1, i), Frame}, {}, {})),
                         Release({Frame}) >>
    IN ForEach(Read, inputs) \o << Unchecked({}, {Frame}), PullSink(1) >>
       \o ForEach(Encode, outputs) \o << Release({Frame}) >>

sdp_open_2sdp(i) == sdp_open(i)
open_input_file_2sdp(i) == sdp_open_2sdp(i) \o FindDecoder(i)
init_filter_graph_2sdp(k) == OneGraph
open_output_file_2sdp(i) == OpenOutput(i, {Out(i)})
\* An input is read when the graph asked for it.
decode_audio_frame_2sdp(i) ==
    [n \in 1..2 |-> Maybe(decode_audio_frame(i)[n])]
encode_audio_frame_2sdp(i) == encode_audio_frame(i)
process_all_2sdp ==
    << Loop("process_all",
            OneMixRound(Tracks, Tracks, decode_audio_frame_2sdp,
                        encode_audio_frame_2sdp), "exit") >>

init_2sdp == OpenInputs(open_input_file_2sdp, Tracks, "exit")
    \o MakeGraphs(init_filter_graph_2sdp, 1)
    \o OpenOutputs(open_output_file_2sdp, TRUE, Tracks, "exit")

filter_audio_2sdp == init_2sdp \o process_all_2sdp
-----------------------------------------------------------------------------
(* filter_audio(1-1filter): the inputs are files, and there is one output. *)

OpenFile(i) == << Try({}, {In(i)}, {In(i)}) >>

open_input_file_11(i) == OpenFile(i) \o FindDecoder(i)
init_filter_graph_11(k) == OneGraph
open_output_file_11(i) == OpenOutput(i, {Out(i)})
decode_audio_frame_11(i) == [n \in 1..2 |-> Maybe(decode_audio_frame(i)[n])]
encode_audio_frame_11(i) == encode_audio_frame(i)
process_all_11 ==
    << Loop("process_all",
            OneMixRound(Tracks, 1, decode_audio_frame_11,
                        encode_audio_frame_11), "exit") >>

init_11 == OpenInputs(open_input_file_11, Tracks, "exit")
    \o MakeGraphs(init_filter_graph_11, 1)
    \o OpenOutputs(open_output_file_11, TRUE, 1, "exit")

filter_audio_11 == init_11 \o process_all_11
-----------------------------------------------------------------------------
(* amix, the example the mixers were made from (testAmixOrigin, its copy   *)
(* and backupINET.cpp, which is not compiled): two inputs, one output.     *)
(* The sources and the sink are set when the whole graph is there, and the *)
(* trailer is written.                                                     *)

TwoInputs(Open(_)) == OpenInputs(Open, 2, "exit")

\* Any error of av_read_frame counts as the end of the file.
DecodeToEnd(i) == << Maybe(Sure({In(i)}, {})),
                     Maybe(Try({In(i), Dec(i), Frame}, {}, {})) >>

TwoInputGraph ==
    LET Source(i) == << Try({}, {}, {}), Try({Dec(i), Graph(1)}, {}, {}) >>
    IN << Try({}, {Graph(1)}, {}) >>
       \o ForEach(Source, 2) \o CreateMixAndSink(1)
       \o [n \in 1..4 |-> Try({Graph(1)}, {}, {})]   \* links and config
       \o << Sure({Graph(1)}, {Src(1, 1), Src(1, 2)}), PushSink(1) >>

\* A frame that cannot be allocated goes to the label end.
CheckedFrame == << Try({}, {Frame}, {}) >>

WriteTrailer(i) == << Try({Out(i), Muxer(i)}, {}, {}), Release({Muxer(i)}) >>

\* amix.cpp, which no program calls any more
init_filter_graph_amix == TwoInputGraph
open_input_file_amix(i) == OpenFile(i) \o FindDecoder(i)
open_output_file_amix(i) == OpenOutput(i, {Out(i)})
decode_audio_frame_amix(i) == DecodeToEnd(i)
encode_audio_frame_amix(i) == encode_audio_frame(i)
process_all_amix ==
    LET Read(i) == CheckedFrame \o decode_audio_frame_amix(i)
                   \o << Maybe(Try({Src(1, i), Frame}, {}, {})),
                         Release({Frame}) >>
    IN << Loop("process_all",
               ForEach(Read, 2) \o << Unchecked({}, {Frame}), PullSink(1) >>
               \o encode_audio_frame_amix(1) \o << Release({Frame}) >>,
               "exit") >>
write_output_file_header_amix(i) == write_output_file_header(i)
\* No trailer is written.
NoTrailer(i) == <<>>
write_output_file_trailer_amix(i) == WriteTrailer(i)

main_amix ==
    TwoInputs(open_input_file_amix)
    \o << Call("init_filter_graph", init_filter_graph_amix, "ignore"),
          Call("open_output_file", open_output_file_amix(1), "ignore"),
          Call("av_dump_format", << Sure({Out(1)}, {}) >>, "exit"),
          Call("write_output_file_header", write_output_file_header_amix(1),
               "exit") >>
    \o process_all_amix
    \o << Call("write_output_file_trailer", write_output_file_trailer_amix(1),
               "exit") >>

\* amix - copy
init_filter_graph_copy == TwoInputGraph
open_input_file_copy(i) == OpenFile(i) \o FindDecoder(i)
open_output_file_copy(i) == OpenOutput(i, {Out(i)})
decode_audio_frame_copy(i) == [n \in 1..2 |-> Maybe(decode_audio_frame(i)[n])]
encode_audio_frame_copy(i) == encode_audio_frame(i)
process_all_copy ==
    LET Read(i) == init_input_frame \o decode_audio_frame_copy(i)
                   \o << Maybe(Try({Src(1, i), Frame}, {}, {})),
                         Release({Frame}) >>
    IN << Loop("process_all",
               ForEach(Read, 2) \o << Unchecked({}, {Frame}), PullSink(1) >>
               \o encode_audio_frame_copy(1) \o << Release({Frame}) >>,
               "exit") >>
write_output_file_header_copy(i) == write_output_file_header(i)
write_output_file_trailer_copy(i) == WriteTrailer(i)

main_copy ==
    TwoInputs(open_input_file_copy)
    \o << Call("init_filter_graph", init_filter_graph_copy, "ignore"),
          Call("open_output_file", open_output_file_copy(1), "ignore"),
          Call("av_dump_format", << Sure({Out(1)}, {}) >>, "exit"),
          Call("write_output_file_header", write_output_file_header_copy(1),
               "exit") >>
    \o process_all_copy
    \o << Call("write_output_file_trailer", write_output_file_trailer_copy(1),
               "exit") >>

\* backupINET.cpp
init_filter_graph_inet == TwoInputGraph
open_input_file_inet(i) == OpenFile(i) \o FindDecoder(i)
open_output_file_inet(i) == OpenOutput(i, {Out(i)})
decode_audio_frame_inet(i) == [n \in 1..2 |-> Maybe(decode_audio_frame(i)[n])]
encode_audio_frame_inet(i) == encode_audio_frame(i)
process_all_inet ==
    LET Read(i) == init_input_frame \o decode_audio_frame_inet(i)
                   \o << Maybe(Try({Src(1, i), Frame}, {}, {})),
                         Release({Frame}) >>
    IN << Loop("process_all",
               ForEach(Read, 2) \o << Unchecked({}, {Frame}), PullSink(1) >>
               \o encode_audio_frame_inet(1) \o << Release({Frame}) >>,
               "exit") >>
write_output_file_header_inet(i) == write_output_file_header(i)
write_output_file_trailer_inet(i) == WriteTrailer(i)

main_inet ==
    TwoInputs(open_input_file_inet)
    \o << Call("init_filter_graph", init_filter_graph_inet, "ignore"),
          Call("open_output_file", open_output_file_inet(1), "ignore"),
          Call("av_dump_format", << Sure({Out(1)}, {}) >>, "exit"),
          Call("write_output_file_header", write_output_file_header_inet(1),
               "exit") >>
    \o process_all_inet
    \o << Call("write_output_file_trailer", write_output_file_trailer_inet(1),
               "exit") >>
=============================================================================
