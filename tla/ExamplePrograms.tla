---------------------------- MODULE ExamplePrograms ----------------------------
(***************************************************************************)
(* The other programs that use FFmpeg, as the calls they make and the      *)
(* contexts they dereference and free: trans_backup, RTP, testRTPffmpeg,   *)
(* demuxing, extract, reading, dec_enc and transcode_aac.                  *)
(***************************************************************************)
EXTENDS MixerPrograms

-----------------------------------------------------------------------------
(* transcode_aac.  Data(1) is the resampler and Data(2) the FIFO.          *)

open_input_file_aac(i) == OpenFile(i) \o FindDecoder(i)
open_output_file_aac(i) == OpenOutput(i, {Out(i)})
write_output_file_header_aac(i) == write_output_file_header(i)
write_output_file_trailer_aac(i) == WriteTrailer(i)

init_resampler ==
    << Try({Enc(1), Dec(1)}, {Data(1)}, {}), Try({Data(1)}, {}, {Data(1)}) >>

init_fifo == << Try({Enc(1)}, {Data(2)}, {}) >>

\* The label cleanup: the encoder is closed if its pointer is set.
cleanup_aac ==
    << Release({Data(2)}), Release({Data(1)}), If(Enc(1), Sure({Enc(1)}, {})),
       If(Out(1), Release({Io(1), Out(1)})), If(Dec(1), Sure({Dec(1)}, {})),
       Release({In(1)}) >>

\* The resampler is made before there is an encoder to make it for.
ResamplerFirst ==
    << Call("open_input_file", open_input_file_aac(1), "cleanup"),
       Call("init_resampler", init_resampler, "cleanup"),
       Call("open_output_file", open_output_file_aac(1), "cleanup"),
       Call("end", cleanup_aac, "exit") >>

\* The main loop.  The encoder is PCM's, with a frame_size of 0: the FIFO counts
\* as full when it is empty, so nothing is read, and the first
\* load_encode_and_write asks for a frame of no samples, whose buffer, Data(3),
\* the library does not make.
transcode ==
    << Sure({In(1), Dec(1), Out(1), Enc(1), Muxer(1), Data(1), Data(2)}, {}),
       Require({Data(3)}) >>

main_aac ==
    << Call("open_input_file", open_input_file_aac(1), "cleanup"),
       Call("open_output_file", open_output_file_aac(1), "cleanup"),
       Call("init_resampler", init_resampler, "cleanup"),
       Call("init_fifo", init_fifo, "cleanup"),
       Call("write_output_file_header", write_output_file_header_aac(1),
            "cleanup"),
       Call("transcode", transcode, "cleanup"),
       Call("write_output_file_trailer", write_output_file_trailer_aac(1),
            "cleanup"),
       Call("end", cleanup_aac, "exit") >>
-----------------------------------------------------------------------------
(* trans_backup (compiled with backup defined), for a file of one stream:  *)
(* audio, which is decoded, filtered and encoded, or anything else, which  *)
(* is remuxed (a video's decoder is opened and not used).  Data(1) is the  *)
(* graph that init_filter makes, Data(2) the array filter_ctx.             *)

\* Nothing is closed here: main does it.
open_input_file_backup ==
    << Try({}, {In(1)}, {In(1)}), Try({In(1)}, {}, {}),
       Maybe(Try({In(1)}, {Dec(1)}, {})) >>

open_output_file_backup ==
    << Try({}, {Out(1)}, {}), Try({Out(1)}, {Enc(1)}, {}),
       Try({In(1)}, {}, {}), Try({In(1), Enc(1)}, {}, {}),
       Maybe(Try({Out(1)}, {Io(1)}, {})), Try({Out(1)}, {Muxer(1)}, {}) >>

init_filter ==
    << Try({}, {Data(1)}, {}), Try({}, {}, {}), Try({Dec(1), Data(1)}, {}, {}),
       Try({Data(1)}, {}, {}) >>
    \o [n \in 1..3 |-> Try({Enc(1), Data(1)}, {}, {})]    \* the sink's options
    \o << Try({Data(1)}, {}, {}), Try({Data(1)}, {}, {}),
          Move({Data(1)}, {Graph(1), Src(1, 1), Sink(1)}) >>

\* A stream whose filter cannot be made is remuxed: init_filter's result is
\* not looked at.
init_filters == << Call("filter_ctx", << Try({In(1)}, {Data(2)}, {}) >>,
                        "cleanup"),
                   Call("init_filter", [n \in DOMAIN init_filter |->
                                           If(Dec(1), init_filter[n])],
                        "ignore") >>

encode_write_frame ==
    << Maybe(Try({In(1), Out(1), Enc(1)}, {}, {})),
       Maybe(Try({Out(1), Muxer(1)}, {}, {})) >>

filter_encode_write_frame ==
    << If(Graph(1), Maybe(Try({Data(2), Src(1, 1)}, {}, {}))),
       If(Graph(1), Maybe(Try({Data(2), Sink(1)}, {}, {}))) >>
    \o [n \in 1..2 |-> If(Graph(1), encode_write_frame[n])]

flush_encoder ==
    [n \in 1..2 |-> If(Graph(1), encode_write_frame[n])]

\* An error of av_read_frame or of the decoder ends the loop like the end of
\* the file.
ReadPackets ==
    << TryOrBreak({In(1)}, {}),
       If(Graph(1), TryOrBreak({}, {Frame})),
       If(Graph(1), TryOrBreak({In(1), Dec(1), Frame}, {})) >>
    \o filter_encode_write_frame
    \o << Release({Frame}), Maybe(Try({Out(1), Muxer(1)}, {}, {})) >>

\* The label end takes the number of streams from ifmt_ctx.
end_backup ==
    << Release({Frame}), Sure({In(1)}, {}), Release({Graph(1)}),
       Release({Data(2)}),
       Release({In(1)}), Release({Io(1)}), Release({Out(1)}) >>

main_backup ==
    << Call("open_input_file", open_input_file_backup, "cleanup"),
       Call("open_output_file", open_output_file_backup, "cleanup") >>
    \o init_filters
    \o << Loop("read", ReadPackets, "cleanup"),
          Call("flush", filter_encode_write_frame \o flush_encoder, "cleanup"),
          Call("write_output_file_trailer",
               << Unchecked({Out(1), Muxer(1)}, {}), Release({Muxer(1)}) >>,
               "cleanup"),
          Call("end", end_backup, "exit") >>
-----------------------------------------------------------------------------
(* RTP: a file is sent as RTP.                                             *)

\* Nothing that has been opened is closed when a call fails.
Create_outRTP_Context ==
    << Try({}, {Out(1)}, {}), Try({Out(1)}, {Io(1)}, {}), Try({In(1)}, {}, {}),
       Unchecked({Out(1)}, {Enc(1)}), Try({Enc(1), In(1)}, {}, {}) >>

streamFileByRTP ==
    << Call("open", << Try({}, {In(1)}, {In(1)}), Try({In(1)}, {}, {}) >>,
            "exit"),
       Call("Create_outRTP_Context", Create_outRTP_Context, "exit"),
       Call("write_output_file_header", << Try({Out(1)}, {Muxer(1)}, {}) >>,
            "exit"),
       Loop("send", << TryOrBreak({In(1)}, {}),
                       Maybe(Unchecked({Out(1), Muxer(1)}, {})) >>, "exit"),
       Call("write_output_file_trailer", WriteTrailer(1), "ignore"),
       Call("end", << Release({In(1)}) >>, "exit") >>
-----------------------------------------------------------------------------
(* testRTPffmpeg: a file is remuxed to an RTMP server.  Dec(1) is          *)
(* streams[videoindex], the first video stream of the file.                *)

end_testRTP == << Release({In(1)}), Release({Io(1)}), Release({Out(1)}) >>

\* A packet without a pts gets one from the video stream's time base,
\* whichever stream it is of and whether there is a video or not.
send_testRTP ==
    << TryOrBreak({In(1)}, {}), Maybe(Sure({Dec(1)}, {})),
       TryOrBreak({In(1), Out(1), Muxer(1)}, {}) >>

main_testRTP ==
    << Call("open", << Try({}, {In(1)}, {In(1)}), Try({In(1)}, {}, {}),
                       Maybe(Sure({In(1)}, {Dec(1)})) >>, "cleanup"),
       Call("output", << Try({}, {Out(1)}, {}), Try({In(1), Out(1)}, {}, {}),
                         Try({In(1), Out(1)}, {}, {}),
                         Maybe(Try({Out(1)}, {Io(1)}, {})),
                         Try({Out(1)}, {Muxer(1)}, {}) >>, "cleanup"),
       Loop("send", send_testRTP, "cleanup"),
       Call("write_output_file_trailer",
            << Unchecked({Out(1), Muxer(1)}, {}), Release({Muxer(1)}) >>,
            "cleanup"),
       Call("end", end_testRTP, "exit") >>
-----------------------------------------------------------------------------
(* demuxing: the audio and the video of a file are written as raw data.    *)
(* Dec(1) is the video decoder, Data(1) the audio decoder, Data(2) the     *)
(* image buffer; Io(1) and Io(2) are the two raw files.                    *)

\* Whether there is such a stream, whether it has a decoder, whether the
\* decoder opens.
open_codec_context(dec) ==
    [n \in 1..3 |-> Try({In(1)}, {}, {})] \o << Sure({In(1)}, {dec}) >>

\* A packet that cannot be decoded is left.
decode_packet ==
    << If(Dec(1), Maybe(Unchecked({Dec(1), Frame, Data(2), Io(1)}, {}))),
       If(Data(1), Maybe(Unchecked({Data(1), Frame, Io(2)}, {}))) >>

get_format_from_sample_fmt == << If(Data(1), Try({}, {}, {})) >>

\* The audio file is not closed.
EndWithAudioOpen ==
    << If(Dec(1), Sure({Dec(1)}, {})), If(Data(1), Sure({Data(1)}, {})),
       Release({In(1), Data(1)}), Release({Io(1)}),
       Release({Frame}), Release({Data(2)}) >>

end_demuxing ==
    << If(Dec(1), Sure({Dec(1)}, {})), If(Data(1), Sure({Data(1)}, {})),
       Release({In(1), Data(1)}), Release({Io(1)}), Release({Io(2)}),
       Release({Frame}), Release({Data(2)}) >>

main_demuxing ==
    << Call("open", << Try({}, {In(1)}, {In(1)}), Try({In(1)}, {}, {}) >>,
            "exit"),
       Call("open_codec_context", open_codec_context(Dec(1)), "ignore"),
       Call("video_dst", << If(Dec(1), Try({}, {Io(1)}, {})),
                            If(Dec(1), Try({Dec(1)}, {Data(2)}, {})) >>,
            "cleanup"),
       Call("open_codec_context", open_codec_context(Data(1)), "ignore"),
       Call("audio_dst", << If(Data(1), Try({}, {Io(2)}, {})),
                            Sure({In(1)}, {}), Require({Dec(1), Data(1)}),
                            Try({}, {Frame}, {}) >>, "cleanup"),
       Loop("read", << TryOrBreak({In(1)}, {}) >> \o decode_packet, "cleanup"),
       Loop("flush", decode_packet, "cleanup"),
       Call("get_format", get_format_from_sample_fmt, "cleanup"),
       Call("end", end_demuxing, "exit") >>
-----------------------------------------------------------------------------
(* extract: the motion vectors of a file's video are printed.              *)

open_codec_context_extract ==
    [n \in 1..3 |-> Try({In(1)}, {}, {})] \o << Sure({In(1)}, {Dec(1)}) >>

decode_packet_extract == << Maybe(Unchecked({Dec(1), Frame}, {})) >>

main_extract ==
    << Call("open", << Try({}, {In(1)}, {In(1)}), Try({In(1)}, {}, {}) >>,
            "exit"),
       Call("open_codec_context", open_codec_context_extract, "ignore"),
       Call("frame", << Sure({In(1)}, {}), Require({Dec(1)}),
                        Try({}, {Frame}, {}) >>, "cleanup"),
       Loop("read", << TryOrBreak({In(1)}, {}) >> \o decode_packet_extract,
            "cleanup"),
       Loop("flush", decode_packet_extract, "cleanup"),
       Call("end", << If(Dec(1), Sure({Dec(1)}, {})), Release({In(1)}),
                      Release({Frame}) >>, "exit") >>
-----------------------------------------------------------------------------
(* reading: a file is probed through an AVIOContext, Io(1), that reads the *)
(* mapped file Data(1) with the buffer Data(2).                            *)

\* The buffer belongs to the AVIOContext once that is made, and is nobody's
\* when it is not.
main_reading ==
    << Call("open", << Try({}, {Data(1)}, {}), Try({}, {In(1)}, {}),
                       Try({}, {Data(2)}, {}), Try({Data(2)}, {}, {}),
                       Move({Data(2)}, {Io(1)}),
                       Try({In(1), Io(1), Data(1)}, {}, {In(1)}),
                       Try({In(1), Io(1), Data(1)}, {}, {}),
                       Sure({In(1)}, {}) >>, "cleanup"),
       Call("end", << Release({In(1)}), Release({Io(1)}),
                      Release({Data(1)}) >>, "exit") >>
-----------------------------------------------------------------------------
(* dec_enc: a tone is encoded.  Data(1) is the buffer of its samples, and  *)
(* Data(2) the encoder, which belongs to no output.                        *)

audio_encode_example ==
    << Call("open", << Try({}, {}, {}), Try({}, {Data(2)}, {}),
                       Try({Data(2)}, {}, {}), Try({}, {Io(1)}, {}),
                       Try({}, {Frame}, {}), Try({Data(2)}, {}, {}),
                       Try({}, {Data(1)}, {}),
                       Try({Data(2), Frame, Data(1)}, {}, {}) >>, "exit"),
       Loop("encode", << Sure({Data(1)}, {}),
                         Try({Data(2), Frame}, {}, {}),
                         Maybe(Sure({Io(1)}, {})) >>, "exit"),
       Loop("flush", << Try({Data(2)}, {}, {}), Maybe(Sure({Io(1)}, {})) >>,
            "exit"),
       Call("end", << Release({Io(1)}), Release({Data(1)}), Release({Frame}),
                      Sure({Data(2)}, {}), Release({Data(2)}) >>, "exit") >>
=============================================================================
